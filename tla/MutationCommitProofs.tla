------------------------ MODULE MutationCommitProofs ------------------------
(***************************************************************************)
(* Proofs about MutationCommit for every set of entries, scheduled and     *)
(* watched or not, every selection of requests and every bound: memory and *)
(* disk agree when nothing is under way, a refused change leaves no trace, *)
(* an acknowledged configuration stays, and every process is accounted for.*)
(*                                                                         *)
(* A transaction reads the registry at several steps while exits, restarts *)
(* and scheduled runs go on beside it.  The invariant says at each of its  *)
(* stages what memory, the image taken, the disk and the entries as they   *)
(* were have in common; background steps keep that because they change     *)
(* nothing that is saved without queueing a persistence event.             *)
(***************************************************************************)
EXTENDS MutationCommit, TLAPS

-----------------------------------------------------------------------------
(* Types.                                                                  *)

Statuses == {"gone", "stopped", "starting", "running", "watching", "sleeping", "errored"}

Records == [there : BOOLEAN, on : BOOLEAN, tag : Int, status : Statuses,
            desired : BOOLEAN, tree : Nat]

SavedApps == [there : BOOLEAN, on : BOOLEAN, tag : Int, tree : Nat, active : BOOLEAN]

Images == [apps : [Entries -> SavedApps], label : Int]

Stages  == {"idle", "restore", "apply", "save", "write", "undo", "again", "rewrite",
            "answer"}
Vias    == {"none", "background", "api", "telegram", "port", "git"}
Kinds   == {"none", "create", "delete", "stop", "start", "spawn", "restart", "update",
            "enable", "disable", "tag", "pull", "save"}
Undos   == {"none", "snapshot", "enabled", "delete", "tag", "stop", "start", "activity",
            "inactive"}
Answers == {"none", "ok", "refused", "incomplete", "failed", "unsaved"}

Jobs == [stage : Stages, via : Vias, kind : Kinds, undo : Undos,
         targets : SUBSET Entries, todo : SUBSET Entries, done : SUBSET Entries,
         before : [Entries -> Records], label : Int, img : Images, err : BOOLEAN,
         answer : Answers]

(* Trees have numbers other than None.                                     *)
Trees == SUBSET (Nat \ {None})

(* The type invariant.                                                     *)
Types ==
  /\ mem \in [Entries -> Records] /\ live \in [Entries -> Trees]
  /\ made \in [Entries -> Nat]
  /\ label \in Int /\ disk \in Images
  /\ phase \in {"down", "loading", "up"} /\ job \in Jobs
  /\ pending \in BOOLEAN /\ saver \in Nat
  /\ flag \in BOOLEAN /\ told \in BOOLEAN

-----------------------------------------------------------------------------
(* An entry with a process serves or is errored, one that is shown as      *)
(* active is wanted, one that is not there is blank.                       *)
Sane(m) ==
  /\ m.tree # None => m.status \in {"running", "watching", "errored"}
  /\ Shown(m) => m.desired
  /\ ~m.there => m = Gone

(* So is an entry an image does not have.                                  *)
Blank(s) == ~s.there => Config(s) = Config(Gone) /\ s.tree = None

(* Every record and every image at hand is of that kind.                   *)
Sanity ==
  /\ \A e \in Entries : Sane(mem[e]) /\ Sane(job.before[e])
  /\ \A e \in Entries : Blank(disk.apps[e]) /\ Blank(job.img.apps[e])

-----------------------------------------------------------------------------
(* The shape of a transaction.                                             *)
Plans == {<<"none", "none">>, <<"create", "delete">>, <<"delete", "snapshot">>,
          <<"stop", "snapshot">>, <<"start", "snapshot">>, <<"spawn", "snapshot">>,
          <<"restart", "snapshot">>, <<"update", "snapshot">>, <<"enable", "enabled">>,
          <<"disable", "enabled">>, <<"tag", "tag">>, <<"save", "none">>,
          <<"start", "stop">>, <<"stop", "start">>, <<"restart", "stop">>,
          <<"spawn", "activity">>, <<"stop", "activity">>, <<"restart", "inactive">>,
          <<"pull", "none">>}

(* What the parts of a transaction say of one another: which compensation  *)
(* goes with which change, who the client is and which answers it may get. *)
Shape ==
  /\ <<job.kind, job.undo>> \in Plans
  /\ job.kind = "none" <=> job.via \in {"none", "background"}
  /\ job.kind = "pull" <=> job.via = "git"
  /\ job.via = "port" => job.kind = "stop" /\ job.answer # "incomplete"
  /\ job.kind \in {"none", "save"} => job.targets = {}
  /\ job.done \subseteq job.targets
  /\ job.answer = "unsaved" => job.via = "port"
  /\ job.answer = "failed" => job.done = {}
  /\ job.answer = "refused" => job.via \notin {"git", "background"} /\ ~job.err

(* Where a transaction may be, and what it has when it is there. Nothing   *)
(* is known to a daemon that is down, and a loading one restores.          *)
Course ==
  /\ phase = "down" => /\ job = Idle /\ saver = 0 /\ ~flag /\ ~told
                        /\ \A e \in Entries : mem[e] = Gone
  /\ phase = "loading" => /\ job.stage = "restore" /\ saver = 0 /\ ~flag /\ ~told
                           /\ \A e \in job.todo : disk.apps[e].there
  /\ phase = "up" => job.stage # "restore"
  /\ job.stage = "idle" => job.targets = {}
  /\ job.stage \in {"restore", "save"} <=>
       job.via = "background" /\ job.stage \notin {"write", "answer"}
  /\ job.stage = "idle" <=> job.via = "none"
  /\ job.via = "background" /\ phase = "up" => saver > 0
  /\ job.stage \in {"rewrite"} => job.via # "port"
  /\ job.stage = "again" => job.via = "git"
  /\ job.stage = "undo" => job.undo # "none" /\ job.todo \subseteq job.done
  /\ job.stage = "apply" => job.todo \subseteq job.targets \ job.done
  /\ job.stage = "answer" <=> job.answer # "none"

-----------------------------------------------------------------------------
(* An image has what memory has of an entry.                               *)
InSync(e, img) == HeldOf(e, mem[e], live[e]) = KeptOf(img.apps[e], live[e])

(* An image has all that memory has.                                       *)
Fits(img) == label = img.label /\ \A e \in Entries : InSync(e, img)

(* Something has changed and another save than the one under way follows.  *)
Stirred == pending \/ (saver > 0 /\ job.via # "background")

(* Something has changed and a save follows, or the failure is known.      *)
Dirty == pending \/ saver > 0 \/ flag \/ told

(* The entries the transaction under way may have changed. The restart of  *)
(* a pull may leave its process changed also when it fails.                *)
Touched == job.done \cup (IF job.kind = "pull" THEN job.targets \ job.todo ELSE {})

(* What is in sync at each stage: the disk with the entries the            *)
(* transaction has not touched, the image taken with memory, the disk with *)
(* memory when the save is acknowledged. Each may be out of date only if   *)
(* another save follows.                                                   *)
Sync ==
  /\ phase = "up" /\ job.stage = "idle" => Dirty \/ Fits(disk)
  /\ job.stage = "apply" =>
       Dirty \/ (disk.label = job.label /\ \A e \in Entries \ Touched : InSync(e, disk))
  /\ job.stage = "apply" /\ label # job.label =>
       \/ job.kind \in {"enable", "disable"}
       \/ job.kind \in {"create", "tag"} /\ (job.todo # {} \/ job.done # {} \/ Dirty)
  /\ job.stage \in {"write", "rewrite"} => Stirred \/ Fits(job.img)
  /\ job.stage = "write" /\ job.kind = "save" => Dirty \/ Fits(disk)
  /\ job.stage = "answer" /\ job.answer \in {"ok", "refused"} => Stirred \/ Fits(disk)
  /\ job.stage = "answer" /\ job.answer = "failed" /\ job.kind # "pull" =>
       Dirty \/ Fits(disk)

(* Each entry has its own trees, or they were lost: in memory, before the  *)
(* restore on disk, during the restore first on disk and then in memory.   *)
Accounted ==
  /\ phase = "up" => \A e \in Entries : live[e] \ lost[e] \subseteq {mem[e].tree}
  /\ phase # "up" =>
       \A e \in Entries : live[e] \ lost[e] \subseteq {disk.apps[e].tree}
  /\ phase = "loading" =>
       \A e \in Entries \ job.todo : live[e] \ lost[e] \subseteq {mem[e].tree}

-----------------------------------------------------------------------------
(* The client knows the configuration.                                     *)
Acked(e) == ack[e] # Unknown

(* Memory has the entry as it will be.                                     *)
Settled(e) == phase = "up" \/ (phase = "loading" /\ e \notin job.todo)

(* The transaction has not changed the configuration of its target.        *)
Untouched(e) == job.kind # "create" /\ (e \notin job.done \/ job.kind = "stop")

(* What a client knows is on disk and in memory, and for a target of the   *)
(* transaction in what the transaction remembers of it.                    *)
Acks ==
  /\ \A e \in Entries \ job.targets :
       Acked(e) => /\ Config(disk.apps[e]) = ack[e]
                   /\ Settled(e) => Config(mem[e]) = ack[e]
  /\ \A e \in job.targets :
       /\ Acked(e) => Config(job.before[e]) = ack[e]
       /\ Untouched(e) => /\ Config(mem[e]) = Config(job.before[e])
                          /\ Acked(e) => Config(disk.apps[e]) = ack[e]
  /\ job.stage \in {"write", "rewrite"} =>
       \A e \in Entries : Config(job.img.apps[e]) = Config(mem[e])
  /\ job.stage = "answer" /\ job.answer \in {"ok", "refused"} =>
       \A e \in Entries : Config(disk.apps[e]) = Config(mem[e])

(* Neither active nor wanted.                                              *)
Dormant(m) == ~Active(m) /\ ~m.desired

(* A target is as it was.                                                  *)
Restored(e) ==
  /\ Config(mem[e]) = Config(job.before[e])
  /\ Dormant(job.before[e]) => ~Shown(mem[e])

(* What the transaction remembers of its targets is what its compensation  *)
(* needs, and an entry at rest stays as it was until its turn.             *)
Targets ==
  \A e \in job.targets :
    /\ job.kind = "create" => job.before[e] = Gone
    /\ job.kind # "create" => job.before[e].there
    /\ job.kind \notin {"create", "delete"} => mem[e].there
    /\ job.undo \in {"stop", "start", "activity", "inactive"} =>
         Config(mem[e]) = Config(job.before[e])
    /\ job.undo = "enabled" => mem[e].tag = job.before[e].tag
    /\ job.undo = "tag" => /\ mem[e].on <=> job.before[e].on
                           /\ Dormant(job.before[e]) => ~Shown(mem[e])
    /\ job.undo = "start" /\ e \in job.done => ~Dormant(job.before[e])
    /\ job.stage = "apply" /\ e \in job.todo /\ Dormant(job.before[e]) =>
         mem[e] = job.before[e]

(* What is compensated is as it was, and so it is in the image of the      *)
(* second save and at the refusal.                                         *)
Rollback ==
  /\ job.stage = "undo" /\ ~job.err => \A e \in job.done \ job.todo : Restored(e)
  /\ job.stage = "rewrite" /\ job.via # "git" =>
       /\ label = job.label /\ job.img.label = job.label
       /\ ~job.err => \A e \in job.done : Restored(e)
  /\ job.stage = "answer" /\ job.answer = "refused" =>
       /\ label = job.label /\ disk.label = label
       /\ \A e \in job.done : Restored(e)

(* The inductive invariant.                                                *)
MutationInvariant ==
  /\ Types /\ Sanity /\ Shape /\ Course /\ Sync /\ Accounted /\ Acks /\ Targets
  /\ Rollback

-----------------------------------------------------------------------------
(* Worlds: what a manager operation makes of one entry.                    *)
Worlds == [id : Entries, m : Records, live : Trees, made : Nat, ok : BOOLEAN,
           note : BOOLEAN, bad : Nat]

(* In a sound world the record is sane and holds every tree that no crash  *)
(* has lost (set L).                                                       *)
Sound(w, L) == w \in Worlds /\ Sane(w.m) /\ w.live \ L \subseteq {w.m.tree}

(* What a save must keep of the world of an entry.                         *)
HeldIn(w) == <<HeldOf(w.id, w.m, w.live), w.live>>

(* A sound outcome of a world: a persistence event once queued stays so.   *)
Outcome(w, o, L) == Sound(o, L) /\ o.id = w.id /\ (w.note => o.note)

(* A change of what a save keeps is announced.                             *)
Unsaid(w, o) == o.note \/ HeldIn(o) = HeldIn(w)

(* An operation that leaves the configuration alone.                       *)
SameConfig(w, o) == Config(o.m) = Config(w.m)

(* A failure changes nothing else.                                         *)
LEMMA FailFacts ==
  ASSUME NEW w \in Worlds
  PROVE  /\ Fail(w) \in Worlds /\ Fail(w).id = w.id /\ Fail(w).m = w.m
         /\ Fail(w).live = w.live /\ Fail(w).made = w.made /\ ~Fail(w).ok
         /\ Fail(w).note = w.note
BY DEF Fail, Worlds

(* Nor does a fault.                                                       *)
LEMMA FaultFacts ==
  ASSUME NEW w \in Worlds
  PROVE  /\ Fault(w) \in Worlds /\ Fault(w).id = w.id /\ Fault(w).m = w.m
         /\ Fault(w).live = w.live /\ Fault(w).made = w.made /\ ~Fault(w).ok
         /\ Fault(w).note = w.note
<1>1. w.bad \in Nat /\ w.bad + 1 \in Nat
  BY DEF Worlds
<1>2. Fault(w) = [w EXCEPT !.ok = FALSE, !.bad = w.bad + 1]
  BY DEF Fault
<1> QED
  BY <1>1, <1>2 DEF Worlds

(* An event queued changes nothing else.                                   *)
LEMMA NoteFacts ==
  ASSUME NEW w \in Worlds
  PROVE  /\ Note(w) \in Worlds /\ Note(w).id = w.id /\ Note(w).m = w.m
         /\ Note(w).live = w.live /\ Note(w).made = w.made /\ Note(w).ok = w.ok
         /\ Note(w).note
BY DEF Note, Worlds

(* A process that ends leaves its entry without a tree.                    *)
LEMMA EndedFacts ==
  ASSUME NEW w \in Worlds, NEW s \in Statuses
  PROVE  LET o == Ended(w, s) IN
         /\ o \in Worlds /\ o.id = w.id /\ o.made = w.made /\ o.ok = w.ok
         /\ o.note = w.note /\ o.live = w.live \ {w.m.tree}
         /\ Config(o.m) = Config(w.m) /\ o.m.there = w.m.there
         /\ o.m.status = s /\ ~o.m.desired /\ o.m.tree = None
BY DEF Ended, Worlds, Records, Trees, Config, None

(* A spawn adds one tree and gives it to the entry.                        *)
LEMMA SpawnedFacts ==
  ASSUME NEW w \in Worlds
  PROVE  LET o == Spawned(w) IN
         /\ o \in Worlds /\ o.id = w.id /\ o.ok = w.ok /\ o.note = w.note
         /\ o.live = w.live \cup {w.made + 1} /\ o.m.tree = w.made + 1
         /\ Config(o.m) = Config(w.m) /\ o.m.there = w.m.there
         /\ o.m.status \in {"running", "watching"} /\ o.m.desired
<1> DEFINE t == w.made + 1
           status == IF w.id \in Watched THEN "watching" ELSE "running"
<1>1. t \in Nat \ {None} /\ w.m \in Records /\ w.live \in Trees /\ w.made \in Nat
  BY DEF Worlds, None
<1>2. status \in {"running", "watching"} /\ status \in Statuses
  BY DEF Statuses
<1>3. Spawned(w) = [w EXCEPT !.made = t, !.live = w.live \cup {t}, !.m.tree = t,
                             !.m.desired = TRUE, !.m.status = status]
  BY DEF Spawned
<1>4. w.live \cup {t} \in Trees
  BY <1>1 DEF Trees
<1> HIDE DEF t, status
<1> DEFINE r == [w.m EXCEPT !.tree = t, !.desired = TRUE, !.status = status]
<1>5. /\ Spawned(w).id = w.id /\ Spawned(w).ok = w.ok /\ Spawned(w).note = w.note
      /\ Spawned(w).live = w.live \cup {t} /\ Spawned(w).made = t
      /\ Spawned(w).bad = w.bad /\ Spawned(w).m = r
  BY <1>3 DEF Worlds
<1>6. /\ r \in Records /\ r.tree = t /\ r.desired /\ r.status = status
      /\ r.there = w.m.there /\ Config(r) = Config(w.m)
  BY <1>1, <1>2 DEF Records, Config
<1> HIDE DEF r
<1>7. Spawned(w) \in [id : Entries, m : Records, live : Trees, made : Nat, ok : BOOLEAN,
                      note : BOOLEAN, bad : Nat]
  <2>1. Spawned(w) = [id |-> w.id, m |-> r, live |-> w.live \cup {t}, made |-> t,
                      ok |-> w.ok, note |-> w.note, bad |-> w.bad]
    BY <1>3, <1>5 DEF Worlds
  <2> QED
    BY <1>1, <1>4, <1>6, <2>1 DEF Worlds
<1> QED
  BY <1>2, <1>5, <1>6, <1>7 DEF t, Worlds

(* An errored entry keeps its tree and is not wanted.                      *)
LEMMA ErroredFacts ==
  ASSUME NEW w \in Worlds
  PROVE  LET o == Errored(w) IN
         /\ o \in Worlds /\ o.id = w.id /\ o.made = w.made /\ o.ok = w.ok
         /\ o.note /\ o.live = w.live
         /\ Config(o.m) = Config(w.m) /\ o.m.there = w.m.there
         /\ o.m.status = "errored" /\ ~o.m.desired /\ o.m.tree = w.m.tree
BY DEF Errored, Note, Worlds, Records, Config, Statuses

(* An edit changes the record alone.                                       *)
LEMMA TagFacts ==
  ASSUME NEW w \in Worlds, NEW t, NEW o, o \in Tag(w, t)
  PROVE  /\ t \in Int => o \in Worlds
         /\ o.id = w.id /\ (o.ok <=> w.ok)
         /\ (o.note <=> w.note) /\ o.live = w.live
         /\ (o.m.there <=> w.m.there) /\ (o.m.on <=> w.m.on) /\ o.m.tag = t
         /\ o.m.status = w.m.status /\ (o.m.desired <=> w.m.desired)
         /\ o.m.tree = w.m.tree
BY DEF Tag, Worlds, Records

(* What a status of a sane record says about the others of its fields.     *)
LEMMA SaneFacts ==
  ASSUME NEW m \in Records, Sane(m)
  PROVE  /\ ~m.there => /\ m.status = "gone" /\ m.tree = None /\ ~m.on /\ ~m.desired
                        /\ m.tag = 0
         /\ ~Active(m) => m.tree = None
         /\ m.tree # None => m.there
         /\ Shown(m) => m.there /\ m.desired
BY DEF Sane, Gone, Active, Shown, Records, None

(* A world whose record is there is sound when its fields are.             *)
LEMMA SoundOutcome ==
  ASSUME NEW w \in Worlds, NEW o \in Worlds, NEW L, o.id = w.id,
         w.note => o.note, o.m.there,
         o.m.tree # None => o.m.status \in {"running", "watching", "errored"},
         Shown(o.m) => o.m.desired, o.live \ L \subseteq {o.m.tree}
  PROVE  Outcome(w, o, L)
BY DEF Outcome, Sound, Sane

(* A stop leaves the entry stopped without a tree, or as it was.           *)
LEMMA StopFacts ==
  ASSUME NEW L, NEW w, Sound(w, L), NEW o \in Stop(w)
  PROVE  /\ Outcome(w, o, L) /\ SameConfig(w, o) /\ o.m.there = w.m.there
         /\ o.ok => /\ Stoppable(w.m) /\ o.m.status = "stopped" /\ ~o.m.desired
                    /\ o.m.tree = None /\ w.ok /\ o.note = w.note
         /\ ~o.ok /\ w.ok => HeldIn(o) = HeldIn(w) /\ o.m.status = w.m.status
                              /\ o.m.tree = w.m.tree
<1>1. /\ w \in Worlds /\ Sane(w.m) /\ w.live \ L \subseteq {w.m.tree} /\ w.m \in Records
  BY DEF Sound, Worlds
<1>2. CASE ~Stoppable(w.m) /\ o = Fail(w)
  BY <1>1, <1>2, FailFacts DEF Outcome, Sound, SameConfig, HeldIn
<1>3. CASE Stoppable(w.m) /\ o = Ended(w, "stopped")
  <2>1. "stopped" \in Statuses
    BY DEF Statuses
  <2>2. w.m.there
    BY <1>1, <1>3 DEF Sane, Stoppable, Gone, Shown
  <2>3. o.live \ L \subseteq {o.m.tree}
    BY <1>1, <1>3, <2>1, EndedFacts
  <2>4. ~Shown(o.m)
    BY <1>1, <1>3, <2>1, EndedFacts DEF Shown
  <2>5. Outcome(w, o, L)
    BY <1>1, <1>3, <2>1, <2>2, <2>3, <2>4, EndedFacts, SoundOutcome
  <2> QED
    BY <1>1, <1>3, <2>1, <2>5, EndedFacts DEF SameConfig
<1>4. CASE /\ Stoppable(w.m) /\ w.m.tree \in w.live
           /\ o = Fault([w EXCEPT !.m.desired = TRUE])
  <2> DEFINE v == [w EXCEPT !.m.desired = TRUE]
  <2>1. /\ v \in Worlds /\ v.id = w.id /\ v.live = w.live /\ v.note = w.note
        /\ Config(v.m) = Config(w.m) /\ v.m.there = w.m.there
        /\ v.m.status = w.m.status /\ v.m.tree = w.m.tree /\ v.m.desired = TRUE
    BY <1>1 DEF Worlds, Records, Config
  <2>2. w.m.there
    BY <1>1, <1>4 DEF Sane, Stoppable, Gone, Shown
  <2> HIDE DEF v
  <2>3. /\ o \in Worlds /\ o.m = v.m /\ o.live = v.live /\ o.id = v.id /\ ~o.ok
        /\ o.note = v.note
    BY <1>4, <2>1, FaultFacts DEF v
  <2>4. Outcome(w, o, L)
    BY <1>1, <2>1, <2>2, <2>3, SoundOutcome DEF Sane, Shown
  <2>5. Shown(w.m) => w.m.desired = TRUE
    BY <1>1 DEF Sane, Records
  <2>6. HeldIn(o) = HeldIn(w)
    BY <2>1, <2>3, <2>5 DEF HeldIn, HeldOf, Config, Shown
  <2> QED
    BY <2>1, <2>3, <2>4, <2>6 DEF SameConfig
<1> QED
  BY <1>2, <1>3, <1>4 DEF Stop

(* A launch keeps the configuration, and its failure is announced.         *)
LEMMA LaunchFacts ==
  ASSUME NEW L, NEW w, Sound(w, L), w.m.there, w.m.tree = None, NEW o \in Launch(w)
  PROVE  /\ Outcome(w, o, L) /\ SameConfig(w, o) /\ o.m.there
         /\ ~o.ok /\ w.ok => o.note
<1>1. /\ w \in Worlds /\ Sane(w.m) /\ w.live \ L \subseteq {None} /\ w.m \in Records
      /\ None \notin w.live
  BY DEF Sound, Worlds, Trees
<1>2. CASE o = Spawned(w)
  <2>1. /\ o \in Worlds /\ o.id = w.id /\ o.ok = w.ok /\ o.note = w.note
        /\ o.live = w.live \cup {w.made + 1} /\ o.m.tree = w.made + 1
        /\ Config(o.m) = Config(w.m) /\ o.m.there = w.m.there
        /\ o.m.status \in {"running", "watching"} /\ o.m.desired
    BY <1>1, <1>2, SpawnedFacts
  <2>2. Outcome(w, o, L)
    BY <1>1, <2>1, SoundOutcome
  <2> QED
    BY <2>1, <2>2 DEF SameConfig
<1>3. ASSUME NEW v \in Worlds, v.id = w.id, v.m.there, Config(v.m) = Config(w.m),
             v.live \ L \subseteq {v.m.tree}, o = Errored(v)
      PROVE  Outcome(w, o, L) /\ SameConfig(w, o) /\ o.m.there /\ o.note
  <2>1. /\ o \in Worlds /\ o.id = v.id /\ o.note /\ o.live = v.live
        /\ Config(o.m) = Config(v.m) /\ o.m.there = v.m.there
        /\ o.m.status = "errored" /\ ~o.m.desired /\ o.m.tree = v.m.tree
    BY <1>3, ErroredFacts
  <2>2. ~Shown(o.m)
    BY <2>1 DEF Shown
  <2>3. Outcome(w, o, L)
    BY <1>1, <1>3, <2>1, <2>2, SoundOutcome
  <2> QED
    BY <1>3, <2>1, <2>3 DEF SameConfig
<1>4. CASE o = Errored(Fail(w))
  BY <1>1, <1>3, <1>4, FailFacts
<1>5. CASE o = Errored(Fault(w))
  BY <1>1, <1>3, <1>5, FaultFacts
<1>6. CASE o = Errored(Fault(Spawned(w)))
  <2> DEFINE v == Spawned(w)
  <2>1. /\ v \in Worlds /\ v.id = w.id /\ v.live = w.live \cup {w.made + 1}
        /\ v.m.tree = w.made + 1 /\ Config(v.m) = Config(w.m) /\ v.m.there = w.m.there
    BY <1>1, SpawnedFacts
  <2>2. v.live \ L \subseteq {v.m.tree}
    BY <1>1, <2>1
  <2> HIDE DEF v
  <2> QED
    BY <1>3, <1>6, <2>1, <2>2, FaultFacts DEF v
<1> QED
  BY <1>2, <1>4, <1>5, <1>6 DEF Launch

(* Spawn: what fails was announced or changes nothing.                     *)
LEMMA SpawnFacts ==
  ASSUME NEW L, NEW w, Sound(w, L), NEW o \in Spawn(w)
  PROVE  /\ Outcome(w, o, L) /\ SameConfig(w, o) /\ o.m.there = w.m.there
         /\ ~o.ok /\ w.ok => Unsaid(w, o) /\ (w.m.on /\ ~Active(w.m) => o.note)
<1>1. w \in Worlds /\ Sane(w.m) /\ w.m \in Records
  BY DEF Sound, Worlds
<1>2. CASE w.m.on /\ ~Active(w.m) /\ o \in Launch(w)
  <2>1. w.m.there /\ w.m.tree = None
    BY <1>1, <1>2, SaneFacts
  <2> QED
    BY <1>2, <2>1, LaunchFacts DEF Unsaid
<1>3. CASE ~(w.m.on /\ ~Active(w.m)) /\ o = Fail(w)
  BY <1>1, <1>3, FailFacts DEF Outcome, Sound, SameConfig, HeldIn, Unsaid
<1> QED
  BY <1>2, <1>3 DEF Spawn

(* So does a start.                                                        *)
LEMMA StartFacts ==
  ASSUME NEW L, NEW w, Sound(w, L), NEW o \in StartExisting(w)
  PROVE  /\ Outcome(w, o, L) /\ SameConfig(w, o) /\ o.m.there = w.m.there
         /\ ~o.ok /\ w.ok => Unsaid(w, o)
<1>1. w \in Worlds
  BY DEF Sound
<1>2. CASE o \in Spawn(w)
  BY <1>2, SpawnFacts
<1>3. CASE o = Fail(w)
  BY <1>1, <1>3, FailFacts DEF Outcome, Sound, SameConfig, HeldIn, Unsaid
<1> QED
  BY <1>2, <1>3 DEF StartExisting

(* So does a restart.                                                      *)
LEMMA RestartFacts ==
  ASSUME NEW L, NEW w, Sound(w, L), w.ok, NEW o \in Restart(w)
  PROVE  /\ Outcome(w, o, L) /\ SameConfig(w, o) /\ o.m.there = w.m.there
         /\ ~o.ok => Unsaid(w, o)
<1>1. w \in Worlds
  BY DEF Sound
<1>2. CASE ~w.m.on /\ o = Fail(w)
  BY <1>1, <1>2, FailFacts DEF Outcome, Sound, SameConfig, HeldIn, Unsaid
<1>3. CASE o \in Spawn(w)
  BY <1>3, SpawnFacts
<1>4. CASE w.m.on /\ o \in Then(Stop(w), Spawn)
  <2>1. PICK v \in Stop(w) : IF v.ok THEN o \in Spawn(v) ELSE o = v
    BY <1>4 DEF Then
  <2>2. /\ Outcome(w, v, L) /\ SameConfig(w, v) /\ v.m.there = w.m.there
        /\ v.ok => /\ v.m.status = "stopped" /\ ~v.m.desired /\ v.m.tree = None
        /\ ~v.ok => HeldIn(v) = HeldIn(w)
    BY StopFacts
  <2>3. CASE ~v.ok
    BY <2>1, <2>2, <2>3 DEF Unsaid
  <2>4. CASE v.ok
    <3>1. Sound(v, L) /\ v.id = w.id /\ (w.note => v.note)
      BY <2>2 DEF Outcome
    <3>2. v.m.on /\ ~Active(v.m)
      BY <1>4, <2>2, <2>4 DEF SameConfig, Config, Active, Shown
    <3>3. /\ Outcome(v, o, L) /\ SameConfig(v, o) /\ o.m.there = v.m.there
          /\ ~o.ok => o.note
      BY <2>1, <2>4, <3>1, <3>2, SpawnFacts
    <3> QED
      BY <2>2, <3>1, <3>3 DEF Outcome, SameConfig, Unsaid
  <2> QED
    BY <2>3, <2>4
<1> QED
  BY <1>2, <1>3, <1>4 DEF Restart

(* A request to create a process starts from an entry that is not there.   *)
LEMMA CreateFacts ==
  ASSUME NEW L, NEW w, Sound(w, L), w.m = Gone, w.ok, NEW o \in Create(w)
  PROVE  Outcome(w, o, L) /\ (~o.ok => o.note)
<1> DEFINE m == [Gone EXCEPT !.there = TRUE, !.on = TRUE, !.status = "stopped"]
           fresh == [w EXCEPT !.m = m]
<1>1. /\ m \in Records /\ m.there /\ m.on /\ m.status = "stopped" /\ m.tree = None
      /\ ~m.desired
  <2>1. Gone \in Records /\ Gone.tree = None /\ ~Gone.desired
    BY DEF Gone, Records, Statuses, None
  <2>2. "stopped" \in Statuses
    BY DEF Statuses
  <2> QED
    BY <2>1, <2>2 DEF Records
<1>2. /\ w \in Worlds /\ w.live \ L \subseteq {None} /\ w.m.tree = None
  BY DEF Sound, Gone
<1> HIDE DEF m
<1>3. /\ fresh \in Worlds /\ fresh.m = m /\ fresh.live = w.live /\ fresh.id = w.id
      /\ fresh.ok = w.ok /\ fresh.note = w.note
  BY <1>1, <1>2 DEF Worlds
<1>4. PICK v \in Spawn(fresh) :
        o = IF v.ok \/ v.m.tree # None THEN v ELSE [v EXCEPT !.m = Gone]
  BY DEF Create, m
<1> HIDE DEF fresh
<1>5. ~Shown(m) /\ ~Active(m)
  BY <1>1 DEF Shown, Active
<1>6. Sound(fresh, L)
  BY <1>1, <1>2, <1>3, <1>5 DEF Sound, Sane
<1>7. Outcome(fresh, v, L) /\ (~v.ok => v.note)
  BY <1>1, <1>3, <1>5, <1>6, SpawnFacts
<1>8. CASE o = v
  BY <1>3, <1>7, <1>8 DEF Outcome
<1>9. CASE ~v.ok /\ v.m.tree = None /\ o = [v EXCEPT !.m = Gone]
  <2>1. v \in Worlds /\ v.live \ L \subseteq {None} /\ Gone \in Records
    BY <1>7, <1>9 DEF Outcome, Sound, Gone, Records, Statuses, None
  <2>2. /\ o \in Worlds /\ o.m = Gone /\ o.live = v.live /\ o.id = v.id
        /\ o.ok = v.ok /\ o.note = v.note
    BY <1>9, <2>1 DEF Worlds
  <2>3. Sane(Gone) /\ Gone.tree = None
    BY DEF Sane, Gone, Shown, None
  <2> QED
    BY <1>3, <1>7, <2>1, <2>2, <2>3 DEF Outcome, Sound
<1> QED
  BY <1>4, <1>8, <1>9

(* A stop followed by the removal of the entry.                            *)
LEMMA RemovedFacts ==
  ASSUME NEW L, NEW w, Sound(w, L), w.m.tree = None
  PROVE  LET o == [w EXCEPT !.m = Gone]
         IN Outcome(w, o, L) /\ o.m = Gone /\ o.ok = w.ok
<1> DEFINE o == [w EXCEPT !.m = Gone]
<1>1. w \in Worlds /\ w.live \ L \subseteq {None} /\ Gone \in Records
  BY DEF Sound, Gone, Records, Statuses, None
<1>2. /\ o \in Worlds /\ o.m = Gone /\ o.live = w.live /\ o.id = w.id
      /\ o.ok = w.ok /\ o.note = w.note
  BY <1>1 DEF Worlds
<1>3. Sane(Gone) /\ Gone.tree = None
  BY DEF Sane, Gone, Shown, None
<1> QED
  BY <1>1, <1>2, <1>3 DEF Outcome, Sound

(* Outcomes compose.                                                       *)
LEMMA OutcomeTrans ==
  ASSUME NEW L, NEW w, NEW v, NEW o, Outcome(w, v, L), Outcome(v, o, L)
  PROVE  Outcome(w, o, L)
BY DEF Outcome

(* An outcome is a sound world of the same entry.                          *)
LEMMA OutcomeSound ==
  ASSUME NEW L, NEW w, NEW o, Outcome(w, o, L)
  PROVE  Sound(o, L) /\ o \in Worlds /\ o.m \in Records /\ o.id = w.id
BY DEF Outcome, Sound, Worlds

(* A deletion removes the entry with its tree, or leaves it as it was.     *)
LEMMA DeleteFacts ==
  ASSUME NEW L, NEW w, Sound(w, L), w.ok, NEW o \in Delete(w)
  PROVE  /\ Outcome(w, o, L)
         /\ o.ok => o.m = Gone
         /\ ~o.ok => Unsaid(w, o) /\ SameConfig(w, o)
<1>1. w \in Worlds /\ w.m \in Records /\ Sane(w.m)
  BY DEF Sound, Worlds
<1>2. CASE ~Stoppable(w.m) /\ o = [w EXCEPT !.m = Gone]
  <2>1. w.m.tree = None
    BY <1>1, <1>2 DEF Sane, Stoppable, Shown
  <2> QED
    BY <1>2, <2>1, RemovedFacts
<1>3. ASSUME NEW v \in Stop(w), IF v.ok THEN o = [v EXCEPT !.m = Gone] ELSE o = v
      PROVE  /\ Outcome(w, o, L) /\ (o.ok => o.m = Gone)
             /\ (~o.ok => Unsaid(w, o) /\ SameConfig(w, o))
  <2>1. /\ Outcome(w, v, L) /\ SameConfig(w, v)
        /\ v.ok => v.m.tree = None
        /\ ~v.ok => HeldIn(v) = HeldIn(w)
    BY StopFacts
  <2>2. CASE v.ok
    BY <1>3, <2>1, <2>2, OutcomeSound, OutcomeTrans, RemovedFacts
  <2>3. CASE ~v.ok
    BY <1>3, <2>1, <2>3 DEF Unsaid
  <2> QED
    BY <2>2, <2>3
<1>4. CASE Stoppable(w.m)
  <2>1. PICK v \in Stop(w) : IF v.ok THEN o = [v EXCEPT !.m = Gone] ELSE o = v
    BY <1>4 DEF Delete, Then
  <2> QED
    BY <1>3, <2>1
<1> QED
  BY <1>2, <1>4 DEF Delete

(* An edit is an outcome.                                                  *)
LEMMA TagOutcome ==
  ASSUME NEW L, NEW w, Sound(w, L), w.m.there, NEW t, t \in Int,
         NEW o, o \in Tag(w, t)
  PROVE  Outcome(w, o, L)
<1>1. w \in Worlds /\ Sane(w.m) /\ w.live \ L \subseteq {w.m.tree}
  BY DEF Sound
<1>2. o \in Worlds /\ o.id = w.id /\ (w.note => o.note) /\ o.live = w.live
  <2> w \in Worlds
    BY <1>1
  <2>1. o \in Worlds
    BY TagFacts
  <2>2. o.id = w.id /\ o.live = w.live
    BY TagFacts
  <2>3. w.note => o.note
    BY TagFacts
  <2> QED
    BY <2>1, <2>2, <2>3
<1>4. (o.m.there <=> w.m.there) /\ o.m.status = w.m.status
  <2> w \in Worlds
    BY <1>1
  <2> QED
    BY TagFacts
<1>5. (o.m.desired <=> w.m.desired) /\ o.m.tree = w.m.tree
  <2> w \in Worlds
    BY <1>1
  <2> QED
    BY TagFacts
<1>3. Shown(o.m) => o.m.desired
  BY <1>1, <1>4, <1>5 DEF Sane, Shown
<1> QED
  BY <1>1, <1>2, <1>3, <1>4, <1>5, SoundOutcome DEF Sane

(* The spawn of an update: with the old configuration if it fails.         *)
Retry(p, t) == Then(Tag([p EXCEPT !.ok = TRUE], t), Spawn)

(* The start at the end of an update, and the second with the old          *)
(* configuration.                                                          *)
LEMMA UpdateStart ==
  ASSUME NEW L, NEW v, Sound(v, L), v.ok, v.m.on, ~Active(v.m), NEW t, t \in Int,
         NEW p, p \in Spawn(v),
         NEW o, p.ok => o = p, ~p.ok => \E u \in Retry(p, t) : o = Fail(u)
  PROVE  /\ Outcome(v, o, L) /\ o.m.there
         /\ ~o.ok => /\ o.note /\ (o.m.there <=> v.m.there) /\ (o.m.on <=> v.m.on)
                     /\ o.m.tag = t
<1>1. v \in Worlds /\ v.m \in Records /\ Sane(v.m)
  BY DEF Sound, Worlds
<1>2. v.m.there /\ v.m.tree = None
  BY <1>1, SaneFacts
<1>3. /\ Outcome(v, p, L) /\ SameConfig(v, p) /\ p.m.there
      /\ ~p.ok => p.note
  BY <1>2, SpawnFacts
<1>4. CASE p.ok /\ o = p
  BY <1>3, <1>4
<1>5. CASE ~p.ok
  <2> DEFINE q == [p EXCEPT !.ok = TRUE]
  <2>1. PICK u \in Retry(p, t) : o = Fail(u)
    BY <1>5
  <2>2. PICK r \in Tag(q, t) : IF r.ok THEN u \in Spawn(r) ELSE u = r
    BY <2>1 DEF Retry, Then
  <2>3. p \in Worlds
    BY <1>3, OutcomeSound
  <2>4. /\ q \in Worlds /\ q.id = p.id /\ q.m = p.m /\ q.live = p.live
        /\ q.note = p.note /\ q.ok
    BY <2>3 DEF Worlds
  <2> HIDE DEF q
  <2>5. Sound(q, L) /\ Outcome(v, q, L) /\ q.m.there
    BY <1>3, <2>4 DEF Outcome, Sound
  <2>6. Outcome(q, r, L) /\ r.ok /\ r.note
    <3>1. Outcome(q, r, L)
      BY <2>2, <2>5, TagOutcome
    <3>2. (r.ok <=> q.ok) /\ (r.note <=> q.note)
      BY <2>2, <2>4, TagFacts
    <3>3. q.note
      BY <1>3, <1>5, <2>4
    <3> QED
      BY <2>4, <3>1, <3>2, <3>3
  <2>7. r.m.there = v.m.there /\ r.m.on = v.m.on /\ r.m.tag = t
    <3>1. (r.m.there <=> q.m.there) /\ (r.m.on <=> q.m.on)
      BY <2>2, <2>4, TagFacts
    <3>2. r.m.tag = t
      BY <2>2, <2>4, TagFacts
    <3> QED
      BY <1>3, <2>4, <3>1, <3>2 DEF SameConfig, Config
  <2>8. u \in Spawn(r)
    BY <2>2, <2>6
  <2>9. Outcome(r, u, L) /\ SameConfig(r, u) /\ u \in Worlds
    BY <2>6, <2>8, OutcomeSound, SpawnFacts
  <2>10. u.note
    BY <2>6, <2>9 DEF Outcome
  <2>11. /\ Fail(u) \in Worlds /\ Fail(u).id = u.id /\ Fail(u).m = u.m
         /\ Fail(u).live = u.live /\ ~Fail(u).ok /\ Fail(u).note = u.note
    BY <2>9, FailFacts
  <2>12. Outcome(r, o, L)
    BY <2>1, <2>9, <2>11 DEF Outcome, Sound
  <2>13. Outcome(v, o, L)
    BY <2>5, <2>6, <2>12, OutcomeTrans
  <2>14. (o.m.there <=> v.m.there) /\ (o.m.on <=> v.m.on) /\ o.m.tag = t
    BY <2>1, <2>7, <2>9, <2>11 DEF SameConfig, Config
  <2> QED
    BY <1>2, <2>1, <2>10, <2>11, <2>13, <2>14
<1> QED
  BY <1>4, <1>5

(* An update that fails leaves the old configuration.                      *)
LEMMA UpdateFacts ==
  ASSUME NEW L, NEW w, Sound(w, L), w.ok, w.m.there, NEW o \in Update(w)
  PROVE  /\ Outcome(w, o, L) /\ o.m.there
         /\ ~o.ok => Unsaid(w, o) /\ SameConfig(w, o)
<1> DEFINE start(v) == UNION {IF p.ok THEN {p}
                         ELSE {Fail(u) : u \in Then(
                                 Tag([p EXCEPT !.ok = TRUE], w.m.tag), Spawn)} :
                           p \in Spawn(v)}
           patch(v) == IF Stoppable(w.m) /\ v.m.on THEN Then(Tag(v, 1 - w.m.tag), start)
                       ELSE Tag(v, 1 - w.m.tag)
<1>1. w \in Worlds /\ w.m \in Records /\ w.m.tag \in Int /\ 1 - w.m.tag \in Int
  BY DEF Sound, Worlds, Records
<1>2. ASSUME NEW v, Sound(v, L), v.ok, v.m.there, SameConfig(w, v), NEW x \in patch(v),
             Stoppable(w.m) => ~Active(v.m)
      PROVE  /\ Outcome(v, x, L) /\ x.m.there
             /\ ~x.ok => x.note /\ SameConfig(w, x)
  <2>1. ASSUME NEW r \in Tag(v, 1 - w.m.tag)
        PROVE  /\ Outcome(v, r, L) /\ r.ok /\ r.m.there /\ (r.m.on <=> v.m.on)
               /\ r.m.status = v.m.status /\ r.m.tree = v.m.tree
    <3> DEFINE t == 1 - w.m.tag
    <3>0. t \in Int /\ r \in Tag(v, t)
      BY <1>1, <2>1
    <3> HIDE DEF t
    <3>1. v \in Worlds
      BY <1>2 DEF Sound
    <3>2. Outcome(v, r, L)
      BY <1>2, <3>0, TagOutcome
    <3>3. r.ok <=> v.ok
      BY <3>0, <3>1, TagFacts
    <3>4. (r.m.there <=> v.m.there) /\ (r.m.on <=> v.m.on)
      BY <3>0, <3>1, TagFacts
    <3>5. r.m.status = v.m.status /\ r.m.tree = v.m.tree
      BY <3>0, <3>1, TagFacts
    <3> QED
      BY <1>2, <3>2, <3>3, <3>4, <3>5
  <2>2. CASE ~(Stoppable(w.m) /\ v.m.on)
    BY <1>2, <2>1, <2>2
  <2>3. CASE Stoppable(w.m) /\ v.m.on
    <3>1. x \in Then(Tag(v, 1 - w.m.tag), start)
      BY <1>2, <2>3
    <3>2. PICK r \in Tag(v, 1 - w.m.tag) : IF r.ok THEN x \in start(r) ELSE x = r
      BY <3>1 DEF Then
    <3>3. x \in start(r)
      BY <2>1, <3>2
    <3>4. PICK p \in Spawn(r) :
            IF p.ok THEN x = p
            ELSE \E u \in Retry(p, w.m.tag) : x = Fail(u)
      BY <3>3 DEF Retry
    <3>5. Sound(r, L) /\ r.ok /\ r.m.on /\ ~Active(r.m)
      BY <1>2, <2>1, <2>3, OutcomeSound DEF Active, Shown
    <3>6. /\ Outcome(r, x, L) /\ x.m.there
          /\ ~x.ok => /\ x.note /\ (x.m.there <=> r.m.there) /\ (x.m.on <=> r.m.on)
                      /\ x.m.tag = w.m.tag
      <4> DEFINE t == w.m.tag
      <4>1. t \in Int
        BY <1>1
      <4>2. /\ p \in Spawn(r) /\ (p.ok => x = p)
            /\ ~p.ok => \E u \in Retry(p, t) : x = Fail(u)
        BY <3>4
      <4> HIDE DEF t, start, patch
      <4>3. /\ Outcome(r, x, L) /\ x.m.there
            /\ ~x.ok => /\ x.note /\ (x.m.there <=> r.m.there) /\ (x.m.on <=> r.m.on)
                        /\ x.m.tag = t
        BY <3>5, <4>1, <4>2, UpdateStart
      <4> QED
        BY <4>3 DEF t
    <3>7. ~x.ok => SameConfig(w, x)
      BY <1>2, <2>1, <3>6 DEF SameConfig, Config
    <3> QED
      BY <2>1, <3>6, <3>7, OutcomeTrans
  <2> QED
    BY <2>2, <2>3
<1>3. CASE w.m.status = "starting" /\ o = Fail(w)
  BY <1>1, <1>3, FailFacts DEF Outcome, Sound, SameConfig, HeldIn, Unsaid
<1>4. CASE Stoppable(w.m) /\ o \in Then(Stop(w), patch)
  <2>1. PICK v \in Stop(w) : IF v.ok THEN o \in patch(v) ELSE o = v
    BY <1>4 DEF Then
  <2>2. /\ Outcome(w, v, L) /\ SameConfig(w, v) /\ v.m.there
        /\ v.ok => v.m.status = "stopped" /\ v.m.tree = None
        /\ ~v.ok => HeldIn(v) = HeldIn(w)
    BY StopFacts
  <2>3. CASE ~v.ok
    BY <2>1, <2>2, <2>3 DEF Unsaid
  <2>4. CASE v.ok
    <3>1. ~Active(v.m) /\ Sound(v, L)
      BY <2>2, <2>4, OutcomeSound DEF Active, Shown
    <3>2. /\ Outcome(v, o, L) /\ o.m.there /\ (~o.ok => o.note /\ SameConfig(w, o))
      BY <1>2, <2>1, <2>2, <2>4, <3>1
    <3> QED
      BY <2>2, <3>2, OutcomeTrans DEF Unsaid
  <2> QED
    BY <2>3, <2>4
<1>5. CASE ~Stoppable(w.m) /\ o \in patch(w)
  BY <1>2, <1>5 DEF SameConfig, Unsaid
<1> QED
  BY <1>3, <1>4, <1>5 DEF Update

(* Enabling and disabling set the flag or fail, and keep the rest of the   *)
(* configuration.                                                          *)
LEMMA EnabledFacts ==
  ASSUME NEW L, NEW w, Sound(w, L), w.ok, w.m.there, NEW on \in BOOLEAN,
         NEW o \in SetEnabled(w, on)
  PROVE  /\ Outcome(w, o, L) /\ o.m.there /\ o.m.tag = w.m.tag
         /\ o.ok => (o.m.on <=> on)
         /\ ~o.ok => Unsaid(w, o) /\ SameConfig(w, o)
<1> DEFINE v == [w EXCEPT !.m.on = on]
<1>1. /\ w \in Worlds /\ w.m \in Records /\ Sane(w.m)
      /\ w.live \ L \subseteq {w.m.tree}
  BY DEF Sound, Worlds
<1>2. /\ v \in Worlds /\ v.id = w.id /\ v.live = w.live /\ (v.note <=> w.note) /\ v.ok
      /\ v.m \in Records
  BY <1>1 DEF Worlds, Records
<1>3. /\ v.m.there /\ (v.m.on <=> on) /\ v.m.tag = w.m.tag /\ v.m.status = w.m.status
      /\ (v.m.desired <=> w.m.desired) /\ v.m.tree = w.m.tree
  BY <1>1 DEF Worlds, Records
<1>4. Outcome(w, v, L)
  BY <1>1, <1>2, <1>3, SoundOutcome DEF Sane, Shown
<1>5. SetEnabled(w, on) =
        IF ~on /\ w.id \in Cron /\ w.m.tree # None
        THEN {IF p.ok THEN p ELSE [p EXCEPT !.m.on = w.m.on] : p \in Stop(v)}
        ELSE IF ~on /\ w.m.tree = None
        THEN {[v EXCEPT !.m.status = "stopped", !.m.desired = FALSE]}
        ELSE IF on /\ ~w.m.on /\ w.id \in Cron /\ w.m.tree = None
                /\ w.m.status = "stopped"
        THEN {[v EXCEPT !.m.status = "sleeping", !.m.desired = TRUE]}
        ELSE {v}
  BY DEF SetEnabled
<1> HIDE DEF v
<1>6. CASE o = v
  BY <1>2, <1>3, <1>4, <1>6
<1>7. CASE w.m.tree = None /\ o = [v EXCEPT !.m.status = "stopped", !.m.desired = FALSE]
  <2>1. /\ o \in Worlds /\ o.id = v.id /\ o.live = v.live /\ (o.note <=> v.note) /\ o.ok
    BY <1>2, <1>7 DEF Worlds, Records, Statuses
  <2>2. /\ o.m.there /\ (o.m.on <=> on) /\ o.m.tag = v.m.tag /\ o.m.tree = v.m.tree
        /\ ~o.m.desired /\ o.m.status = "stopped"
    BY <1>2, <1>3, <1>7 DEF Worlds, Records
  <2>3. Outcome(w, o, L)
    BY <1>1, <1>2, <1>3, <1>7, <2>1, <2>2, SoundOutcome DEF Shown
  <2> QED
    BY <1>3, <2>1, <2>2, <2>3
<1>8. CASE w.m.tree = None /\ o = [v EXCEPT !.m.status = "sleeping", !.m.desired = TRUE]
  <2>1. /\ o \in Worlds /\ o.id = v.id /\ o.live = v.live /\ (o.note <=> v.note) /\ o.ok
    BY <1>2, <1>8 DEF Worlds, Records, Statuses
  <2>2. /\ o.m.there /\ (o.m.on <=> on) /\ o.m.tag = v.m.tag /\ o.m.tree = v.m.tree
        /\ o.m.desired
    BY <1>2, <1>3, <1>8 DEF Worlds, Records
  <2>3. Outcome(w, o, L)
    BY <1>1, <1>2, <1>3, <1>8, <2>1, <2>2, SoundOutcome
  <2> QED
    BY <1>3, <2>1, <2>2, <2>3
<1>9. ASSUME NEW p \in Stop(v), IF p.ok THEN o = p ELSE o = [p EXCEPT !.m.on = w.m.on]
      PROVE  /\ Outcome(w, o, L) /\ o.m.there /\ o.m.tag = w.m.tag
             /\ o.ok => (o.m.on <=> on)
             /\ ~o.ok => Unsaid(w, o) /\ SameConfig(w, o)
  <2>1. Sound(v, L)
    BY <1>4, OutcomeSound
  <2>2. /\ Outcome(v, p, L) /\ SameConfig(v, p)
        /\ ~p.ok => HeldIn(p) = HeldIn(v) /\ p.m.status = v.m.status /\ p.m.tree = v.m.tree
    BY <1>2, <2>1, StopFacts
  <2>3. /\ p \in Worlds /\ p.m \in Records /\ (p.m.there <=> v.m.there)
        /\ (p.m.on <=> v.m.on) /\ p.m.tag = v.m.tag /\ p.id = w.id
        /\ p.live \ L \subseteq {p.m.tree} /\ Sane(p.m) /\ (w.note => p.note)
    BY <1>2, <2>2 DEF SameConfig, Config, Outcome, Sound, Worlds
  <2>4. CASE p.ok
    BY <1>3, <1>4, <1>9, <2>2, <2>3, <2>4, OutcomeTrans
  <2>5. CASE ~p.ok
    <3>1. /\ o \in Worlds /\ o.id = p.id /\ o.live = p.live /\ (o.note <=> p.note)
          /\ ~o.ok
      BY <1>1, <1>9, <2>3, <2>5 DEF Worlds, Records
    <3>2. /\ o.m.there /\ (o.m.on <=> w.m.on) /\ o.m.tag = w.m.tag
          /\ o.m.status = p.m.status /\ (o.m.desired <=> p.m.desired)
          /\ o.m.tree = p.m.tree /\ o.m \in Records
      BY <1>1, <1>3, <1>9, <2>3, <2>5 DEF Worlds, Records
    <3>3. Outcome(w, o, L)
      BY <1>1, <2>3, <3>1, <3>2, SoundOutcome DEF Sane, Shown
    <3>4. SameConfig(w, o)
      BY <1>1, <3>2 DEF SameConfig, Config, Records
    <3>5. HeldIn(o) = HeldIn(w)
      <4> DEFINE h(x) == HeldOf(x.id, x.m, x.live)
      <4>1. h(p).running = h(v).running /\ (h(p).armed <=> h(v).armed) /\ p.live = v.live
        BY <2>2, <2>5 DEF HeldIn
      <4>2. h(o).running = h(p).running /\ o.live = p.live
        BY <3>1, <3>2 DEF HeldOf
      <4>3. h(o).armed <=> h(p).armed
        BY <3>1, <3>2 DEF HeldOf
      <4>4. h(v).running = h(w).running /\ v.live = w.live
        BY <1>2, <1>3 DEF HeldOf
      <4>5. h(v).armed <=> h(w).armed
        BY <1>2, <1>3 DEF HeldOf
      <4>6. /\ h(o).running = h(w).running /\ (h(o).armed <=> h(w).armed)
            /\ o.live = w.live
        BY <4>1, <4>2, <4>3, <4>4, <4>5
      <4>7. h(o) = h(w)
        BY <3>4, <4>6 DEF HeldOf, SameConfig, Config
      <4> QED
        BY <4>6, <4>7 DEF HeldIn
    <3> QED
      BY <3>1, <3>2, <3>3, <3>4, <3>5 DEF Unsaid
  <2> QED
    BY <2>4, <2>5
<1> QED
  <2>1. CASE ~on /\ w.id \in Cron /\ w.m.tree # None
    <3>1. PICK p \in Stop(v) : IF p.ok THEN o = p ELSE o = [p EXCEPT !.m.on = w.m.on]
      BY <1>5, <2>1
    <3> QED
      BY <1>9, <3>1
  <2>2. CASE ~(~on /\ w.id \in Cron /\ w.m.tree # None)
    BY <1>5, <1>6, <1>7, <1>8, <2>2
  <2> QED
    BY <2>1, <2>2

(* restore_snapshot, once nothing of the entry runs any more.              *)
LEMMA RegisterFacts ==
  ASSUME NEW L, NEW w, Sound(w, L), w.m.tree = None,
         NEW b, b \in Records, Sane(b), b.there, NEW o \in Register(w, b)
  PROVE  /\ Outcome(w, o, L) /\ o.m.there /\ Config(o.m) = Config(b)
         /\ Dormant(b) => ~Shown(o.m)
<1> DEFINE m == [b EXCEPT !.status = "stopped", !.tree = None, !.desired = FALSE]
           fresh == [w EXCEPT !.m = m]
<1>1. /\ m \in Records /\ m.there /\ m.status = "stopped" /\ m.tree = None /\ ~m.desired
      /\ Config(m) = Config(b)
  BY DEF Records, Statuses, None, Config
<1>2. /\ w \in Worlds /\ w.live \ L \subseteq {None}
  BY DEF Sound
<1> HIDE DEF m
<1>3. /\ fresh \in Worlds /\ fresh.m = m /\ fresh.live = w.live /\ fresh.id = w.id
      /\ (fresh.note <=> w.note)
  BY <1>1, <1>2 DEF Worlds
<1>4. /\ b.status = "sleeping" /\ b.desired =>
           o = [fresh EXCEPT !.m.status = "sleeping", !.m.desired = TRUE]
      /\ ~(b.status = "sleeping" /\ b.desired) =>
           \/ b.desired /\ o \in StartExisting(fresh)
           \/ o = [fresh EXCEPT !.m.status = IF Shown(b) THEN "stopped" ELSE b.status]
  BY DEF Register, m
<1> HIDE DEF fresh
<1>5. Outcome(w, fresh, L) /\ Sound(fresh, L)
  BY <1>1, <1>2, <1>3, SoundOutcome, OutcomeSound DEF Shown
<1>6. CASE /\ b.status = "sleeping" /\ b.desired
           /\ o = [fresh EXCEPT !.m.status = "sleeping", !.m.desired = TRUE]
  <2>1. o \in Worlds /\ o.id = fresh.id /\ o.live = fresh.live /\ (o.note <=> fresh.note)
    BY <1>3, <1>6 DEF Worlds, Records, Statuses
  <2>2. (o.m.there <=> m.there) /\ o.m.tree = m.tree /\ o.m.desired /\ Config(o.m) = Config(m)
    BY <1>1, <1>3, <1>6 DEF Worlds, Records, Config
  <2>3. Outcome(w, o, L)
    BY <1>1, <1>2, <1>3, <2>1, <2>2, SoundOutcome
  <2> QED
    BY <1>1, <1>6, <2>2, <2>3 DEF Dormant
<1>7. CASE b.desired /\ o \in StartExisting(fresh)
  <2>1. Outcome(fresh, o, L) /\ SameConfig(fresh, o) /\ o.m.there
    BY <1>1, <1>3, <1>5, <1>7, StartFacts
  <2> QED
    BY <1>1, <1>3, <1>5, <1>7, <2>1, OutcomeTrans DEF SameConfig, Dormant
<1>8. CASE o = [fresh EXCEPT !.m.status = IF Shown(b) THEN "stopped" ELSE b.status]
  <2> DEFINE s == IF Shown(b) THEN "stopped" ELSE b.status
  <2>1. s \in Statuses /\ s \notin {"starting", "running", "watching", "sleeping"}
    BY DEF Shown, Statuses, Records
  <2>2. o = [fresh EXCEPT !.m.status = s]
    BY <1>8
  <2> HIDE DEF s
  <2>3. o \in Worlds /\ o.id = fresh.id /\ o.live = fresh.live /\ (o.note <=> fresh.note)
    BY <1>3, <2>1, <2>2 DEF Worlds, Records
  <2>4. /\ (o.m.there <=> m.there) /\ o.m.tree = m.tree /\ o.m.status = s
        /\ Config(o.m) = Config(m)
    BY <1>1, <1>3, <2>2 DEF Worlds, Records, Config
  <2>5. ~Shown(o.m)
    BY <2>1, <2>4 DEF Shown
  <2>6. Outcome(w, o, L)
    BY <1>1, <1>2, <1>3, <2>3, <2>4, <2>5, SoundOutcome
  <2> QED
    BY <1>1, <2>4, <2>5, <2>6
<1> QED
  BY <1>4, <1>6, <1>7, <1>8

(* A restored snapshot brings back the configuration, unless what runs now *)
(* cannot be stopped, and starts nothing that was dormant.                 *)
LEMMA SnapshotFacts ==
  ASSUME NEW L, NEW w, Sound(w, L), w.ok, NEW b, b \in Records, Sane(b), b.there,
         NEW o \in RestoreSnapshot(w, b)
  PROVE  /\ Outcome(w, o, L) /\ o.m.there
         /\ Config(o.m) = Config(b) \/ (~o.ok /\ Config(o.m) = Config(w.m))
         /\ o.ok => (Dormant(b) => ~Shown(o.m))
<1>1. w \in Worlds /\ w.m \in Records /\ Sane(w.m)
  BY DEF Sound, Worlds
<1>2. CASE ~(w.m.there /\ (Shown(w.m) \/ w.m.tree # None)) /\ o \in Register(w, b)
  <2>1. w.m.tree = None
    BY <1>1, <1>2, SaneFacts
  <2> QED
    BY <1>2, <2>1, RegisterFacts
<1>3. ASSUME NEW v, v \in Stop(w), w.m.there, v.ok => o \in Register(v, b), ~v.ok => o = v
      PROVE  /\ Outcome(w, o, L) /\ o.m.there
             /\ Config(o.m) = Config(b) \/ (~o.ok /\ Config(o.m) = Config(w.m))
             /\ o.ok => (Dormant(b) => ~Shown(o.m))
  <2>1. /\ Outcome(w, v, L) /\ SameConfig(w, v) /\ v.m.there
        /\ v.ok => v.m.tree = None
    BY <1>3, StopFacts
  <2>2. CASE v.ok
    <3>1. Sound(v, L) /\ v.m.tree = None /\ o \in Register(v, b)
      BY <1>3, <2>1, <2>2, OutcomeSound
    <3>2. /\ Outcome(v, o, L) /\ o.m.there /\ Config(o.m) = Config(b)
          /\ Dormant(b) => ~Shown(o.m)
      BY <3>1, RegisterFacts
    <3> QED
      BY <2>1, <3>2, OutcomeTrans
  <2>3. CASE ~v.ok
    BY <1>3, <2>1, <2>3 DEF SameConfig
  <2> QED
    BY <2>2, <2>3
<1>4. CASE w.m.there /\ (Shown(w.m) \/ w.m.tree # None)
  <2>1. PICK v \in Stop(w) : IF v.ok THEN o \in Register(v, b) ELSE o = v
    BY <1>4 DEF RestoreSnapshot, Then
  <2> QED
    BY <1>3, <1>4, <2>1
<1> QED
  BY <1>2, <1>4 DEF RestoreSnapshot

(* The compensation of enabling and disabling.                             *)
LEMMA RestoreEnabledFacts ==
  ASSUME NEW L, NEW w, Sound(w, L), w.ok, w.m.there,
         NEW b, b \in Records, Sane(b), b.there, w.m.tag = b.tag,
         NEW o \in RestoreEnabled(w, b)
  PROVE  /\ Outcome(w, o, L) /\ o.m.there /\ o.m.tag = b.tag
         /\ o.ok => Config(o.m) = Config(b) /\ (Dormant(b) => ~Shown(o.m))
<1>1. CASE o \in RestoreSnapshot(w, b)
  <2>1. /\ Outcome(w, o, L) /\ o.m.there
        /\ Config(o.m) = Config(b) \/ (~o.ok /\ Config(o.m) = Config(w.m))
        /\ o.ok => (Dormant(b) => ~Shown(o.m))
    BY <1>1, SnapshotFacts
  <2> QED
    BY <2>1 DEF Config
<1>2. CASE b.tree # None /\ o \in SetEnabled(w, b.on)
  <2>1. b.on \in BOOLEAN /\ Active(b) /\ b.there \in BOOLEAN
    BY <1>2 DEF Records, Active
  <2>2. /\ Outcome(w, o, L) /\ o.m.there /\ o.m.tag = w.m.tag
        /\ o.ok => (o.m.on <=> b.on)
    BY <1>2, <2>1, EnabledFacts
  <2>3. o.m \in Records
    BY <2>2, OutcomeSound
  <2>4. o.ok => Config(o.m) = Config(b)
    BY <2>1, <2>2, <2>3 DEF Config, Records
  <2> QED
    BY <2>1, <2>2, <2>4 DEF Dormant
<1> QED
  BY <1>1, <1>2 DEF RestoreEnabled

(* The restart of a pull keeps the configuration.                          *)
LEMMA PullFacts ==
  ASSUME NEW L, NEW w, Sound(w, L), w.ok, w.m.there, NEW o \in PullRestart(w)
  PROVE  Outcome(w, o, L) /\ SameConfig(w, o) /\ o.m.there
<1>1. w.m \in Records /\ Sane(w.m)
  BY DEF Sound, Worlds
<1>2. PICK p \in Restart(w) : IF p.ok THEN o = p
              ELSE \E u \in RestoreSnapshot([p EXCEPT !.ok = TRUE], w.m) : o = Fail(u)
  BY DEF PullRestart
<1>3. Outcome(w, p, L) /\ SameConfig(w, p) /\ (p.m.there <=> w.m.there)
  BY RestartFacts
<1>4. CASE p.ok
  BY <1>2, <1>3, <1>4
<1>5. CASE ~p.ok
  <2> DEFINE q == [p EXCEPT !.ok = TRUE]
  <2>1. PICK u : u \in RestoreSnapshot(q, w.m) /\ o = Fail(u)
    BY <1>2, <1>5
  <2>2. p \in Worlds
    BY <1>3, OutcomeSound
  <2>3. /\ q \in Worlds /\ q.id = p.id /\ q.m = p.m /\ q.live = p.live
        /\ (q.note <=> p.note) /\ q.ok
    BY <2>2 DEF Worlds
  <2> HIDE DEF q
  <2>4. Sound(q, L) /\ Outcome(w, q, L) /\ Config(q.m) = Config(w.m)
    BY <1>3, <2>3 DEF Outcome, Sound, SameConfig
  <2>5. /\ Outcome(q, u, L) /\ u.m.there
        /\ Config(u.m) = Config(w.m) \/ Config(u.m) = Config(q.m)
    BY <1>1, <2>1, <2>3, <2>4, SnapshotFacts
  <2>6. u \in Worlds
    BY <2>5, OutcomeSound
  <2>7. /\ Fail(u) \in Worlds /\ Fail(u).id = u.id /\ Fail(u).m = u.m
        /\ Fail(u).live = u.live /\ Fail(u).note = u.note
    BY <2>6, FailFacts
  <2>8. Outcome(q, o, L)
    BY <2>1, <2>5, <2>7 DEF Outcome, Sound
  <2> QED
    BY <2>1, <2>4, <2>5, <2>7, <2>8, OutcomeTrans DEF SameConfig
<1> QED
  BY <1>4, <1>5

(* A manager operation of a request.                                       *)
LEMMA OperateFacts ==
  ASSUME NEW L, NEW w, Sound(w, L), w.ok, NEW kind, kind \in Kinds \ {"none", "save"},
         kind = "create" => w.m = Gone,
         kind \notin {"create", "delete"} => w.m.there,
         NEW o, o \in Operate(kind, w)
  PROVE  /\ Outcome(w, o, L)
         /\ kind \notin {"create", "delete"} => o.m.there
         /\ kind # "pull" /\ ~o.ok => Unsaid(w, o)
         /\ kind = "create" /\ ~o.ok => o.note
         /\ kind = "tag" => o.ok /\ o.m.status = w.m.status /\ (o.m.on <=> w.m.on)
         /\ kind # "create" /\ ~o.ok => SameConfig(w, o)
         /\ kind \in {"stop", "start", "spawn", "restart", "pull"} => SameConfig(w, o)
         /\ kind \in {"enable", "disable"} => o.m.tag = w.m.tag
         /\ kind = "stop" /\ o.ok => Stoppable(w.m)
<1>1. CASE kind = "create"
  <2>1. o \in Create(w)
    BY <1>1 DEF Operate
  <2> QED
    BY <1>1, <2>1, CreateFacts DEF Unsaid
<1>2. CASE kind = "delete"
  <2>1. o \in Delete(w)
    BY <1>2 DEF Operate
  <2> QED
    BY <1>2, <2>1, DeleteFacts
<1>3. CASE kind = "stop"
  <2>1. o \in Stop(w)
    BY <1>3 DEF Operate
  <2>2. /\ Outcome(w, o, L) /\ SameConfig(w, o) /\ (o.m.there <=> w.m.there)
        /\ o.ok => Stoppable(w.m)
        /\ ~o.ok => HeldIn(o) = HeldIn(w)
    BY <2>1, StopFacts
  <2> QED
    BY <1>3, <2>2 DEF Unsaid
<1>4. CASE kind = "start"
  <2>1. o \in StartExisting(w)
    BY <1>4 DEF Operate
  <2>2. /\ Outcome(w, o, L) /\ SameConfig(w, o) /\ (o.m.there <=> w.m.there)
        /\ ~o.ok => Unsaid(w, o)
    BY <2>1, StartFacts
  <2> QED
    BY <1>4, <2>2
<1>5. CASE kind = "spawn"
  <2>1. o \in Spawn(w)
    BY <1>5 DEF Operate
  <2>2. /\ Outcome(w, o, L) /\ SameConfig(w, o) /\ (o.m.there <=> w.m.there)
        /\ ~o.ok => Unsaid(w, o)
    BY <2>1, SpawnFacts
  <2> QED
    BY <1>5, <2>2
<1>6. CASE kind = "restart"
  <2>1. o \in Restart(w)
    BY <1>6 DEF Operate
  <2>2. /\ Outcome(w, o, L) /\ SameConfig(w, o) /\ (o.m.there <=> w.m.there)
        /\ ~o.ok => Unsaid(w, o)
    BY <2>1, RestartFacts
  <2> QED
    BY <1>6, <2>2
<1>7. CASE kind = "update"
  <2>1. o \in Update(w)
    BY <1>7 DEF Operate
  <2>2. /\ Outcome(w, o, L) /\ o.m.there
        /\ ~o.ok => Unsaid(w, o) /\ SameConfig(w, o)
    BY <1>7, <2>1, UpdateFacts
  <2> QED
    BY <1>7, <2>2
<1>8. ASSUME NEW on \in BOOLEAN, kind \in {"enable", "disable"}, o \in SetEnabled(w, on)
      PROVE  /\ Outcome(w, o, L) /\ o.m.there /\ o.m.tag = w.m.tag
             /\ ~o.ok => Unsaid(w, o) /\ SameConfig(w, o)
  BY <1>8, EnabledFacts
<1>9. CASE kind \in {"enable", "disable"}
  <2>1. o \in SetEnabled(w, TRUE) \/ o \in SetEnabled(w, FALSE)
    BY <1>9 DEF Operate
  <2>2. /\ Outcome(w, o, L) /\ o.m.there /\ o.m.tag = w.m.tag
        /\ ~o.ok => Unsaid(w, o) /\ SameConfig(w, o)
    BY <1>8, <1>9, <2>1
  <2> QED
    BY <1>9, <2>2
<1>10. CASE kind = "tag"
  <2> DEFINE t == 1 - w.m.tag
  <2>1. o \in Tag(w, t)
    BY <1>10 DEF Operate
  <2>2. t \in Int /\ w \in Worlds
    BY DEF Sound, Worlds, Records
  <2> HIDE DEF t
  <2>3. Outcome(w, o, L)
    BY <1>10, <2>1, <2>2, TagOutcome
  <2>4. o.ok <=> w.ok
    BY <2>1, <2>2, TagFacts
  <2>5. (o.m.on <=> w.m.on) /\ (o.m.there <=> w.m.there)
    BY <2>1, <2>2, TagFacts
  <2>6. o.m.status = w.m.status
    BY <2>1, <2>2, TagFacts
  <2> QED
    BY <1>10, <2>3, <2>4, <2>5, <2>6
<1>11. CASE kind = "pull"
  <2>1. o \in PullRestart(w)
    BY <1>11 DEF Operate
  <2> QED
    BY <1>11, <2>1, PullFacts
<1> QED
  BY <1>1, <1>2, <1>3, <1>4, <1>5, <1>6, <1>7, <1>9, <1>10, <1>11 DEF Kinds

(* A compensation: when it succeeds, the entry has its configuration back, *)
(* and one that was dormant does not run.                                  *)
LEMMA CompensateFacts ==
  ASSUME NEW L, NEW w, Sound(w, L), w.ok, NEW b, b \in Records, Sane(b),
         job.undo \in Undos \ {"none"},
         job.undo \in {"snapshot", "enabled"} => b.there,
         job.undo = "delete" => b = Gone,
         job.undo \notin {"snapshot", "delete"} => w.m.there,
         job.undo = "enabled" => w.m.tag = b.tag,
         job.undo = "tag" => /\ b.there /\ (w.m.on <=> b.on)
                             /\ Dormant(b) => ~Shown(w.m),
         job.undo \in {"stop", "start", "activity", "inactive"} => Config(w.m) = Config(b),
         job.undo = "start" => ~Dormant(b),
         NEW o, o \in Compensate(w, b)
  PROVE  /\ Outcome(w, o, L)
         /\ job.undo # "delete" => o.m.there
         /\ Config(w.m) = Config(b) /\ job.undo # "delete" => Config(o.m) = Config(b)
         /\ job.undo = "enabled" => o.m.tag = b.tag
         /\ job.undo = "tag" => (o.m.on <=> b.on) /\ (Dormant(b) => ~Shown(o.m))
         /\ o.ok => Config(o.m) = Config(b) /\ (Dormant(b) => ~Shown(o.m))
<1>1. w \in Worlds /\ w.m \in Records
  BY DEF Sound, Worlds
<1>2. CASE job.undo = "snapshot"
  <2>1. o \in RestoreSnapshot(w, b)
    BY <1>2 DEF Compensate
  <2>2. /\ Outcome(w, o, L) /\ o.m.there
        /\ Config(o.m) = Config(b) \/ (~o.ok /\ Config(o.m) = Config(w.m))
        /\ o.ok => (Dormant(b) => ~Shown(o.m))
    BY <1>2, <2>1, SnapshotFacts
  <2> QED
    BY <1>2, <2>2
<1>3. CASE job.undo = "enabled"
  <2>1. o \in RestoreEnabled(w, b)
    BY <1>3 DEF Compensate
  <2>2. /\ Outcome(w, o, L) /\ o.m.there /\ o.m.tag = b.tag
        /\ o.ok => Config(o.m) = Config(b) /\ (Dormant(b) => ~Shown(o.m))
    BY <1>3, <2>1, RestoreEnabledFacts
  <2>3. Config(w.m) = Config(b) => Config(o.m) = Config(b)
    <3>1. CASE o \in RestoreSnapshot(w, b)
      BY <1>3, <3>1, SnapshotFacts
    <3>2. CASE o \in SetEnabled(w, b.on)
      <4>1. b.on \in BOOLEAN /\ b.there \in BOOLEAN
        BY DEF Records
      <4>2. /\ o.ok => (o.m.on <=> b.on)
            /\ ~o.ok => SameConfig(w, o)
        BY <1>3, <3>2, <4>1, EnabledFacts
      <4>3. o.m \in Records
        BY <2>2, OutcomeSound
      <4>4. o.ok => Config(o.m) = Config(b)
        BY <2>2
      <4> QED
        BY <4>2, <4>4 DEF SameConfig
    <3> QED
      BY <2>1, <3>1, <3>2 DEF RestoreEnabled
  <2> QED
    BY <1>3, <2>2, <2>3
<1>4. CASE job.undo = "delete"
  <2>1. o \in Delete(w)
    BY <1>4 DEF Compensate
  <2>2. Outcome(w, o, L) /\ (o.ok => o.m = Gone)
    BY <2>1, DeleteFacts
  <2>3. ~Shown(Gone)
    BY DEF Shown, Gone
  <2> QED
    BY <1>4, <2>2, <2>3
<1>5. CASE job.undo = "tag"
  <2> DEFINE t == b.tag
  <2>1. o \in Tag(w, t)
    BY <1>5 DEF Compensate
  <2>2. t \in Int
    BY DEF Records
  <2> HIDE DEF t
  <2>3. Outcome(w, o, L)
    BY <1>5, <2>1, <2>2, TagOutcome
  <2>4. (o.m.on <=> w.m.on) /\ (o.m.there <=> w.m.there)
    BY <1>1, <2>1, TagFacts
  <2>5. o.m.status = w.m.status
    BY <1>1, <2>1, TagFacts
  <2>6. o.m.tag = t
    BY <1>1, <2>1, TagFacts
  <2>7. o.m \in Records
    BY <2>3, OutcomeSound
  <2>8. Config(o.m) = Config(b)
    BY <1>5, <2>4, <2>6, <2>7 DEF Config, Records, t
  <2>9. Dormant(b) => ~Shown(o.m)
    BY <1>5, <2>5 DEF Shown
  <2> QED
    BY <1>5, <2>3, <2>4, <2>8, <2>9
<1>6. CASE job.undo \in {"stop", "start", "activity", "inactive"}
  <2>1. ASSUME o \in Stop(w)
        PROVE  Outcome(w, o, L) /\ SameConfig(w, o) /\ o.m.there /\ (o.ok => ~Shown(o.m))
    <3>1. /\ Outcome(w, o, L) /\ SameConfig(w, o) /\ (o.m.there <=> w.m.there)
          /\ o.ok => o.m.status = "stopped"
      BY <2>1, StopFacts
    <3> QED
      BY <1>6, <3>1 DEF Shown
  <2>2. ASSUME o \in StartExisting(w)
        PROVE  Outcome(w, o, L) /\ SameConfig(w, o) /\ o.m.there
    <3>1. /\ Outcome(w, o, L) /\ SameConfig(w, o) /\ (o.m.there <=> w.m.there)
      BY <2>2, StartFacts
    <3> QED
      BY <1>6, <3>1
  <2>3. ASSUME o = w
        PROVE  Outcome(w, o, L) /\ SameConfig(w, o) /\ o.m.there
    BY <1>6, <2>3 DEF Outcome, SameConfig
  <2>4. /\ job.undo = "stop" => o \in Stop(w)
        /\ job.undo = "start" => o \in StartExisting(w)
        /\ job.undo = "inactive" => o \in Stop(w) \/ (o = w /\ ~Shown(w.m))
        /\ job.undo = "activity" =>
             \/ Shown(b) /\ o \in StartExisting(w)
             \/ o \in Stop(w)
             \/ o = w /\ (Shown(b) \/ ~Shown(w.m))
    BY <1>6 DEF Compensate
  <2>5. Dormant(b) => ~Shown(b)
    BY DEF Dormant, Active
  <2>6. Outcome(w, o, L) /\ SameConfig(w, o) /\ o.m.there
    BY <1>6, <2>1, <2>2, <2>3, <2>4
  <2>7. o.ok => (Dormant(b) => ~Shown(o.m))
    BY <1>6, <2>1, <2>4, <2>5
  <2> QED
    BY <1>6, <2>6, <2>7 DEF SameConfig
<1> QED
  BY <1>2, <1>3, <1>4, <1>5, <1>6 DEF Undos

-----------------------------------------------------------------------------
(* The registry, its image and the transaction at rest.                    *)
LEMMA GoneFacts ==
  Gone \in Records /\ Sane(Gone) /\ Gone.tree = None /\ ~Gone.there /\ Dormant(Gone)
BY DEF Gone, Records, Statuses, None, Sane, Shown, Dormant, Active

(* A save keeps the configuration, the tree and all else that must not be  *)
(* lost.                                                                   *)
LEMMA SavedTyped ==
  ASSUME NEW e \in Entries, NEW m, m \in Records
  PROVE  /\ Saved(e, m) \in SavedApps /\ Config(Saved(e, m)) = Config(m)
         /\ (Saved(e, m).there <=> m.there) /\ Saved(e, m).tree = m.tree
         /\ Sane(m) => Blank(Saved(e, m))
         /\ \A trees : HeldOf(e, m, trees) = KeptOf(Saved(e, m), trees)
<1>1. Saved(e, m) \in SavedApps /\ Config(Saved(e, m)) = Config(m)
  BY DEF Saved, SavedApps, Records, Config
<1>2. (Saved(e, m).there <=> m.there) /\ Saved(e, m).tree = m.tree
  BY DEF Saved
<1>3. Sane(m) => Blank(Saved(e, m))
  BY <1>1, <1>2, GoneFacts DEF Blank, Sane
<1>4. \A trees : HeldOf(e, m, trees) = KeptOf(Saved(e, m), trees)
  BY DEF Saved, HeldOf, KeptOf
<1> QED
  BY <1>1, <1>2, <1>3, <1>4

(* A transaction at rest.                                                  *)
LEMMA IdleFacts ==
  /\ Idle \in Jobs /\ Idle.stage = "idle" /\ Idle.via = "none" /\ Idle.kind = "none"
  /\ Idle.undo = "none" /\ Idle.targets = {} /\ Idle.todo = {} /\ Idle.done = {}
  /\ ~Idle.err /\ Idle.answer = "none" /\ Idle.img \in Images
  /\ \A e \in Entries : Sane(Idle.before[e]) /\ Blank(Idle.img.apps[e])
<1> DEFINE apps == [e \in Entries |-> Saved(e, Gone)]
<1>1. apps \in [Entries -> SavedApps] /\ \A e \in Entries : Blank(apps[e])
  BY GoneFacts, SavedTyped
<1>2. [apps |-> apps, label |-> 0] \in Images
  BY <1>1 DEF Images
<1>3. Idle.img = [apps |-> apps, label |-> 0] /\ Idle.before = [e \in Entries |-> Gone]
  BY DEF Idle
<1> HIDE DEF apps
<1>4. [e \in Entries |-> Gone] \in [Entries -> Records]
  BY GoneFacts
<1>5. Idle \in Jobs
  BY <1>2, <1>3, <1>4 DEF Idle, Jobs, Stages, Vias, Kinds, Undos, Answers, apps
<1>6. \A e \in Entries : Sane(Idle.before[e]) /\ Blank(Idle.img.apps[e])
  BY <1>1, <1>3, GoneFacts
<1>7. /\ Idle.stage = "idle" /\ Idle.via = "none" /\ Idle.kind = "none"
      /\ Idle.undo = "none" /\ Idle.targets = {} /\ Idle.todo = {} /\ Idle.done = {}
      /\ ~Idle.err /\ Idle.answer = "none"
  BY DEF Idle
<1> QED
  BY <1>2, <1>3, <1>5, <1>6, <1>7

(* The image of the registry has all that memory has.                      *)
LEMMA ImageOf ==
  ASSUME mem \in [Entries -> Records], label \in Int, \A e \in Entries : Sane(mem[e])
  PROVE  /\ Image \in Images /\ Image.label = label
         /\ \A e \in Entries : /\ Blank(Image.apps[e])
                               /\ Config(Image.apps[e]) = Config(mem[e])
                               /\ Image.apps[e].tree = mem[e].tree
         /\ Fits(Image)
<1>1. ASSUME NEW e \in Entries
      PROVE  mem[e] \in Records /\ Sane(mem[e])
  OBVIOUS
<1>2. [e \in Entries |-> Saved(e, mem[e])] \in [Entries -> SavedApps]
  BY <1>1, SavedTyped
<1>3. Image \in Images /\ Image.label = label
  BY <1>2 DEF Image, Images
<1>4. \A e \in Entries : Image.apps[e] = Saved(e, mem[e])
  BY DEF Image
<1>5. ASSUME NEW e \in Entries
      PROVE  /\ Blank(Image.apps[e]) /\ Config(Image.apps[e]) = Config(mem[e])
             /\ Image.apps[e].tree = mem[e].tree
             /\ HeldOf(e, mem[e], live[e]) = KeptOf(Image.apps[e], live[e])
  BY <1>1, <1>4, SavedTyped
<1> QED
  BY <1>3, <1>5 DEF Fits, InSync

(* The same under the invariant.                                           *)
LEMMA ImageFacts ==
  ASSUME Types, Sanity
  PROVE  /\ Image \in Images /\ Image.label = label
         /\ \A e \in Entries : /\ Blank(Image.apps[e])
                               /\ Config(Image.apps[e]) = Config(mem[e])
                               /\ Image.apps[e].tree = mem[e].tree
         /\ Fits(Image)
BY ImageOf DEF Types, Sanity

(* The world of an entry is sound if the entry has all its trees.          *)
LEMMA WorldFacts ==
  ASSUME Types, Sanity, NEW e \in Entries
  PROVE  LET w == World(e) IN
         /\ w \in Worlds /\ w.id = e /\ w.m = mem[e] /\ w.live = live[e]
         /\ w.made = made[e] /\ w.ok /\ ~w.note
         /\ live[e] \ lost[e] \subseteq {mem[e].tree} => Sound(w, lost[e])
<1>1. mem[e] \in Records /\ live[e] \in Trees /\ made[e] \in Nat /\ Sane(mem[e])
  BY DEF Types, Sanity
<1>2. 0 \in Nat
  OBVIOUS
<1> QED
  BY <1>1, <1>2 DEF World, Worlds, Sound

(* A world written back changes one entry.                                 *)
LEMMA BecomeFacts ==
  ASSUME Types, NEW e \in Entries, NEW w \in Worlds, Become(e, w)
  PROVE  /\ mem' \in [Entries -> Records] /\ live' \in [Entries -> Trees]
         /\ made' \in [Entries -> Nat] /\ pending' \in BOOLEAN
         /\ pending' <=> (pending \/ w.note)
         /\ mem'[e] = w.m /\ live'[e] = w.live
         /\ \A f \in Entries \ {e} : mem'[f] = mem[f] /\ live'[f] = live[f]
<1>1. w.m \in Records /\ w.live \in Trees /\ w.made \in Nat /\ w.note \in BOOLEAN
  BY DEF Worlds
<1>2. /\ mem \in [Entries -> Records] /\ live \in [Entries -> Trees]
      /\ made \in [Entries -> Nat] /\ pending \in BOOLEAN
  BY DEF Types
<1>3. mem' = [mem EXCEPT ![e] = w.m] /\ live' = [live EXCEPT ![e] = w.live]
  BY DEF Become
<1>4. made' = [made EXCEPT ![e] = w.made] /\ pending' = (pending \/ w.note)
  BY DEF Become
<1> QED
  BY <1>1, <1>2, <1>3, <1>4

(* What was in sync with a saved entry stays so when the entry changes     *)
(* nothing that is saved.                                                  *)
LEMMA BecomeSync ==
  ASSUME Types, Sanity, NEW e \in Entries, NEW w \in Worlds, w.id = e, Become(e, w),
         NEW f \in Entries, NEW s, f = e => HeldIn(w) = HeldIn(World(e)),
         HeldOf(f, mem[f], live[f]) = KeptOf(s, live[f])
  PROVE  HeldOf(f, mem'[f], live'[f]) = KeptOf(s, live'[f])
<1>1. /\ mem'[e] = w.m /\ live'[e] = w.live
      /\ \A g \in Entries \ {e} : mem'[g] = mem[g] /\ live'[g] = live[g]
  BY BecomeFacts
<1>2. CASE f # e
  BY <1>1, <1>2
<1>3. CASE f = e
  <2>1. World(e).id = e /\ World(e).m = mem[e] /\ World(e).live = live[e]
    BY WorldFacts
  <2>2. HeldOf(e, w.m, w.live) = HeldOf(e, mem[e], live[e]) /\ w.live = live[e]
    BY <1>3, <2>1 DEF HeldIn
  <2> QED
    BY <1>1, <1>3, <2>2
<1> QED
  BY <1>2, <1>3

(* The same when a process ends by itself.                                 *)
LEMMA DieSync ==
  ASSUME NEW e, NEW m, NEW s, NEW old, NEW new, new \subseteq old,
         HeldOf(e, m, old) = KeptOf(s, old)
  PROVE  HeldOf(e, m, new) = KeptOf(s, new)
<1>1. HeldOf(e, m, old).running = KeptOf(s, old).running
  OBVIOUS
<1>2. {m.tree} \cap old = {s.tree} \cap old
  BY <1>1 DEF HeldOf, KeptOf
<1>3. {m.tree} \cap new = {s.tree} \cap new
  BY <1>2
<1>4. /\ HeldOf(e, m, old).there = KeptOf(s, old).there
      /\ HeldOf(e, m, old).on = KeptOf(s, old).on
      /\ HeldOf(e, m, old).tag = KeptOf(s, old).tag
      /\ HeldOf(e, m, old).armed = KeptOf(s, old).armed
  OBVIOUS
<1> QED
  BY <1>3, <1>4 DEF HeldOf, KeptOf

-----------------------------------------------------------------------------
(* Requests.                                                               *)
Taken(via, kind, undo, T) ==
  /\ via \in {"api", "telegram", "port", "git"} /\ kind \in Kinds \ {"none"}
  /\ undo \in Undos /\ T \subseteq Entries /\ <<kind, undo>> \in Plans
  /\ kind = "pull" <=> via = "git"
  /\ via = "port" => kind = "stop"
  /\ kind = "save" => T = {}
  /\ kind = "create" => \A e \in T : ~mem[e].there
  /\ kind # "create" => \A e \in T : mem[e].there
  /\ job' = [Idle EXCEPT !.stage = "apply", !.via = via, !.kind = kind,
                         !.undo = undo, !.targets = T, !.todo = T,
                         !.before = [e \in Entries |-> IF e \in T THEN mem[e] ELSE Gone],
                         !.label = label]
  /\ label' \in Int
  /\ label' # label => \/ kind \in {"enable", "disable"}
                       \/ kind \in {"create", "tag"} /\ T # {}
  /\ UNCHANGED <<mem, live, made, disk, phase, pending, saver, flag, told, hist>>

(* Every request takes its targets by a plan, and those to be created are  *)
(* not there.                                                              *)
LEMMA RequestFacts ==
  ASSUME Types, Sanity, Request
  PROVE  \E via, kind, undo, T : Taken(via, kind, undo, T)
<1>1. label \in Int /\ 1 - label \in Int
  BY DEF Types
<1>2. ASSUME NEW name, NEW via, NEW kind, NEW undo, NEW T, Take(name, via, kind, undo, T),
             via \in {"api", "telegram", "port", "git"}, T \subseteq Entries,
             kind \in Kinds \ {"none"}, undo \in Undos, <<kind, undo>> \in Plans,
             kind = "pull" <=> via = "git", via = "port" => kind = "stop",
             kind = "save" => T = {},
             kind = "create" => \A e \in T : ~mem[e].there,
             kind # "create" => \A e \in T : mem[e].there,
             label' = label \/ label' = 1 - label,
             label' # label => \/ kind \in {"enable", "disable"}
                               \/ kind \in {"create", "tag"} /\ T # {}
      PROVE  \E v, k, u, S : Taken(v, k, u, S)
  <2>1. Taken(via, kind, undo, T)
    BY <1>1, <1>2 DEF Take, Taken
  <2> QED
    BY <2>1
<1>3. ASSUME NEW e \in Entries
      PROVE  mem[e].tree # None => mem[e].there
  BY SaneFacts DEF Types, Sanity
<1>4. Members \subseteq Entries /\ \A e \in Members : mem[e].there
  BY DEF Members, Known
<1> USE DEF Kinds, Undos, Plans, Known
<1>5. ASSUME NEW e \in Entries
      PROVE  /\ StartProcess(e) => \E v, k, u, S : Taken(v, k, u, S)
             /\ CloneProcess(e) => \E v, k, u, S : Taken(v, k, u, S)
             /\ DeleteProcess(e) => \E v, k, u, S : Taken(v, k, u, S)
             /\ StopProcess(e) => \E v, k, u, S : Taken(v, k, u, S)
  <2>1. StartProcess(e) => \E v, k, u, S : Taken(v, k, u, S)
    BY <1>2 DEF StartProcess
  <2>2. CloneProcess(e) => \E v, k, u, S : Taken(v, k, u, S)
    BY <1>2 DEF CloneProcess
  <2>3. DeleteProcess(e) => \E v, k, u, S : Taken(v, k, u, S)
    BY <1>2 DEF DeleteProcess
  <2>4. StopProcess(e) => \E v, k, u, S : Taken(v, k, u, S)
    BY <1>2 DEF StopProcess
  <2> QED
    BY <2>1, <2>2, <2>3, <2>4
<1>6. ASSUME NEW e \in Entries
      PROVE  /\ StartStopped(e) => \E v, k, u, S : Taken(v, k, u, S)
             /\ RestartProcess(e) => \E v, k, u, S : Taken(v, k, u, S)
             /\ UpdateProcess(e) => \E v, k, u, S : Taken(v, k, u, S)
             /\ SetProcessEnabled(e) => \E v, k, u, S : Taken(v, k, u, S)
  <2>1. StartStopped(e) => \E v, k, u, S : Taken(v, k, u, S)
    BY <1>2 DEF StartStopped
  <2>2. RestartProcess(e) => \E v, k, u, S : Taken(v, k, u, S)
    BY <1>2 DEF RestartProcess
  <2>3. UpdateProcess(e) => \E v, k, u, S : Taken(v, k, u, S)
    BY <1>2 DEF UpdateProcess
  <2>4. SetProcessEnabled(e) => \E v, k, u, S : Taken(v, k, u, S)
    BY <1>2 DEF SetProcessEnabled
  <2> QED
    BY <2>1, <2>2, <2>3, <2>4
<1>7. ASSUME NEW e \in Entries
      PROVE  /\ SetNotifications(e) => \E v, k, u, S : Taken(v, k, u, S)
             /\ ResetProcess(e) => \E v, k, u, S : Taken(v, k, u, S)
             /\ AssignProject(e) => \E v, k, u, S : Taken(v, k, u, S)
  <2>1. SetNotifications(e) => \E v, k, u, S : Taken(v, k, u, S)
    BY <1>2 DEF SetNotifications
  <2>2. ResetProcess(e) => \E v, k, u, S : Taken(v, k, u, S)
    BY <1>2 DEF ResetProcess
  <2>3. AssignProject(e) => \E v, k, u, S : Taken(v, k, u, S)
    BY <1>2 DEF AssignProject
  <2> QED
    BY <2>1, <2>2, <2>3
<1>8. ASSUME NEW e \in Entries
      PROVE  /\ CmdStart(e) => \E v, k, u, S : Taken(v, k, u, S)
             /\ CmdStop(e) => \E v, k, u, S : Taken(v, k, u, S)
             /\ CmdRestart(e) => \E v, k, u, S : Taken(v, k, u, S)
             /\ KillPort(e) => \E v, k, u, S : Taken(v, k, u, S)
             /\ Pull(e) => \E v, k, u, S : Taken(v, k, u, S)
  <2>1. CmdStart(e) => \E v, k, u, S : Taken(v, k, u, S)
    BY <1>2 DEF CmdStart
  <2>2. CmdStop(e) => \E v, k, u, S : Taken(v, k, u, S)
    BY <1>2 DEF CmdStop
  <2>3. CmdRestart(e) => \E v, k, u, S : Taken(v, k, u, S)
    BY <1>2 DEF CmdRestart
  <2>4. KillPort(e) => \E v, k, u, S : Taken(v, k, u, S)
    BY <1>2, <1>3 DEF KillPort
  <2>5. Pull(e) => \E v, k, u, S : Taken(v, k, u, S)
    BY <1>2 DEF Pull
  <2> QED
    BY <2>1, <2>2, <2>3, <2>4, <2>5
<1>9. LoadEcosystem => \E v, k, u, S : Taken(v, k, u, S)
  <2>1. Members # Entries => Entries \ Members # {}
    BY <1>4
  <2>2. \A e \in Entries \ Members : ~mem[e].there
    BY DEF Members
  <2> QED
    BY <1>2, <2>1, <2>2 DEF LoadEcosystem
<1>10. SaveState => \E v, k, u, S : Taken(v, k, u, S)
  BY <1>2 DEF SaveState
<1>11. Startable \subseteq Members /\ Runners \subseteq Members
  BY DEF Startable, Runners
<1>12. /\ NamespaceStart => \E v, k, u, S : Taken(v, k, u, S)
       /\ NamespaceStop => \E v, k, u, S : Taken(v, k, u, S)
       /\ NamespaceRestart => \E v, k, u, S : Taken(v, k, u, S)
  <2>1. NamespaceStart => \E v, k, u, S : Taken(v, k, u, S)
    BY <1>2, <1>4, <1>11 DEF NamespaceStart
  <2>2. NamespaceStop => \E v, k, u, S : Taken(v, k, u, S)
    BY <1>2, <1>4, <1>11 DEF NamespaceStop
  <2>3. NamespaceRestart => \E v, k, u, S : Taken(v, k, u, S)
    BY <1>2, <1>4 DEF NamespaceRestart
  <2> QED
    BY <2>1, <2>2, <2>3
<1>13. /\ CmdStartNamespace => \E v, k, u, S : Taken(v, k, u, S)
       /\ CmdStopNamespace => \E v, k, u, S : Taken(v, k, u, S)
       /\ CmdRestartNamespace => \E v, k, u, S : Taken(v, k, u, S)
  <2>1. CmdStartNamespace => \E v, k, u, S : Taken(v, k, u, S)
    BY <1>2, <1>4, <1>11 DEF CmdStartNamespace
  <2>2. CmdStopNamespace => \E v, k, u, S : Taken(v, k, u, S)
    BY <1>2, <1>4, <1>11 DEF CmdStopNamespace
  <2>3. CmdRestartNamespace => \E v, k, u, S : Taken(v, k, u, S)
    BY <1>2, <1>4 DEF CmdRestartNamespace
  <2> QED
    BY <2>1, <2>2, <2>3
<1>14. ASSUME NEW on \in BOOLEAN, UpdateProject(on)
       PROVE  \E v, k, u, S : Taken(v, k, u, S)
  <2> DEFINE kind == IF on THEN "enable" ELSE "disable"
             T == {e \in Members : mem[e].on # on}
  <2>1. Take("project", "api", kind, "enabled", T) /\ label' = 1 - label
    BY <1>14 DEF UpdateProject
  <2>2. kind \in {"enable", "disable"} /\ T \subseteq Entries /\ \A e \in T : mem[e].there
    BY <1>4
  <2>3. <<kind, "enabled">> \in Plans
    OBVIOUS
  <2> HIDE DEF kind, T
  <2> QED
    BY <1>2, <2>1, <2>2, <2>3
<1>15. ASSUME NEW kind \in {"start", "stop", "restart"}, ProjectAction(kind)
       PROVE  \E v, k, u, S : Taken(v, k, u, S)
  <2> DEFINE T == {e \in Members : \/ kind = "restart"
                                   \/ kind = "start" /\ ~Active(mem[e])
                                   \/ kind = "stop" /\ Active(mem[e])}
  <2>1. Take("projectAction", "api", kind, "snapshot", T) /\ label' = label
    BY <1>15 DEF ProjectAction
  <2>2. T \subseteq Entries /\ \A e \in T : mem[e].there
    BY <1>4
  <2>3. <<kind, "snapshot">> \in Plans
    OBVIOUS
  <2> HIDE DEF T
  <2> QED
    BY <1>2, <2>1, <2>2, <2>3
<1> QED
  BY <1>5, <1>6, <1>7, <1>8, <1>9, <1>10, <1>12, <1>13, <1>14, <1>15 DEF Request

(* The transaction a request begins.                                       *)
LEMMA TakenFacts ==
  ASSUME Types, NEW via, NEW kind, NEW undo, NEW T, Taken(via, kind, undo, T)
  PROVE  /\ job' \in Jobs /\ job'.stage = "apply" /\ job'.via = via /\ job'.kind = kind
         /\ job'.undo = undo /\ job'.targets = T /\ job'.todo = T /\ job'.done = {}
         /\ job'.label = label /\ ~job'.err /\ job'.answer = "none"
         /\ job'.img = Idle.img
         /\ \A e \in Entries : job'.before[e] = IF e \in T THEN mem[e] ELSE Gone
<1> DEFINE before == [e \in Entries |-> IF e \in T THEN mem[e] ELSE Gone]
<1>1. before \in [Entries -> Records]
  BY GoneFacts DEF Types
<1>2. job' = [Idle EXCEPT !.stage = "apply", !.via = via, !.kind = kind, !.undo = undo,
                          !.targets = T, !.todo = T, !.before = before, !.label = label]
  BY DEF Taken
<1>3. /\ label \in Int /\ via \in Vias /\ kind \in Kinds /\ undo \in Undos
      /\ T \in SUBSET Entries
  BY DEF Types, Taken, Vias
<1> HIDE DEF before
<1>4. Idle \in Jobs
  BY IdleFacts
<1>5. /\ job' \in Jobs /\ job'.stage = "apply" /\ job'.via = via /\ job'.kind = kind
      /\ job'.undo = undo /\ job'.targets = T /\ job'.todo = T /\ job'.done = Idle.done
      /\ job'.label = label /\ (job'.err <=> Idle.err) /\ job'.answer = Idle.answer
      /\ job'.img = Idle.img /\ job'.before = before
  BY <1>1, <1>2, <1>3, <1>4 DEF Jobs, Stages
<1>6. \A e \in Entries : before[e] = IF e \in T THEN mem[e] ELSE Gone
  BY DEF before
<1> QED
  BY <1>5, <1>6, IdleFacts

(* A request keeps the invariant.                                          *)
LEMMA RequestStep ==
  ASSUME MutationInvariant, Request
  PROVE  MutationInvariant'
<1>1. PICK via, kind, undo, T : Taken(via, kind, undo, T)
  BY RequestFacts DEF MutationInvariant
<1>2. /\ job' \in Jobs /\ job'.stage = "apply" /\ job'.via = via /\ job'.kind = kind
      /\ job'.undo = undo /\ job'.targets = T /\ job'.todo = T /\ job'.done = {}
      /\ job'.label = label /\ ~job'.err /\ job'.answer = "none"
      /\ job'.img = Idle.img
      /\ \A e \in Entries : job'.before[e] = IF e \in T THEN mem[e] ELSE Gone
  BY <1>1, TakenFacts DEF MutationInvariant
<1>3. /\ mem' = mem /\ live' = live /\ made' = made /\ disk' = disk /\ phase' = phase
      /\ pending' = pending /\ saver' = saver /\ flag' = flag /\ told' = told
      /\ ack' = ack /\ lost' = lost
  BY <1>1 DEF Taken, hist
<1>4. /\ via \in {"api", "telegram", "port", "git"} /\ kind \in Kinds \ {"none"}
      /\ T \subseteq Entries /\ <<kind, undo>> \in Plans
      /\ kind = "pull" <=> via = "git"
      /\ via = "port" => kind = "stop"
      /\ kind = "save" => T = {}
      /\ kind = "create" => \A e \in T : ~mem[e].there
      /\ kind # "create" => \A e \in T : mem[e].there
      /\ label' \in Int
      /\ label' # label => \/ kind \in {"enable", "disable"}
                           \/ kind \in {"create", "tag"} /\ T # {}
  BY <1>1 DEF Taken
<1>5. phase = "up" /\ job.stage = "idle" /\ job.targets = {}
  BY DEF Request, MutationInvariant, Course
<1>6. Types'
  BY <1>2, <1>3, <1>4 DEF MutationInvariant, Types
<1>7. Sanity'
  BY <1>2, <1>3, IdleFacts, GoneFacts DEF MutationInvariant, Sanity
<1>8. Shape'
  BY <1>2, <1>4 DEF Shape
<1>9. Course'
  BY <1>2, <1>3, <1>4, <1>5 DEF Course
<1>10. Sync'
  <2>1. Dirty \/ Fits(disk)
    BY <1>5 DEF MutationInvariant, Sync
  <2>2. Dirty => Dirty'
    BY <1>3 DEF Dirty
  <2>3. \A e \in Entries : InSync(e, disk) => InSync(e, disk)'
    BY <1>3 DEF InSync
  <2>4. Dirty' \/ ((disk.label = job.label)' /\ \A e \in Entries \ Touched' : InSync(e, disk)')
    BY <1>2, <1>3, <2>1, <2>2, <2>3 DEF Fits
  <2> QED
    BY <1>2, <1>4, <2>4 DEF Sync
<1>11. Accounted'
  BY <1>3, <1>5 DEF MutationInvariant, Accounted
<1>12. Acks'
  <2>1. \A e \in Entries : Acked(e) => /\ Config(disk.apps[e]) = ack[e]
                                       /\ Config(mem[e]) = ack[e]
    BY <1>5 DEF MutationInvariant, Acks, Settled
  <2>2. \A e \in Entries : Acked(e)' <=> Acked(e)
    BY <1>3 DEF Acked
  <2>3. \A e \in T : job'.before[e] = mem[e]
    BY <1>2, <1>4
  <2> QED
    BY <1>2, <1>3, <1>4, <2>1, <2>2, <2>3 DEF Acks
<1>13. Targets'
  <2>1. ASSUME NEW e \in T
        PROVE  /\ job'.before[e] = mem[e]
               /\ kind = "create" => mem[e] = Gone
               /\ Dormant(mem[e]) => ~Shown(mem[e])
    BY <1>2, <1>4 DEF MutationInvariant, Sanity, Sane, Dormant, Active
  <2> QED
    BY <1>2, <1>3, <1>4, <2>1 DEF Targets
<1>14. Rollback'
  BY <1>2 DEF Rollback
<1> QED
  BY <1>6, <1>7, <1>8, <1>9, <1>10, <1>11, <1>12, <1>13, <1>14 DEF MutationInvariant

-----------------------------------------------------------------------------
(* What changes entries without a request.                                 *)

(* A background step makes an outcome of the entry: announced, unless      *)
(* nothing that is saved changes, and never waking an entry at rest.       *)
Stirring(e) ==
  \E w \in Worlds :
    /\ Become(e, w) /\ w.id = e
    /\ Outcome(World(e), w, lost[e]) /\ SameConfig(World(e), w)
    /\ Unsaid(World(e), w)
    /\ ~Shown(mem[e]) => ~Shown(w.m)
    /\ ~Dormant(mem[e])

(* The steps without a request.                                            *)
BackgroundStep(e) ==
  Exited(e) \/ Respawn(e) \/ CronRun(e) \/ Cleanup(e)

(* An exit event is such a change.                                         *)
LEMMA ExitedFacts ==
  ASSUME Types, Sanity, Accounted, phase = "up", NEW e \in Entries, Exited(e)
  PROVE  Stirring(e)
<1> DEFINE v == [World(e) EXCEPT !.m.tree = None]
           L == lost[e]
<1>1. live[e] \ L \subseteq {mem[e].tree}
  BY DEF Accounted
<1>2. /\ World(e) \in Worlds /\ World(e).id = e /\ World(e).m = mem[e]
      /\ World(e).live = live[e] /\ World(e).ok /\ ~World(e).note
      /\ Sound(World(e), L)
  BY <1>1, WorldFacts
<1>3. /\ Serving(mem[e].status) /\ mem[e].desired /\ mem[e].tree \notin live[e]
      /\ mem[e].status \in {"running", "watching"}
  BY DEF Exited, Serving
<1>4. mem[e] \in Records /\ Sane(mem[e]) /\ live[e] \in Trees
  BY DEF Types, Sanity
<1>5. mem[e].there /\ Shown(mem[e]) /\ ~Dormant(mem[e])
  BY <1>3, <1>4, SaneFacts DEF Shown, Dormant, Active
<1>6. /\ v \in Worlds /\ v.id = e /\ v.live = live[e] /\ v.m.tree = None
      /\ (v.m.there <=> mem[e].there) /\ v.m.status = mem[e].status
      /\ (v.m.desired <=> mem[e].desired) /\ Config(v.m) = Config(mem[e])
      /\ v.m.on = mem[e].on
  BY <1>2, <1>4 DEF Worlds, Records, None, Config
<1>7. live[e] \ L \subseteq {None}
  BY <1>1, <1>3
<1>8. PICK w : /\ Become(e, w)
               /\ \/ e \in Cron /\ w = Note([v EXCEPT !.m.status = "sleeping"])
                  \/ e \notin Cron /\ \/ w = Note([v EXCEPT !.m.status = "stopped"])
                                      \/ w = Errored(v)
                                      \/ w = [v EXCEPT !.m.status = "starting"]
  BY DEF Exited, Background
<1> HIDE DEF v
<1>9. ASSUME NEW s \in {"sleeping", "stopped", "starting"}, NEW u, u = [v EXCEPT !.m.status = s]
      PROVE  /\ u \in Worlds /\ u.id = e /\ u.live = live[e] /\ u.m.tree = None
             /\ u.m.there /\ u.m.status = s /\ u.m.desired
             /\ Config(u.m) = Config(mem[e])
  <2>1. s \in Statuses /\ v.m \in Records
    BY <1>6 DEF Statuses, Worlds
  <2>2. u \in Worlds /\ u.id = e /\ u.live = live[e] /\ u.m = [v.m EXCEPT !.status = s]
    BY <1>6, <1>9, <2>1 DEF Worlds, Records
  <2> QED
    BY <1>3, <1>5, <1>6, <2>1, <2>2 DEF Records, Config
<1>10. CASE \E s \in {"sleeping", "stopped"} : w = Note([v EXCEPT !.m.status = s])
  <2>1. PICK s \in {"sleeping", "stopped"} : w = Note([v EXCEPT !.m.status = s])
    BY <1>10
  <2> DEFINE u == [v EXCEPT !.m.status = s]
  <2>2. /\ u \in Worlds /\ u.id = e /\ u.live = live[e] /\ u.m.tree = None
        /\ u.m.there /\ u.m.status = s /\ u.m.desired /\ Config(u.m) = Config(mem[e])
    BY <1>9
  <2> HIDE DEF u
  <2>3. w \in Worlds /\ w.id = e /\ w.m = u.m /\ w.live = u.live /\ w.note
    BY <2>1, <2>2, NoteFacts DEF u
  <2>4. Outcome(World(e), w, L)
    BY <1>2, <1>7, <2>2, <2>3, SoundOutcome
  <2> QED
    BY <1>2, <1>5, <1>8, <2>2, <2>3, <2>4 DEF Stirring, SameConfig, Unsaid
<1>11. CASE w = Errored(v)
  <2>1. /\ w \in Worlds /\ w.id = e /\ w.live = live[e] /\ w.note
        /\ Config(w.m) = Config(mem[e]) /\ w.m.there
        /\ w.m.status = "errored" /\ w.m.tree = None
    BY <1>5, <1>6, <1>11, ErroredFacts
  <2>2. Outcome(World(e), w, L)
    BY <1>2, <1>7, <2>1, SoundOutcome DEF Shown
  <2> QED
    BY <1>2, <1>5, <1>8, <2>1, <2>2 DEF Stirring, SameConfig, Unsaid
<1>12. CASE e \notin Cron /\ w = [v EXCEPT !.m.status = "starting"]
  <2>1. /\ w \in Worlds /\ w.id = e /\ w.live = live[e] /\ w.m.tree = None
        /\ w.m.there /\ w.m.status = "starting" /\ w.m.desired
        /\ Config(w.m) = Config(mem[e])
    BY <1>9, <1>12
  <2>2. Outcome(World(e), w, L)
    BY <1>2, <1>7, <2>1, SoundOutcome
  <2>3. {w.m.tree} \cap live[e] = {mem[e].tree} \cap live[e]
    BY <1>3, <1>4, <2>1 DEF Trees
  <2>4. HeldIn(w) = HeldIn(World(e))
    BY <1>2, <1>12, <2>1, <2>3 DEF HeldIn, HeldOf, Config
  <2> QED
    BY <1>2, <1>5, <1>8, <2>1, <2>2, <2>4 DEF Stirring, SameConfig, Unsaid
<1> QED
  BY <1>8, <1>10, <1>11, <1>12

(* So is the spawn of a claimed restart.                                   *)
LEMMA RespawnFacts ==
  ASSUME Types, Sanity, Accounted, phase = "up", NEW e \in Entries, Respawn(e)
  PROVE  Stirring(e)
<1>1. live[e] \ lost[e] \subseteq {mem[e].tree}
  BY DEF Accounted
<1>2. /\ World(e) \in Worlds /\ World(e).id = e /\ World(e).m = mem[e]
      /\ World(e).live = live[e] /\ World(e).ok /\ ~World(e).note
      /\ Sound(World(e), lost[e])
  BY <1>1, WorldFacts
<1>3. mem[e] \in Records /\ Sane(mem[e]) /\ mem[e].status = "starting"
  BY DEF Types, Sanity, Respawn
<1>4. mem[e].tree = None /\ mem[e].there /\ Shown(mem[e]) /\ ~Dormant(mem[e])
  BY <1>3, SaneFacts DEF Sane, Shown, Dormant, Active
<1>5. PICK u \in Launch(World(e)) : Become(e, Note(u))
  BY DEF Respawn, Background
<1>6. Outcome(World(e), u, lost[e]) /\ SameConfig(World(e), u)
  BY <1>2, <1>4, LaunchFacts
<1>7. u \in Worlds
  BY <1>6, OutcomeSound
<1>8. /\ Note(u) \in Worlds /\ Note(u).id = u.id /\ Note(u).m = u.m
      /\ Note(u).live = u.live /\ Note(u).note
  BY <1>7, NoteFacts
<1>9. Outcome(World(e), Note(u), lost[e])
  BY <1>6, <1>8 DEF Outcome, Sound
<1> QED
  BY <1>2, <1>4, <1>5, <1>6, <1>8, <1>9 DEF Stirring, SameConfig, Unsaid, Outcome

(* So is a scheduled run.                                                  *)
LEMMA CronRunFacts ==
  ASSUME Types, Sanity, Accounted, phase = "up", NEW e \in Entries, CronRun(e)
  PROVE  Stirring(e)
<1> DEFINE s == Spawned(World(e))
           u == [s EXCEPT !.m.status = "running"]
<1>1. live[e] \ lost[e] \subseteq {mem[e].tree}
  BY DEF Accounted
<1>2. /\ World(e) \in Worlds /\ World(e).id = e /\ World(e).m = mem[e]
      /\ World(e).live = live[e] /\ World(e).made = made[e] /\ ~World(e).note
  BY <1>1, WorldFacts
<1>3. mem[e] \in Records /\ Sane(mem[e]) /\ mem[e].status = "sleeping"
  BY DEF Types, Sanity, CronRun
<1>4. mem[e].tree = None /\ mem[e].there /\ Shown(mem[e]) /\ ~Dormant(mem[e])
  BY <1>3, SaneFacts DEF Sane, Shown, Dormant, Active
<1>5. Become(e, Note(u))
  BY DEF CronRun, Background
<1>6. /\ s \in Worlds /\ s.id = e /\ s.live = live[e] \cup {made[e] + 1}
      /\ s.m.tree = made[e] + 1 /\ Config(s.m) = Config(mem[e])
      /\ (s.m.there <=> mem[e].there) /\ s.m.desired
  BY <1>2, SpawnedFacts
<1> HIDE DEF s
<1>7. /\ u \in Worlds /\ u.id = e /\ u.live = s.live /\ u.m.tree = s.m.tree
      /\ Config(u.m) = Config(s.m) /\ (u.m.there <=> s.m.there) /\ u.m.desired
      /\ u.m.status = "running"
  BY <1>6 DEF Worlds, Records, Config, Statuses
<1> HIDE DEF u
<1>8. /\ Note(u) \in Worlds /\ Note(u).id = u.id /\ Note(u).m = u.m
      /\ Note(u).live = u.live /\ Note(u).note
  BY <1>7, NoteFacts
<1>10. Note(u).live \ lost[e] \subseteq {Note(u).m.tree}
  <2>1. live[e] \in Trees
    BY DEF Types
  <2>2. live[e] \ lost[e] = {}
    BY <1>1, <1>4, <2>1 DEF Trees
  <2> QED
    BY <1>6, <1>7, <1>8, <2>2
<1>9. Outcome(World(e), Note(u), lost[e])
  BY <1>2, <1>4, <1>6, <1>7, <1>8, <1>10, SoundOutcome
<1> QED
  BY <1>2, <1>4, <1>5, <1>6, <1>7, <1>8, <1>9 DEF Stirring, SameConfig, Unsaid

(* So is the end of an abandoned child.                                    *)
LEMMA CleanupFacts ==
  ASSUME Types, Sanity, Accounted, phase = "up", NEW e \in Entries, Cleanup(e)
  PROVE  Stirring(e)
<1> DEFINE u == Ended(World(e), "stopped")
<1>1. live[e] \ lost[e] \subseteq {mem[e].tree}
  BY DEF Accounted
<1>2. /\ World(e) \in Worlds /\ World(e).id = e /\ World(e).m = mem[e]
      /\ World(e).live = live[e] /\ ~World(e).note
  BY <1>1, WorldFacts
<1>3. /\ mem[e] \in Records /\ Sane(mem[e]) /\ mem[e].status = "errored"
      /\ mem[e].tree # None
  BY DEF Types, Sanity, Cleanup
<1>4. mem[e].there /\ ~Dormant(mem[e])
  BY <1>3, SaneFacts DEF Dormant, Active
<1>5. Become(e, Note(u))
  BY DEF Cleanup, Background
<1>6. /\ u \in Worlds /\ u.id = e /\ u.live = live[e] \ {mem[e].tree}
      /\ Config(u.m) = Config(mem[e]) /\ (u.m.there <=> mem[e].there)
      /\ u.m.status = "stopped" /\ u.m.tree = None
  BY <1>2, EndedFacts DEF Statuses
<1> HIDE DEF u
<1>7. /\ Note(u) \in Worlds /\ Note(u).id = u.id /\ Note(u).m = u.m
      /\ Note(u).live = u.live /\ Note(u).note
  BY <1>6, NoteFacts
<1>8. ~Shown(u.m)
  BY <1>6 DEF Shown
<1>9. Outcome(World(e), Note(u), lost[e])
  BY <1>1, <1>2, <1>4, <1>6, <1>7, <1>8, SoundOutcome
<1> QED
  BY <1>2, <1>4, <1>5, <1>6, <1>7, <1>8, <1>9 DEF Stirring, SameConfig, Unsaid

(* So are all of them.                                                     *)
LEMMA BackgroundFacts ==
  ASSUME Types, Sanity, Accounted, NEW e \in Entries, BackgroundStep(e)
  PROVE  /\ Stirring(e) /\ phase = "up"
         /\ UNCHANGED <<label, disk, phase, job, saver, flag, told, ack, lost>>
<1>1. /\ phase = "up"
      /\ UNCHANGED <<label, disk, phase, job, saver, flag, told, ack, lost>>
  BY DEF BackgroundStep, Exited, Respawn, CronRun, Cleanup, Background, hist
<1> QED
  BY <1>1, ExitedFacts, RespawnFacts, CronRunFacts, CleanupFacts DEF BackgroundStep

(* One entry changed by an outcome of a manager operation.                 *)
LEMMA EntryStep ==
  ASSUME Types, Sanity, Accounted, phase = "up", NEW e \in Entries, NEW w \in Worlds,
         w.id = e, Become(e, w), Outcome(World(e), w, lost[e])
  PROVE  /\ mem' \in [Entries -> Records] /\ live' \in [Entries -> Trees]
         /\ made' \in [Entries -> Nat] /\ pending' \in BOOLEAN
         /\ pending => pending'
         /\ w.note => pending'
         /\ mem'[e] = w.m /\ \A f \in Entries \ {e} : mem'[f] = mem[f]
         /\ \A f \in Entries : Sane(mem'[f])
         /\ \A f \in Entries : live'[f] \ lost[f] \subseteq {mem'[f].tree}
         /\ \A f \in Entries : f # e \/ HeldIn(w) = HeldIn(World(e)) =>
              \A s : HeldOf(f, mem[f], live[f]) = KeptOf(s, live[f]) =>
                     HeldOf(f, mem'[f], live'[f]) = KeptOf(s, live'[f])
<1>1. /\ mem' \in [Entries -> Records] /\ live' \in [Entries -> Trees]
      /\ made' \in [Entries -> Nat] /\ pending' \in BOOLEAN
      /\ pending' <=> (pending \/ w.note)
      /\ mem'[e] = w.m /\ live'[e] = w.live
      /\ \A f \in Entries \ {e} : mem'[f] = mem[f] /\ live'[f] = live[f]
  BY BecomeFacts
<1>2. Sane(w.m) /\ w.live \ lost[e] \subseteq {w.m.tree}
  BY DEF Outcome, Sound
<1>3. \A f \in Entries : Sane(mem[f]) /\ live[f] \ lost[f] \subseteq {mem[f].tree}
  BY DEF Sanity, Accounted
<1>4. ASSUME NEW f \in Entries
      PROVE  Sane(mem'[f]) /\ live'[f] \ lost[f] \subseteq {mem'[f].tree}
  BY <1>1, <1>2, <1>3
<1>5. ASSUME NEW f \in Entries, f # e \/ HeldIn(w) = HeldIn(World(e)), NEW s,
             HeldOf(f, mem[f], live[f]) = KeptOf(s, live[f])
      PROVE  HeldOf(f, mem'[f], live'[f]) = KeptOf(s, live'[f])
  BY <1>5, BecomeSync
<1> QED
  BY <1>1, <1>4, <1>5

(* The parts of the invariant that read of the registry only what an       *)
(* announced change keeps.                                                 *)
LEMMA StirStep ==
  ASSUME MutationInvariant, NEW e \in Entries, Stirring(e), phase = "up",
         UNCHANGED <<label, disk, phase, job, saver, flag, told, ack, lost>>
  PROVE  MutationInvariant'
<1>1. Types /\ Sanity /\ Accounted
  BY DEF MutationInvariant
<1>2. PICK w \in Worlds :
        /\ Become(e, w) /\ w.id = e
        /\ Outcome(World(e), w, lost[e]) /\ SameConfig(World(e), w)
        /\ Unsaid(World(e), w)
        /\ ~Shown(mem[e]) => ~Shown(w.m)
        /\ ~Dormant(mem[e])
  BY DEF Stirring
<1>3. /\ mem' \in [Entries -> Records] /\ live' \in [Entries -> Trees]
      /\ made' \in [Entries -> Nat] /\ pending' \in BOOLEAN
      /\ pending => pending'
      /\ w.note => pending'
      /\ mem'[e] = w.m /\ \A f \in Entries \ {e} : mem'[f] = mem[f]
      /\ \A f \in Entries : Sane(mem'[f])
      /\ \A f \in Entries : live'[f] \ lost[f] \subseteq {mem'[f].tree}
      /\ \A f \in Entries : f # e \/ HeldIn(w) = HeldIn(World(e)) =>
              \A s : HeldOf(f, mem[f], live[f]) = KeptOf(s, live[f]) =>
                     HeldOf(f, mem'[f], live'[f]) = KeptOf(s, live'[f])
  BY <1>1, <1>2, EntryStep
<1>4. /\ label' = label /\ disk' = disk /\ phase' = phase /\ job' = job /\ saver' = saver
      /\ flag' = flag /\ told' = told /\ ack' = ack /\ lost' = lost
  OBVIOUS
<1>5. \A f \in Entries : Config(mem'[f]) = Config(mem[f])
  <2>1. World(e).m = mem[e]
    BY <1>1, WorldFacts
  <2> QED
    BY <1>2, <1>3, <2>1 DEF SameConfig
<1>6. \A f \in Entries : ~Shown(mem[f]) => ~Shown(mem'[f])
  BY <1>2, <1>3
<1>7. pending' \/ \A f \in Entries :
              \A s : HeldOf(f, mem[f], live[f]) = KeptOf(s, live[f]) =>
                     HeldOf(f, mem'[f], live'[f]) = KeptOf(s, live'[f])
  BY <1>2, <1>3 DEF Unsaid
<1>8. Types'
  BY <1>1, <1>3, <1>4 DEF Types
<1>9. Sanity'
  BY <1>1, <1>3, <1>4 DEF Sanity
<1>10. Shape'
  BY <1>4 DEF MutationInvariant, Shape
<1>11. Course'
  <2>1. Idle' = Idle
    BY DEF Idle, Saved
  <2> QED
    BY <1>4 DEF MutationInvariant, Course
<1>12. Sync'
  <2>1. CASE pending'
    <3>1. Stirred' /\ Dirty'
      BY <2>1 DEF Stirred, Dirty
    <3> QED
      BY <3>1, <1>4 DEF MutationInvariant, Sync
  <2>2. CASE ~pending'
    <3>1. ~pending
      BY <1>3, <2>2
    <3>2. /\ \A f \in Entries : InSync(f, disk) => InSync(f, disk)'
          /\ \A f \in Entries : InSync(f, job.img) => InSync(f, job.img)'
      BY <1>4, <1>7, <2>2 DEF InSync
    <3>3. (Stirred' <=> Stirred) /\ (Dirty' <=> Dirty) /\ Touched' = Touched
      BY <1>4, <2>2, <3>1 DEF Stirred, Dirty, Touched
    <3>4. (Fits(disk) => Fits(disk)') /\ (Fits(job.img) => Fits(job.img)')
      BY <1>4, <3>2 DEF Fits
    <3> QED
      BY <1>4, <3>2, <3>3, <3>4 DEF MutationInvariant, Sync
  <2> QED
    BY <2>1, <2>2
<1>13. Accounted'
  BY <1>3, <1>4 DEF Accounted
<1>14. Acks'
  <2>1. \A f \in Entries : /\ Acked(f)' <=> Acked(f)
                           /\ Settled(f)' <=> Settled(f)
                           /\ Untouched(f)' <=> Untouched(f)
    BY <1>4 DEF Acked, Settled, Untouched
  <2>2. job.targets \subseteq Entries
    BY <1>1 DEF Types, Jobs
  <2> QED
    BY <1>4, <1>5, <2>1, <2>2 DEF MutationInvariant, Acks
<1>15. Targets'
  <2>1. ASSUME NEW f \in job.targets
        PROVE  /\ f \in Entries /\ Config(mem'[f]) = Config(mem[f])
               /\ mem'[f].there = mem[f].there /\ mem'[f].tag = mem[f].tag
               /\ mem'[f].on = mem[f].on
               /\ ~Shown(mem[f]) => ~Shown(mem'[f])
    <3>1. f \in Entries
      BY <1>1 DEF Types, Jobs
    <3> QED
      BY <1>5, <1>6, <3>1 DEF Config
  <2>2. ASSUME NEW f \in job.targets, job.stage = "apply", f \in job.todo,
               Dormant(job.before[f])
        PROVE  mem'[f] = job.before[f]
    <3>1. mem[f] = job.before[f] /\ f \in Entries
      BY <2>1, <2>2 DEF MutationInvariant, Targets
    <3>2. f # e
      BY <1>2, <2>2, <3>1
    <3> QED
      BY <1>3, <3>1, <3>2
  <2> QED
    BY <1>4, <2>1, <2>2 DEF MutationInvariant, Targets
<1>16. Rollback'
  <2>1. job.done \subseteq Entries
    BY <1>1 DEF Types, Jobs
  <2>2. \A f \in Entries : Restored(f) => Restored(f)'
    BY <1>4, <1>5, <1>6 DEF Restored
  <2> QED
    BY <1>4, <2>1, <2>2 DEF MutationInvariant, Rollback
<1> QED
  BY <1>8, <1>9, <1>10, <1>11, <1>12, <1>13, <1>14, <1>15, <1>16 DEF MutationInvariant

(* The death of a process keeps the invariant.                             *)
LEMMA DieStep ==
  ASSUME MutationInvariant, NEW e \in Entries, Die(e)
  PROVE  MutationInvariant'
<1>1. PICK t \in live[e] : live' = [live EXCEPT ![e] = @ \ {t}]
  BY DEF Die
<1>2. /\ mem' = mem /\ made' = made /\ label' = label /\ disk' = disk /\ phase' = phase
      /\ job' = job /\ pending' = pending /\ saver' = saver /\ flag' = flag
      /\ told' = told /\ ack' = ack /\ lost' = lost
  BY DEF Die, hist
<1>3. live \in [Entries -> Trees] /\ job.targets \subseteq Entries
  BY DEF MutationInvariant, Types, Jobs
<1>4. live' \in [Entries -> Trees] /\ \A f \in Entries : live'[f] \subseteq live[f]
  BY <1>1, <1>3 DEF Trees
<1>5. Types'
  BY <1>2, <1>4 DEF MutationInvariant, Types
<1>6. Sanity'
  BY <1>2 DEF MutationInvariant, Sanity
<1>7. Shape'
  BY <1>2 DEF MutationInvariant, Shape
<1>8. Course'
  <2>1. Idle' = Idle
    BY DEF Idle, Saved
  <2> QED
    BY <1>2, <2>1 DEF MutationInvariant, Course
<1>9. Sync'
  <2>1. /\ \A f \in Entries : InSync(f, disk) => InSync(f, disk)'
        /\ \A f \in Entries : InSync(f, job.img) => InSync(f, job.img)'
    BY <1>2, <1>4, DieSync DEF InSync
  <2>2. (Stirred' <=> Stirred) /\ (Dirty' <=> Dirty) /\ Touched' = Touched
    BY <1>2 DEF Stirred, Dirty, Touched
  <2>3. (Fits(disk) => Fits(disk)') /\ (Fits(job.img) => Fits(job.img)')
    BY <1>2, <2>1 DEF Fits
  <2> QED
    BY <1>2, <2>1, <2>2, <2>3 DEF MutationInvariant, Sync
<1>10. Accounted'
  BY <1>2, <1>4 DEF MutationInvariant, Accounted
<1>11. Acks'
  BY <1>2, <1>3 DEF MutationInvariant, Acks, Acked, Settled, Untouched
<1>12. Targets'
  BY <1>2 DEF MutationInvariant, Targets
<1>13. Rollback'
  BY <1>2 DEF MutationInvariant, Rollback, Restored
<1> QED
  BY <1>5, <1>6, <1>7, <1>8, <1>9, <1>10, <1>11, <1>12, <1>13 DEF MutationInvariant

-----------------------------------------------------------------------------
(* The steps of a transaction.                                             *)

(* While a transaction is under way the daemon is up and its plan is one   *)
(* of a request.                                                           *)
LEMMA PlanFacts ==
  ASSUME MutationInvariant, job.stage \in {"apply", "undo"}
  PROVE  /\ phase = "up" /\ job.kind \in Kinds \ {"none"} /\ job.undo \in Undos
         /\ job.via \notin {"none", "background"}
         /\ job.undo \in {"snapshot", "enabled"} => job.kind # "create"
         /\ job.undo = "delete" <=> job.kind = "create"
         /\ job.undo \notin {"snapshot", "delete"} => job.kind \notin {"create", "delete"}
         /\ job.undo = "enabled" <=> job.kind \in {"enable", "disable"}
         /\ job.undo = "tag" <=> job.kind = "tag"
         /\ job.undo \in {"stop", "start", "activity", "inactive"} =>
              job.kind \in {"start", "stop", "restart", "spawn"}
         /\ job.undo = "start" => job.kind = "stop"
         /\ job.kind = "stop" => job.undo \in {"snapshot", "start", "activity"}
<1>1. phase = "up" /\ job.via \notin {"none", "background"}
  BY IdleFacts DEF MutationInvariant, Course, Types
<1>2. job.kind \in Kinds \ {"none"} /\ job.undo \in Undos
  BY <1>1 DEF MutationInvariant, Shape, Types, Jobs
<1>3. <<job.kind, job.undo>> \in Plans
  BY DEF MutationInvariant, Shape
<1> QED
  BY <1>1, <1>2, <1>3 DEF Plans

(* A manager operation of the transaction keeps the invariant.             *)
LEMMA ApplyStep ==
  ASSUME MutationInvariant, NEW e \in Entries, Apply(e)
  PROVE  MutationInvariant'
<1>1. /\ Types /\ Sanity /\ Shape /\ Course /\ Sync /\ Accounted /\ Acks /\ Targets
      /\ Rollback
  BY DEF MutationInvariant
<1>2. job.stage = "apply" /\ e \in job.todo
  BY DEF Apply
<1>3. phase = "up" /\ job.kind \in Kinds \ {"none"} /\ job.via \notin {"none", "background"}
  BY <1>2, PlanFacts
<1>4. /\ job \in Jobs /\ e \in job.targets \ job.done /\ job.targets \subseteq Entries
      /\ job.done \subseteq job.targets /\ job.todo \subseteq job.targets \ job.done
      /\ job.kind # "save"
  BY <1>1, <1>2 DEF Types, Course, Shape, Jobs
<1>5. job.kind = "create" => mem[e] = Gone
  BY <1>1, <1>2, <1>4, GoneFacts DEF Targets
<1>6. job.kind \notin {"create", "delete"} => mem[e].there
  BY <1>1, <1>4 DEF Targets
<1>7. PICK w \in Operate(job.kind, World(e)) :
        /\ Become(e, w)
        /\ job' = IF w.ok THEN [job EXCEPT !.todo = @ \ {e}, !.done = @ \cup {e}]
                  ELSE IF ProjectEdit
                  THEN [job EXCEPT !.stage = "undo", !.todo = job.done]
                  ELSE [job EXCEPT !.todo = @ \ {e}]
  BY DEF Apply
<1>8. /\ label' = label /\ disk' = disk /\ phase' = phase /\ saver' = saver
      /\ flag' = flag /\ told' = told /\ ack' = ack /\ lost' = lost
  BY DEF Apply, hist
<1>9. /\ World(e) \in Worlds /\ World(e).id = e /\ World(e).m = mem[e]
      /\ World(e).ok /\ Sound(World(e), lost[e])
  BY <1>1, <1>3, WorldFacts DEF Accounted
<1>10. /\ Outcome(World(e), w, lost[e])
       /\ job.kind \notin {"create", "delete"} => w.m.there
       /\ job.kind # "pull" /\ ~w.ok => Unsaid(World(e), w)
       /\ job.kind = "create" /\ ~w.ok => w.note
       /\ job.kind = "tag" => w.ok /\ w.m.status = mem[e].status /\ (w.m.on <=> mem[e].on)
       /\ job.kind # "create" /\ ~w.ok => SameConfig(World(e), w)
       /\ job.kind \in {"stop", "start", "spawn", "restart", "pull"} =>
            SameConfig(World(e), w)
       /\ job.kind \in {"enable", "disable"} => w.m.tag = mem[e].tag
       /\ job.kind = "stop" /\ w.ok => Stoppable(mem[e])
  <2> DEFINE k == job.kind
  <2>1. /\ k \in Kinds \ {"none", "save"} /\ (k = "create" => World(e).m = Gone)
        /\ k \notin {"create", "delete"} => World(e).m.there
        /\ w \in Operate(k, World(e))
    BY <1>3, <1>4, <1>5, <1>6, <1>7, <1>9
  <2> HIDE DEF k
  <2>2. /\ Outcome(World(e), w, lost[e])
        /\ k \notin {"create", "delete"} => w.m.there
        /\ k # "pull" /\ ~w.ok => Unsaid(World(e), w)
        /\ k = "create" /\ ~w.ok => w.note
        /\ k = "tag" => w.ok /\ w.m.status = World(e).m.status /\ (w.m.on <=> World(e).m.on)
        /\ k # "create" /\ ~w.ok => SameConfig(World(e), w)
        /\ k \in {"stop", "start", "spawn", "restart", "pull"} => SameConfig(World(e), w)
        /\ k \in {"enable", "disable"} => w.m.tag = World(e).m.tag
        /\ k = "stop" /\ w.ok => Stoppable(World(e).m)
    BY <1>9, <2>1, OperateFacts
  <2> QED
    BY <1>9, <2>2 DEF k
<1>11. w \in Worlds /\ w.id = e
  BY <1>9, <1>10, OutcomeSound
<1>12. /\ mem' \in [Entries -> Records] /\ live' \in [Entries -> Trees]
       /\ made' \in [Entries -> Nat] /\ pending' \in BOOLEAN
       /\ pending => pending'
       /\ w.note => pending'
       /\ mem'[e] = w.m /\ \A f \in Entries \ {e} : mem'[f] = mem[f]
       /\ \A f \in Entries : Sane(mem'[f])
       /\ \A f \in Entries : live'[f] \ lost[f] \subseteq {mem'[f].tree}
       /\ \A f \in Entries : f # e \/ HeldIn(w) = HeldIn(World(e)) =>
              \A s : HeldOf(f, mem[f], live[f]) = KeptOf(s, live[f]) =>
                     HeldOf(f, mem'[f], live'[f]) = KeptOf(s, live'[f])
  BY <1>1, <1>3, <1>7, <1>10, <1>11, EntryStep
<1>13. /\ job' \in Jobs /\ job'.via = job.via /\ job'.kind = job.kind
       /\ job'.undo = job.undo /\ job'.targets = job.targets /\ job'.before = job.before
       /\ job'.label = job.label /\ job'.img = job.img /\ (job'.err <=> job.err)
       /\ job'.answer = job.answer
       /\ \/ /\ w.ok /\ job'.stage = "apply" /\ job'.todo = job.todo \ {e}
             /\ job'.done = job.done \cup {e}
          \/ /\ ~w.ok /\ job'.stage = "undo" /\ job'.todo = job.done
             /\ job'.done = job.done /\ job.kind \in {"enable", "disable"}
          \/ /\ ~w.ok /\ job'.stage = "apply" /\ job'.todo = job.todo \ {e}
             /\ job'.done = job.done
  <2>1. CASE w.ok /\ job' = [job EXCEPT !.todo = @ \ {e}, !.done = @ \cup {e}]
    BY <1>2, <1>4, <2>1 DEF Jobs
  <2>2. CASE ~w.ok /\ ProjectEdit /\ job' = [job EXCEPT !.stage = "undo", !.todo = job.done]
    BY <1>2, <1>4, <2>2 DEF Jobs, Stages, ProjectEdit
  <2>3. CASE ~w.ok /\ job' = [job EXCEPT !.todo = @ \ {e}]
    BY <1>2, <1>4, <2>3 DEF Jobs
  <2> QED
    BY <1>7, <2>1, <2>2, <2>3
<1>14. ~w.ok \/ job.kind = "stop" =>
         (job.kind # "create" => Config(mem'[e]) = Config(mem[e]))
  BY <1>9, <1>10, <1>12 DEF SameConfig
<1>15. Types'
  BY <1>1, <1>8, <1>12, <1>13 DEF Types
<1>16. Sanity'
  BY <1>1, <1>8, <1>12, <1>13 DEF Sanity
<1>17. job.answer = "none"
  BY <1>1, <1>2 DEF Course
<1>18. Shape'
  BY <1>1, <1>4, <1>13, <1>17 DEF Shape
<1>19. Course'
  <2>1. job.kind \in {"enable", "disable"} => job.undo # "none"
    BY <1>2, PlanFacts
  <2> QED
    BY <1>1, <1>2, <1>3, <1>4, <1>8, <1>13, <1>17, <2>1 DEF Course
<1>20. Sync'
  <2>1. Dirty => Dirty'
    BY <1>8, <1>12 DEF Dirty
  <2>2. w.note => Dirty'
    BY <1>12 DEF Dirty
  <2>3. \A f \in Entries : /\ f # e \/ HeldIn(w) = HeldIn(World(e))
                           /\ InSync(f, disk)
                           => InSync(f, disk)'
    BY <1>8, <1>12 DEF InSync
  <2>4. CASE job'.stage = "apply"
    <3>1. Dirty \/ (disk.label = job.label /\ \A f \in Entries \ Touched : InSync(f, disk))
      BY <1>1, <1>2 DEF Sync
    <3>2. Dirty' \/ \A f \in Entries \ Touched' : f \notin Touched /\
                      (f # e \/ HeldIn(w) = HeldIn(World(e)))
      BY <1>4, <1>10, <1>13, <2>2, <2>4 DEF Touched, Unsaid
    <3>3. Dirty' \/ ((disk.label = job.label)' /\
                     \A f \in Entries \ Touched' : InSync(f, disk)')
      BY <1>8, <1>13, <2>1, <2>3, <3>1, <3>2
    <3>4. label # job.label =>
            \/ job.kind \in {"enable", "disable"}
            \/ job.kind \in {"create", "tag"} /\ (job'.done # {} \/ Dirty')
      BY <1>1, <1>2, <1>10, <1>13, <2>2, <2>4 DEF Sync
    <3> QED
      BY <1>8, <1>13, <2>4, <3>3, <3>4 DEF Sync
  <2>5. CASE job'.stage = "undo"
    BY <2>5 DEF Sync
  <2> QED
    BY <1>13, <2>4, <2>5
<1>21. Accounted'
  BY <1>3, <1>8, <1>12 DEF Accounted
<1>22. Acks'
  <2>1. \A f \in Entries : Acked(f)' <=> Acked(f)
    BY <1>8 DEF Acked
  <2>2. \A f \in Entries \ job.targets : mem'[f] = mem[f] /\ (Settled(f)' <=> Settled(f))
    BY <1>3, <1>4, <1>8, <1>12 DEF Settled
  <2>3. ASSUME NEW f \in job.targets
        PROVE  /\ Untouched(f)' => Untouched(f)
               /\ Untouched(f)' => Config(mem'[f]) = Config(mem[f])
    <3>1. CASE f = e
      BY <1>4, <1>13, <1>14, <3>1 DEF Untouched
    <3>2. CASE f # e
      BY <1>4, <1>12, <1>13, <3>2 DEF Untouched
    <3> QED
      BY <3>1, <3>2
  <2>4. \A f \in job.targets : f \in Entries
    BY <1>4
  <2> QED
    BY <1>1, <1>8, <1>13, <1>17, <2>1, <2>2, <2>3, <2>4 DEF Acks
<1>23. Targets'
  <2>1. ASSUME NEW f \in job.targets
        PROVE  /\ job.kind \notin {"create", "delete"} => mem'[f].there
               /\ job.undo \in {"stop", "start", "activity", "inactive"} =>
                    Config(mem'[f]) = Config(job.before[f])
               /\ job.undo = "enabled" => mem'[f].tag = job.before[f].tag
               /\ job.undo = "tag" => /\ mem'[f].on <=> job.before[f].on
                                      /\ Dormant(job.before[f]) => ~Shown(mem'[f])
               /\ job.undo = "start" /\ f \in job'.done => ~Dormant(job.before[f])
               /\ f \in job.todo \ {e} /\ Dormant(job.before[f]) =>
                    mem'[f] = job.before[f]
    <3>1. CASE f # e
      BY <1>1, <1>2, <1>4, <1>12, <1>13, <3>1 DEF Targets
    <3>2. CASE f = e
      <4>1. job.kind \notin {"create", "delete"} => mem'[e].there
        BY <1>10, <1>12
      <4>2. job.undo \in {"stop", "start", "activity", "inactive"} =>
              Config(mem'[e]) = Config(job.before[e])
        <5>1. job.undo \in {"stop", "start", "activity", "inactive"} =>
                Config(mem'[e]) = Config(mem[e])
          BY <1>2, <1>9, <1>10, <1>12, PlanFacts DEF SameConfig
        <5> QED
          BY <1>1, <1>4, <5>1 DEF Targets
      <4>3. job.undo = "enabled" => mem'[e].tag = job.before[e].tag
        BY <1>1, <1>2, <1>4, <1>10, <1>12, PlanFacts DEF Targets
      <4>4. job.undo = "tag" => /\ mem'[e].on <=> job.before[e].on
                                /\ Dormant(job.before[e]) => ~Shown(mem'[e])
        BY <1>1, <1>2, <1>4, <1>10, <1>12, PlanFacts DEF Targets, Shown
      <4>5. job.undo = "start" /\ e \in job'.done => ~Dormant(job.before[e])
        <5>1. job.undo = "start" /\ e \in job'.done => Stoppable(mem[e])
          BY <1>2, <1>4, <1>10, <1>13, PlanFacts
        <5>2. Dormant(job.before[e]) => mem[e] = job.before[e]
          BY <1>1, <1>2, <1>4 DEF Targets
        <5>3. Dormant(mem[e]) => ~Stoppable(mem[e])
          BY DEF Dormant, Stoppable, Active
        <5> QED
          BY <5>1, <5>2, <5>3
      <4> QED
        BY <3>2, <4>1, <4>2, <4>3, <4>4, <4>5
    <3> QED
      BY <3>1, <3>2
  <2>2. ASSUME NEW f \in job.targets
        PROVE  /\ job.kind = "create" => job.before[f] = Gone
               /\ job.kind # "create" => job.before[f].there
    BY <1>1 DEF Targets
  <2>3. job'.stage = "apply" => job'.todo = job.todo \ {e}
    BY <1>13
  <2> QED
    BY <1>13, <2>1, <2>2, <2>3 DEF Targets
<1>24. Rollback'
  <2>1. job'.stage = "undo" => job'.done \ job'.todo = {}
    BY <1>13
  <2>2. job'.stage \in {"apply", "undo"}
    BY <1>13
  <2> QED
    BY <2>1, <2>2 DEF Rollback
<1> QED
  BY <1>15, <1>16, <1>18, <1>19, <1>20, <1>21, <1>22, <1>23, <1>24 DEF MutationInvariant

(* So does the compensation of one of them.                                *)
LEMMA UndoStep ==
  ASSUME MutationInvariant, NEW e \in Entries, Undo(e)
  PROVE  MutationInvariant'
<1>1. /\ Types /\ Sanity /\ Shape /\ Course /\ Sync /\ Accounted /\ Acks /\ Targets
      /\ Rollback
  BY DEF MutationInvariant
<1>2. job.stage = "undo" /\ e \in job.todo
  BY DEF Undo
<1>3. phase = "up" /\ job.kind \in Kinds \ {"none"} /\ job.via \notin {"none", "background"}
  BY <1>2, PlanFacts
<1>4. /\ job \in Jobs /\ e \in job.done /\ job.targets \subseteq Entries
      /\ job.done \subseteq job.targets /\ job.todo \subseteq job.done
      /\ job.undo # "none" /\ job.answer = "none" /\ job.undo \in Undos
  BY <1>1, <1>2 DEF Types, Course, Shape, Jobs
<1> DEFINE b == job.before[e]
<1>5. e \in job.targets /\ b \in Records /\ Sane(b)
  BY <1>1, <1>4 DEF Sanity, Jobs
<1>6. PICK w \in Compensate(World(e), b) :
        /\ Become(e, w)
        /\ job' = [job EXCEPT !.todo = @ \ {e}, !.err = @ \/ ~w.ok]
  BY DEF Undo
<1>7. /\ label' = label /\ disk' = disk /\ phase' = phase /\ saver' = saver
      /\ flag' = flag /\ told' = told /\ ack' = ack /\ lost' = lost
  BY DEF Undo, hist
<1>8. /\ World(e) \in Worlds /\ World(e).id = e /\ World(e).m = mem[e]
      /\ World(e).ok /\ Sound(World(e), lost[e])
  BY <1>1, <1>3, WorldFacts DEF Accounted
<1>9. /\ job.kind = "create" => b = Gone
      /\ job.kind # "create" => b.there
      /\ job.kind \notin {"create", "delete"} => mem[e].there
      /\ job.undo \in {"stop", "start", "activity", "inactive"} =>
           Config(mem[e]) = Config(b)
      /\ job.undo = "enabled" => mem[e].tag = b.tag
      /\ job.undo = "tag" => (mem[e].on <=> b.on) /\ (Dormant(b) => ~Shown(mem[e]))
      /\ job.undo = "start" => ~Dormant(b)
  BY <1>1, <1>4, <1>5 DEF Targets
<1>10. /\ job.undo \in {"snapshot", "enabled"} => b.there
       /\ job.undo = "delete" => b = Gone
       /\ job.undo \notin {"snapshot", "delete"} => mem[e].there
       /\ job.undo = "tag" => b.there
       /\ job.undo = "delete" <=> job.kind = "create"
  BY <1>2, <1>9, PlanFacts
<1> HIDE DEF b
<1>11. /\ Outcome(World(e), w, lost[e])
       /\ job.undo # "delete" => w.m.there
       /\ Config(mem[e]) = Config(b) /\ job.undo # "delete" => Config(w.m) = Config(b)
       /\ job.undo = "enabled" => w.m.tag = b.tag
       /\ job.undo = "tag" => (w.m.on <=> b.on) /\ (Dormant(b) => ~Shown(w.m))
       /\ w.ok => Config(w.m) = Config(b) /\ (Dormant(b) => ~Shown(w.m))
  BY <1>4, <1>5, <1>6, <1>8, <1>9, <1>10, CompensateFacts
<1>12. w \in Worlds /\ w.id = e /\ w.ok \in BOOLEAN
  BY <1>8, <1>11, OutcomeSound DEF Worlds
<1>13. /\ mem' \in [Entries -> Records] /\ live' \in [Entries -> Trees]
       /\ made' \in [Entries -> Nat] /\ pending' \in BOOLEAN
       /\ mem'[e] = w.m /\ \A f \in Entries \ {e} : mem'[f] = mem[f]
       /\ \A f \in Entries : Sane(mem'[f])
       /\ \A f \in Entries : live'[f] \ lost[f] \subseteq {mem'[f].tree}
  BY <1>1, <1>3, <1>6, <1>11, <1>12, EntryStep
<1>14. /\ job' \in Jobs /\ job'.via = job.via /\ job'.kind = job.kind
       /\ job'.undo = job.undo /\ job'.targets = job.targets /\ job'.before = job.before
       /\ job'.label = job.label /\ job'.img = job.img /\ (job'.err <=> job.err \/ ~w.ok)
       /\ job'.answer = job.answer /\ job'.stage = "undo" /\ job'.todo = job.todo \ {e}
       /\ job'.done = job.done
  BY <1>2, <1>4, <1>6, <1>12 DEF Jobs
<1>15. Types'
  BY <1>1, <1>7, <1>13, <1>14 DEF Types
<1>16. Sanity'
  BY <1>1, <1>7, <1>13, <1>14 DEF Sanity
<1>17. Shape'
  BY <1>1, <1>4, <1>14 DEF Shape
<1>18. Course'
  BY <1>1, <1>2, <1>3, <1>4, <1>7, <1>14 DEF Course
<1>19. Sync'
  BY <1>14 DEF Sync
<1>20. Accounted'
  BY <1>3, <1>7, <1>13 DEF Accounted
<1>21. Acks'
  <2>1. \A f \in Entries : Acked(f)' <=> Acked(f)
    BY <1>7 DEF Acked
  <2>2. \A f \in Entries \ job.targets : mem'[f] = mem[f] /\ (Settled(f)' <=> Settled(f))
    BY <1>3, <1>5, <1>7, <1>13 DEF Settled
  <2>3. ASSUME NEW f \in job.targets
        PROVE  /\ Untouched(f)' <=> Untouched(f)
               /\ Untouched(f) => Config(mem'[f]) = Config(job.before[f])
    <3>1. Untouched(f)' <=> Untouched(f)
      BY <1>14 DEF Untouched
    <3>2. Untouched(f) => job.kind # "create" /\ Config(mem[f]) = Config(job.before[f])
      BY <1>1 DEF Acks, Untouched
    <3>3. CASE f = e
      BY <1>10, <1>11, <1>13, <3>1, <3>2, <3>3 DEF b
    <3>4. CASE f # e
      BY <1>4, <1>13, <3>1, <3>2, <3>4
    <3> QED
      BY <3>3, <3>4
  <2>4. \A f \in job.targets : f \in Entries
    BY <1>4
  <2> QED
    BY <1>1, <1>4, <1>7, <1>14, <2>1, <2>2, <2>3, <2>4 DEF Acks
<1>22. Targets'
  <2>1. ASSUME NEW f \in job.targets
        PROVE  /\ job.kind \notin {"create", "delete"} => mem'[f].there
               /\ job.undo \in {"stop", "start", "activity", "inactive"} =>
                    Config(mem'[f]) = Config(job.before[f])
               /\ job.undo = "enabled" => mem'[f].tag = job.before[f].tag
               /\ job.undo = "tag" => /\ mem'[f].on <=> job.before[f].on
                                      /\ Dormant(job.before[f]) => ~Shown(mem'[f])
    <3>1. CASE f # e
      BY <1>1, <1>4, <1>13, <3>1 DEF Targets
    <3>2. CASE f = e
      BY <1>9, <1>10, <1>11, <1>13, <3>2 DEF b
    <3> QED
      BY <3>1, <3>2
  <2> QED
    BY <1>1, <1>14, <2>1 DEF Targets
<1>23. Rollback'
  <2>1. ASSUME ~job'.err, NEW f \in job'.done \ job'.todo
        PROVE  Restored(f)'
    <3>1. CASE f = e
      BY <1>11, <1>13, <1>14, <2>1, <3>1 DEF Restored, b
    <3>2. CASE f # e
      <4>1. Restored(f) /\ f \in Entries
        BY <1>1, <1>2, <1>4, <1>14, <2>1, <3>2 DEF Rollback
      <4> QED
        BY <1>13, <1>14, <3>2, <4>1 DEF Restored
    <3> QED
      BY <3>1, <3>2
  <2> QED
    BY <1>14, <2>1 DEF Rollback
<1> QED
  BY <1>15, <1>16, <1>17, <1>18, <1>19, <1>20, <1>21, <1>22, <1>23 DEF MutationInvariant

(* A transaction under way: the daemon serves.                             *)
LEMMA UpFacts ==
  ASSUME MutationInvariant, job.stage \notin {"idle", "restore"}
  PROVE  /\ phase = "up" /\ job.via # "none" /\ job \in Jobs /\ job.targets \subseteq Entries
         /\ job.via = "background" => job.stage \in {"save", "write", "answer"}
         /\ \A e \in Entries : Settled(e)
<1>1. Types /\ Course
  BY DEF MutationInvariant
<1>2. phase = "up" /\ job.via # "none"
  BY <1>1, IdleFacts DEF Course, Types
<1>3. job \in Jobs /\ job.targets \subseteq Entries
  BY <1>1 DEF Types, Jobs
<1>4. job.via = "background" => job.stage \in {"save", "write", "answer"}
  BY <1>1 DEF Course
<1>5. \A e \in Entries : Settled(e)
  BY <1>2 DEF Settled
<1> QED
  BY <1>2, <1>3, <1>4, <1>5

(* The end of a request that changed nothing.                              *)
LEMMA UnchangedStep ==
  ASSUME MutationInvariant, Unchanged
  PROVE  MutationInvariant'
<1>1. /\ Types /\ Sanity /\ Shape /\ Course /\ Sync /\ Accounted /\ Acks /\ Targets
      /\ Rollback
  BY DEF MutationInvariant
<1>2. /\ job.stage = "apply" /\ job.todo = {} /\ job.done = {} /\ job.kind # "save"
      /\ job.kind \in {"enable", "disable"} => job.label = label
  BY DEF Unchanged, ToSave, ProjectEdit
<1>3. /\ phase = "up" /\ job.via # "none" /\ job \in Jobs /\ job.targets \subseteq Entries
      /\ job.via # "background"
  BY <1>2, UpFacts
<1>4. /\ mem' = mem /\ live' = live /\ made' = made /\ label' = label /\ disk' = disk
      /\ phase' = phase /\ pending' = pending /\ saver' = saver /\ flag' = flag
      /\ told' = told /\ ack' = ack /\ lost' = lost
  BY DEF Unchanged, hist
<1>5. /\ job' \in Jobs /\ job'.via = job.via /\ job'.kind = job.kind
      /\ job'.undo = job.undo /\ job'.targets = job.targets /\ job'.before = job.before
      /\ job'.label = job.label /\ job'.img = job.img /\ (job'.err <=> job.err)
      /\ job'.todo = {} /\ job'.done = {} /\ job'.stage = "answer"
      /\ job'.answer = "failed"
  BY <1>2, <1>3 DEF Unchanged, Jobs, Stages, Answers
<1>6. Types'
  BY <1>1, <1>4, <1>5 DEF Types
<1>7. Sanity'
  BY <1>1, <1>4, <1>5 DEF Sanity
<1>8. Shape'
  BY <1>1, <1>5 DEF Shape
<1>9. Course'
  BY <1>1, <1>2, <1>3, <1>4, <1>5 DEF Course
<1>10. Sync'
  <2>1. Fits(disk)' <=> Fits(disk)
    BY <1>4 DEF Fits, InSync
  <2>2. Dirty' <=> Dirty
    BY <1>4 DEF Dirty
  <2>3. job.kind # "pull" => Dirty \/ Fits(disk)
    <3>1. ASSUME job.kind # "pull"
          PROVE  Dirty \/ (disk.label = job.label /\ \A e \in Entries : InSync(e, disk))
      BY <1>1, <1>2, <3>1 DEF Sync, Touched
    <3>2. Dirty \/ label = job.label
      BY <1>1, <1>2 DEF Sync
    <3> QED
      BY <3>1, <3>2 DEF Fits
  <2> QED
    BY <1>4, <1>5, <2>1, <2>2, <2>3 DEF Sync
<1>11. Accounted'
  BY <1>1, <1>3, <1>4 DEF Accounted
<1>12. Acks'
  <2>1. \A e \in Entries : /\ Acked(e)' <=> Acked(e)
                           /\ Settled(e)' <=> Settled(e)
                           /\ Untouched(e)' <=> Untouched(e)
    BY <1>2, <1>3, <1>4, <1>5 DEF Acked, Settled, Untouched
  <2> QED
    BY <1>1, <1>3, <1>4, <1>5, <2>1 DEF Acks
<1>13. Targets'
  BY <1>1, <1>2, <1>4, <1>5 DEF Targets
<1>14. Rollback'
  BY <1>5 DEF Rollback
<1> QED
  BY <1>6, <1>7, <1>8, <1>9, <1>10, <1>11, <1>12, <1>13, <1>14 DEF MutationInvariant

(* The image for a save is taken.                                          *)
LEMMA SnapshotStep ==
  ASSUME MutationInvariant, Snapshot
  PROVE  MutationInvariant'
<1>1. /\ Types /\ Sanity /\ Shape /\ Course /\ Sync /\ Accounted /\ Acks /\ Targets
      /\ Rollback
  BY DEF MutationInvariant
<1>2. job.stage \in {"apply", "save", "again"} /\ (job.stage = "apply" => job.todo = {})
  BY DEF Snapshot
<1>3. /\ phase = "up" /\ job.via # "none" /\ job \in Jobs /\ job.targets \subseteq Entries
      /\ job.via = "background" <=> job.stage = "save"
      /\ job.answer = "none"
  BY <1>1, <1>2, UpFacts DEF Course
<1>4. /\ mem' = mem /\ live' = live /\ made' = made /\ label' = label /\ disk' = disk
      /\ phase' = phase /\ pending' = pending /\ saver' = saver /\ flag' = flag
      /\ told' = told /\ ack' = ack /\ lost' = lost
  BY DEF Snapshot, hist
<1>5. /\ Image \in Images /\ Image.label = label /\ Fits(Image)
      /\ \A e \in Entries : Blank(Image.apps[e]) /\ Config(Image.apps[e]) = Config(mem[e])
  BY <1>1, ImageFacts
<1>6. /\ job' \in Jobs /\ job'.via = job.via /\ job'.kind = job.kind
      /\ job'.undo = job.undo /\ job'.targets = job.targets /\ job'.before = job.before
      /\ job'.label = job.label /\ job'.img = Image /\ (job'.err <=> job.err)
      /\ job'.todo = job.todo /\ job'.done = job.done /\ job'.answer = job.answer
      /\ job'.stage = IF job.stage = "again" THEN "rewrite" ELSE "write"
  BY <1>2, <1>3, <1>5 DEF Snapshot, Jobs, Stages
<1>7. Types'
  BY <1>1, <1>4, <1>6 DEF Types
<1>8. Sanity'
  BY <1>1, <1>4, <1>5, <1>6 DEF Sanity
<1>9. Shape'
  BY <1>1, <1>6 DEF Shape
<1>10. Course'
  BY <1>1, <1>2, <1>3, <1>4, <1>6 DEF Course
<1>11. Sync'
  <2>1. Fits(job.img)'
    BY <1>4, <1>5, <1>6 DEF Fits, InSync
  <2>2. (Fits(disk)' <=> Fits(disk)) /\ (Dirty' <=> Dirty)
    BY <1>4 DEF Fits, InSync, Dirty
  <2>3. job.kind = "save" => Dirty \/ Fits(disk)
    <3>1. CASE job.kind = "save"
      <4>1. job.stage = "apply" /\ job.done = {}
        BY <1>1, <1>2, <1>3, <3>1 DEF Shape, Course
      <4>2. Dirty \/ (disk.label = job.label /\ \A e \in Entries : InSync(e, disk))
        BY <1>1, <3>1, <4>1 DEF Sync, Touched
      <4>3. label = job.label
        BY <1>1, <3>1, <4>1 DEF Sync
      <4> QED
        BY <4>2, <4>3 DEF Fits
    <3> QED
      BY <3>1
  <2> QED
    BY <1>2, <1>6, <2>1, <2>2, <2>3 DEF Sync
<1>12. Accounted'
  BY <1>1, <1>3, <1>4 DEF Accounted
<1>13. Acks'
  <2>1. \A e \in Entries : /\ Acked(e)' <=> Acked(e)
                           /\ Settled(e)' <=> Settled(e)
                           /\ Untouched(e)' <=> Untouched(e)
    BY <1>2, <1>3, <1>4, <1>6 DEF Acked, Settled, Untouched
  <2> QED
    BY <1>1, <1>3, <1>4, <1>5, <1>6, <2>1 DEF Acks
<1>14. Targets'
  BY <1>1, <1>4, <1>6 DEF Targets
<1>15. Rollback'
  <2>1. job'.stage = "rewrite" => job'.via = "git"
    BY <1>1, <1>2, <1>6 DEF Course
  <2> QED
    BY <1>2, <1>6, <2>1 DEF Rollback
<1> QED
  BY <1>7, <1>8, <1>9, <1>10, <1>11, <1>12, <1>13, <1>14, <1>15 DEF MutationInvariant

(* The image is on disk.                                                   *)
LEMMA WrittenStep ==
  ASSUME MutationInvariant, Written
  PROVE  MutationInvariant'
<1>1. /\ Types /\ Sanity /\ Shape /\ Course /\ Sync /\ Accounted /\ Acks /\ Targets
      /\ Rollback
  BY DEF MutationInvariant
<1>2. job.stage \in {"write", "rewrite"}
  BY DEF Written
<1>3. /\ phase = "up" /\ job.via # "none" /\ job \in Jobs /\ job.targets \subseteq Entries
      /\ job.via = "background" => job.stage = "write"
      /\ \A e \in Entries : Settled(e)
  BY <1>2, UpFacts
<1>4. /\ mem' = mem /\ live' = live /\ made' = made /\ label' = label /\ disk' = job.img
      /\ phase' = phase /\ pending' = pending /\ saver' = saver /\ flag' = flag
      /\ ~told' /\ told' \in BOOLEAN /\ ack' = ack /\ lost' = lost
  BY DEF Written, hist
<1> DEFINE a == IF job.stage = "write" \/ job.via = "git" THEN "ok"
                ELSE IF job.err THEN "incomplete" ELSE "refused"
<1>5. a \in {"ok", "incomplete", "refused"}
  OBVIOUS
<1>6. /\ job' \in Jobs /\ job'.via = job.via /\ job'.kind = job.kind
      /\ job'.undo = job.undo /\ job'.targets = job.targets /\ job'.before = job.before
      /\ job'.label = job.label /\ job'.img = Idle.img /\ (job'.err <=> job.err)
      /\ job'.todo = job.todo /\ job'.done = job.done /\ job'.answer = a
      /\ job'.stage = "answer"
  <2>1. job' = [job EXCEPT !.stage = "answer", !.img = Idle.img, !.answer = a]
    BY DEF Written
  <2> HIDE DEF a
  <2> QED
    BY <1>3, <1>5, <2>1, IdleFacts DEF Jobs, Stages, Answers
<1>7. a = "refused" => job.stage = "rewrite" /\ job.via # "git" /\ ~job.err
  BY <1>2
<1>8. a = "incomplete" => job.stage = "rewrite"
  BY <1>2
<1> HIDE DEF a
<1>9. Types'
  BY <1>1, <1>3, <1>4, <1>6 DEF Types, Jobs
<1>10. Sanity'
  BY <1>1, <1>4, <1>6, IdleFacts DEF Sanity
<1>11. Shape'
  <2>1. job.stage = "rewrite" => job.via # "port"
    BY <1>1 DEF Course
  <2> QED
    BY <1>1, <1>2, <1>3, <1>5, <1>6, <1>7, <1>8, <2>1 DEF Shape
<1>12. Course'
  BY <1>1, <1>2, <1>3, <1>4, <1>5, <1>6 DEF Course
<1>13. Sync'
  <2>1. Fits(disk)' <=> Fits(job.img)
    BY <1>4 DEF Fits, InSync
  <2>2. Stirred' <=> Stirred
    BY <1>4, <1>6 DEF Stirred
  <2> QED
    BY <1>1, <1>2, <1>5, <1>6, <2>1, <2>2 DEF Sync
<1>14. Accounted'
  BY <1>1, <1>3, <1>4 DEF Accounted
<1>15. \A e \in Entries : Config(disk'.apps[e]) = Config(mem[e])
  BY <1>1, <1>2, <1>4 DEF Acks
<1>16. Acks'
  <2>1. \A e \in Entries : /\ Acked(e)' <=> Acked(e)
                           /\ Untouched(e)' <=> Untouched(e)
    BY <1>4, <1>6 DEF Acked, Untouched
  <2>2. \A e \in Entries \ job.targets :
          Acked(e) => Config(disk'.apps[e]) = ack[e] /\ Config(mem[e]) = ack[e]
    BY <1>1, <1>3, <1>15 DEF Acks
  <2>3. \A e \in job.targets :
          /\ Acked(e) => Config(job.before[e]) = ack[e]
          /\ Untouched(e) => /\ Config(mem[e]) = Config(job.before[e])
                             /\ Acked(e) => Config(disk'.apps[e]) = ack[e]
    BY <1>1, <1>3, <1>15 DEF Acks
  <2> QED
    BY <1>3, <1>4, <1>6, <1>15, <2>1, <2>2, <2>3 DEF Acks
<1>17. Targets'
  BY <1>1, <1>4, <1>6 DEF Targets
<1>18. Rollback'
  <2>1. ASSUME a = "refused"
        PROVE  /\ label = job.label /\ job.img.label = label
               /\ \A e \in job.done : Restored(e)
    BY <1>1, <1>7, <2>1 DEF Rollback
  <2>2. \A e : Restored(e)' <=> Restored(e)
    BY <1>4, <1>6 DEF Restored
  <2> QED
    BY <1>4, <1>6, <2>1, <2>2 DEF Rollback
<1> QED
  BY <1>9, <1>10, <1>11, <1>12, <1>13, <1>14, <1>16, <1>17, <1>18 DEF MutationInvariant

(* The save fails, with the old image or the new one on disk.              *)
LEMMA WriteFailsStep ==
  ASSUME MutationInvariant, WriteFails
  PROVE  MutationInvariant'
<1>1. /\ Types /\ Sanity /\ Shape /\ Course /\ Sync /\ Accounted /\ Acks /\ Targets
      /\ Rollback
  BY DEF MutationInvariant
<1>2. job.stage \in {"write", "rewrite"}
  BY DEF WriteFails
<1>3. /\ phase = "up" /\ job.via # "none" /\ job \in Jobs /\ job.targets \subseteq Entries
      /\ job.via = "background" => job.stage = "write"
      /\ \A e \in Entries : Settled(e)
      /\ job.answer = "none"
  BY <1>1, <1>2, UpFacts DEF Course
<1>4. /\ mem' = mem /\ live' = live /\ made' = made /\ label' = label
      /\ phase' = phase /\ pending' = pending /\ saver' = saver /\ flag' = flag
      /\ told' = told /\ ack' = ack /\ lost' = lost
      /\ disk' = disk \/ disk' = job.img
  BY DEF WriteFails, hist
<1>5. /\ job' \in Jobs /\ job'.via = job.via /\ job'.kind = job.kind
      /\ job'.undo = job.undo /\ job'.targets = job.targets /\ job'.before = job.before
      /\ job'.label = job.label /\ job'.img = job.img /\ (job'.err <=> job.err)
      /\ job'.done = job.done
      /\ \/ /\ job.stage = "rewrite" \/ job.via = "background"
            /\ job'.stage = "answer" /\ job'.answer = "incomplete" /\ job'.todo = job.todo
         \/ /\ job.kind = "save" /\ job.stage = "write"
            /\ job'.stage = "answer" /\ job'.answer = "failed" /\ job'.todo = job.todo
         \/ /\ job.via = "git" /\ job'.stage = "again" /\ job'.answer = "none"
            /\ job'.todo = job.todo
         \/ /\ job.stage = "write" /\ job.via \notin {"background", "git"}
            /\ job.kind # "save"
            /\ job'.stage = "undo" /\ job'.answer = "none" /\ job'.todo = job.done
  <2>1. \/ /\ job.stage = "rewrite" \/ job.via = "background"
           /\ job' = [job EXCEPT !.stage = "answer", !.answer = "incomplete"]
        \/ /\ job.kind = "save" /\ job.stage = "write"
           /\ job' = [job EXCEPT !.stage = "answer", !.answer = "failed"]
        \/ job.via = "git" /\ job' = [job EXCEPT !.stage = "again"]
        \/ /\ job.stage = "write" /\ job.via \notin {"background", "git"}
           /\ job.kind # "save"
           /\ job' = [job EXCEPT !.stage = "undo", !.todo = job.done]
    BY <1>2 DEF WriteFails
  <2>2. job.done \in SUBSET Entries
    BY <1>3 DEF Jobs
  <2> QED
    BY <1>3, <2>1, <2>2 DEF Jobs, Stages, Answers
<1>6. Types'
  BY <1>1, <1>3, <1>4, <1>5 DEF Types, Jobs
<1>7. Sanity'
  BY <1>1, <1>4, <1>5 DEF Sanity
<1>8. Shape'
  <2>1. job.stage = "rewrite" => job.via # "port"
    BY <1>1 DEF Course
  <2>2. job.kind = "save" => job.done = {}
    BY <1>1 DEF Shape
  <2> QED
    BY <1>1, <1>3, <1>5, <2>1, <2>2 DEF Shape
<1>9. Course'
  <2>1. job.via \notin {"background", "git"} /\ job.kind # "save" => job.undo # "none"
    BY <1>1, <1>3 DEF Shape, Plans
  <2> QED
    BY <1>1, <1>2, <1>3, <1>4, <1>5, <2>1 DEF Course
<1>10. Sync'
  <2>1. /\ disk' = disk => (Fits(disk)' <=> Fits(disk))
        /\ disk' = job.img => (Fits(disk)' <=> Fits(job.img))
    BY <1>4 DEF Fits, InSync
  <2>2. (Dirty' <=> Dirty) /\ (Stirred => Dirty)
    BY <1>4 DEF Dirty, Stirred
  <2> QED
    BY <1>1, <1>2, <1>3, <1>4, <1>5, <2>1, <2>2 DEF Sync
<1>11. Accounted'
  BY <1>1, <1>3, <1>4 DEF Accounted
<1>12. Acks'
  <2>1. \A e \in Entries : /\ Acked(e)' <=> Acked(e)
                           /\ Untouched(e)' <=> Untouched(e)
    BY <1>4, <1>5 DEF Acked, Untouched
  <2>2. disk' = disk \/ \A e \in Entries : Config(disk'.apps[e]) = Config(mem[e])
    BY <1>1, <1>2, <1>4 DEF Acks
  <2>3. \A e \in Entries \ job.targets :
          Acked(e) => Config(disk'.apps[e]) = ack[e] /\ Config(mem[e]) = ack[e]
    BY <1>1, <1>3, <2>2 DEF Acks
  <2>4. \A e \in job.targets :
          /\ Acked(e) => Config(job.before[e]) = ack[e]
          /\ Untouched(e) => /\ Config(mem[e]) = Config(job.before[e])
                             /\ Acked(e) => Config(disk'.apps[e]) = ack[e]
    BY <1>1, <1>3, <2>2 DEF Acks
  <2> QED
    BY <1>3, <1>4, <1>5, <2>1, <2>3, <2>4 DEF Acks
<1>13. Targets'
  BY <1>1, <1>4, <1>5 DEF Targets
<1>14. Rollback'
  BY <1>5 DEF Rollback
<1> QED
  BY <1>6, <1>7, <1>8, <1>9, <1>10, <1>11, <1>12, <1>13, <1>14 DEF MutationInvariant

(* All is compensated, and the second save begins.                         *)
LEMMA UndoneStep ==
  ASSUME MutationInvariant, Undone
  PROVE  MutationInvariant'
<1>1. /\ Types /\ Sanity /\ Shape /\ Course /\ Sync /\ Accounted /\ Acks /\ Targets
      /\ Rollback
  BY DEF MutationInvariant
<1>2. job.stage = "undo" /\ job.todo = {}
  BY DEF Undone
<1>3. /\ phase = "up" /\ job.via \notin {"none", "background"} /\ job \in Jobs
      /\ job.targets \subseteq Entries /\ job.answer = "none"
  BY <1>1, <1>2, UpFacts DEF Course
<1>4. /\ mem' = mem /\ live' = live /\ made' = made /\ label' = job.label /\ disk' = disk
      /\ phase' = phase /\ pending' = pending /\ saver' = saver /\ flag' = flag
      /\ told' = told /\ ack' = ack /\ lost' = lost
  BY DEF Undone, hist
<1> DEFINE i == [Image EXCEPT !.label = job.label]
<1>5. /\ i \in Images /\ i.label = job.label
      /\ \A e \in Entries : /\ Blank(i.apps[e]) /\ Config(i.apps[e]) = Config(mem[e])
                            /\ InSync(e, i)
  <2>1. /\ Image \in Images
        /\ \A e \in Entries : /\ Blank(Image.apps[e]) /\ InSync(e, Image)
                              /\ Config(Image.apps[e]) = Config(mem[e])
    BY <1>1, ImageFacts DEF Fits
  <2>2. i \in Images /\ i.label = job.label /\ i.apps = Image.apps
    BY <1>3, <2>1 DEF Images, Jobs
  <2> QED
    BY <2>1, <2>2 DEF InSync
<1>6. /\ job' \in Jobs /\ job'.via = job.via /\ job'.kind = job.kind
      /\ job'.undo = job.undo /\ job'.targets = job.targets /\ job'.before = job.before
      /\ job'.label = job.label /\ (job'.err <=> job.err)
      /\ job'.todo = {} /\ job'.done = job.done
      /\ \/ /\ job.via = "port" /\ job'.stage = "answer" /\ job'.answer = "unsaved"
            /\ job'.img = job.img
         \/ /\ job.via # "port" /\ job'.stage = "rewrite" /\ job'.answer = "none"
            /\ job'.img = i
  <2>1. job' = IF job.via = "port"
               THEN [job EXCEPT !.stage = "answer", !.answer = "unsaved"]
               ELSE [job EXCEPT !.stage = "rewrite", !.img = i]
    BY DEF Undone
  <2> HIDE DEF i
  <2> QED
    BY <1>2, <1>3, <1>5, <2>1 DEF Jobs, Stages, Answers
<1> HIDE DEF i
<1>7. Types'
  BY <1>1, <1>3, <1>4, <1>6 DEF Types, Jobs
<1>8. Sanity'
  BY <1>1, <1>4, <1>5, <1>6 DEF Sanity
<1>9. Shape'
  BY <1>1, <1>3, <1>6 DEF Shape
<1>10. Course'
  BY <1>1, <1>2, <1>3, <1>4, <1>6 DEF Course
<1>11. Sync'
  <2>1. job'.stage = "rewrite" => Fits(job.img)'
    BY <1>4, <1>5, <1>6 DEF Fits, InSync
  <2> QED
    BY <1>6, <2>1 DEF Sync
<1>12. Accounted'
  BY <1>1, <1>3, <1>4 DEF Accounted
<1>13. Acks'
  <2>1. \A e \in Entries : /\ Acked(e)' <=> Acked(e)
                           /\ Settled(e)' <=> Settled(e)
                           /\ Untouched(e)' <=> Untouched(e)
    BY <1>3, <1>4, <1>6 DEF Acked, Settled, Untouched
  <2> QED
    BY <1>1, <1>3, <1>4, <1>5, <1>6, <2>1 DEF Acks
<1>14. Targets'
  BY <1>1, <1>4, <1>6 DEF Targets
<1>15. Rollback'
  <2>1. ~job.err => \A e \in job.done : Restored(e)
    BY <1>1, <1>2 DEF Rollback
  <2>2. \A e : Restored(e)' <=> Restored(e)
    BY <1>4, <1>6 DEF Restored
  <2> QED
    BY <1>4, <1>5, <1>6, <2>1, <2>2 DEF Rollback
<1> QED
  BY <1>7, <1>8, <1>9, <1>10, <1>11, <1>12, <1>13, <1>14, <1>15 DEF MutationInvariant

(* With nothing under way the parts of the invariant about a transaction   *)
(* hold.                                                                   *)
LEMMA RestFacts ==
  ASSUME Types, Sanity, job' = Idle, phase' = "up" \/ (saver' = 0 /\ ~flag' /\ ~told'),
         phase' \in {"down", "up"},
         phase' = "down" => \A e \in Entries : mem'[e] = Gone
  PROVE  /\ Shape' /\ Course' /\ Targets' /\ Rollback'
         /\ \A e \in Entries : Sane(job'.before[e]) /\ Blank(job'.img.apps[e])
         /\ job' \in Jobs /\ job'.stage = "idle" /\ job'.targets = {}
<1>1. /\ job' \in Jobs /\ job'.stage = "idle" /\ job'.via = "none" /\ job'.kind = "none"
      /\ job'.undo = "none" /\ job'.targets = {} /\ job'.todo = {} /\ job'.done = {}
      /\ ~job'.err /\ job'.answer = "none"
      /\ \A e \in Entries : Sane(job'.before[e]) /\ Blank(job'.img.apps[e])
  BY IdleFacts
<1>2. Shape'
  BY <1>1 DEF Shape, Plans
<1>3. Idle' = Idle
  BY DEF Idle, Saved
<1>4. Course'
  BY <1>1, <1>3 DEF Course
<1>5. Targets' /\ Rollback'
  BY <1>1 DEF Targets, Rollback
<1> QED
  BY <1>1, <1>2, <1>4, <1>5

(* The answer, and what the client knows from it.                          *)
LEMMA AnswerStep ==
  ASSUME MutationInvariant, Answer
  PROVE  MutationInvariant'
<1>1. /\ Types /\ Sanity /\ Shape /\ Course /\ Sync /\ Accounted /\ Acks /\ Targets
      /\ Rollback
  BY DEF MutationInvariant
<1>2. job.stage = "answer" /\ job.via # "background"
  BY DEF Answer
<1>3. /\ phase = "up" /\ job.via \in {"api", "telegram", "port", "git"} /\ job \in Jobs
      /\ job.targets \subseteq Entries /\ \A e \in Entries : Settled(e)
      /\ job.answer \in {"ok", "refused", "incomplete", "failed", "unsaved"}
  BY <1>1, <1>2, UpFacts DEF Course, Jobs, Vias, Answers
<1>4. /\ mem' = mem /\ live' = live /\ made' = made /\ label' = label /\ disk' = disk
      /\ phase' = phase /\ pending' = pending /\ saver' = saver /\ lost' = lost
      /\ job' = Idle
  BY DEF Answer
<1>5. /\ flag' <=> (flag \/ (job.answer = "incomplete" /\ job.via \in {"api", "git"}))
      /\ told' <=> (told \/ (job.answer = "incomplete" /\ job.via = "telegram")
                         \/ job.answer = "unsaved"
                         \/ (job.answer = "failed" /\ job.kind = "pull"))
      /\ flag' \in BOOLEAN /\ told' \in BOOLEAN
  BY <1>1 DEF Answer, Types
<1>6. \A e \in Entries :
        ack'[e] = IF job.answer = "ok" /\ e \in job.done THEN Config(mem[e])
                  ELSE IF \/ job.answer = "incomplete" /\ e \in job.targets
                          \/ job.kind = "create" /\ e \in job.targets \ job.done
                  THEN Unknown ELSE ack[e]
  BY DEF Answer
<1>7. /\ Shape' /\ Course' /\ Targets' /\ Rollback'
      /\ \A e \in Entries : Sane(job'.before[e]) /\ Blank(job'.img.apps[e])
      /\ job' \in Jobs /\ job'.stage = "idle" /\ job'.targets = {}
  BY <1>1, <1>3, <1>4, RestFacts
<1>8. Types'
  BY <1>1, <1>4, <1>5, <1>7 DEF Types
<1>9. Sanity'
  BY <1>1, <1>4, <1>7 DEF Sanity
<1>10. Sync'
  <2>1. Fits(disk)' <=> Fits(disk)
    BY <1>4 DEF Fits, InSync
  <2>2. Dirty => Dirty'
    BY <1>4, <1>5 DEF Dirty
  <2>3. Stirred => Dirty
    BY DEF Stirred, Dirty
  <2>4. CASE job.answer \in {"ok", "refused"}
    BY <1>1, <1>2, <1>7, <2>1, <2>2, <2>3, <2>4 DEF Sync
  <2>5. CASE job.answer = "failed"
    <3>1. Dirty' \/ Fits(disk)
      BY <1>1, <1>2, <1>5, <2>2, <2>5 DEF Sync, Dirty
    <3> QED
      BY <1>7, <2>1, <3>1 DEF Sync
  <2>6. CASE job.answer \in {"incomplete", "unsaved"}
    <3>1. Dirty'
      BY <1>1, <1>3, <1>5, <2>6 DEF Shape, Dirty
    <3> QED
      BY <1>7, <3>1 DEF Sync
  <2> QED
    BY <1>3, <2>4, <2>5, <2>6
<1>11. Accounted'
  BY <1>1, <1>3, <1>4 DEF Accounted
<1>12. ASSUME NEW e \in Entries, ack'[e] # Unknown
       PROVE  Config(disk.apps[e]) = ack'[e] /\ Config(mem[e]) = ack'[e]
  <2>1. CASE job.answer = "ok" /\ e \in job.done
    BY <1>1, <1>2, <1>6, <2>1 DEF Acks
  <2>2. CASE /\ ~(job.answer = "ok" /\ e \in job.done)
             /\ ack'[e] = ack[e] /\ e \notin job.targets
    BY <1>1, <1>3, <1>12, <2>2 DEF Acks, Acked
  <2>3. CASE /\ ~(job.answer = "ok" /\ e \in job.done)
             /\ ack'[e] = ack[e] /\ e \in job.targets
             /\ job.answer # "incomplete" /\ (job.kind = "create" => e \in job.done)
    <3>1. Acked(e) /\ Config(job.before[e]) = ack[e]
      BY <1>1, <1>12, <2>3 DEF Acks, Acked
    <3>2. CASE Untouched(e)
      BY <1>1, <2>3, <3>1, <3>2 DEF Acks
    <3>3. CASE ~Untouched(e)
      <4>1. e \in job.done /\ job.kind # "stop"
        BY <2>3, <3>3 DEF Untouched
      <4>2. job.answer = "refused"
        BY <1>1, <1>3, <2>3, <4>1 DEF Shape
      <4>3. Config(mem[e]) = Config(job.before[e])
        BY <1>1, <1>2, <4>1, <4>2 DEF Rollback, Restored
      <4>4. Config(disk.apps[e]) = Config(mem[e])
        BY <1>1, <1>2, <4>2 DEF Acks
      <4> QED
        BY <2>3, <3>1, <4>3, <4>4
    <3> QED
      BY <3>2, <3>3
  <2> QED
    BY <1>6, <1>12, <2>1, <2>2, <2>3
<1>13. Acks'
  BY <1>4, <1>7, <1>12 DEF Acks, Acked
<1> QED
  BY <1>7, <1>8, <1>9, <1>10, <1>11, <1>13 DEF MutationInvariant

(* A persistence event begins a round of attempts.                         *)
LEMMA EventStep ==
  ASSUME MutationInvariant, Event
  PROVE  MutationInvariant'
<1>1. /\ Types /\ Sanity /\ Shape /\ Course /\ Sync /\ Accounted /\ Acks /\ Targets
      /\ Rollback
  BY DEF MutationInvariant
<1>2. /\ phase = "up" /\ pending /\ saver = 0 /\ pending' = FALSE /\ saver' = 1
      /\ mem' = mem /\ live' = live /\ made' = made /\ label' = label /\ disk' = disk
      /\ phase' = phase /\ job' = job /\ flag' = flag
      /\ told' = told /\ ack' = ack /\ lost' = lost
  BY DEF Event, hist
<1>3. job.via # "background" /\ job.targets \subseteq Entries
  BY <1>1, <1>2 DEF Course, Types, Jobs
<1>4. Types'
  BY <1>1, <1>2 DEF Types
<1>5. Sanity' /\ Shape' /\ Accounted' /\ Targets'
  BY <1>1, <1>2 DEF Sanity, Shape, Accounted, Targets
<1>6. Course'
  BY <1>1, <1>2, <1>3 DEF Course
<1>7. Sync'
  <2>1. Stirred' /\ Dirty'
    BY <1>2, <1>3 DEF Stirred, Dirty
  <2> QED
    BY <1>1, <1>2, <2>1 DEF Sync
<1>8. Acks'
  BY <1>1, <1>2, <1>3 DEF Acks, Acked, Settled, Untouched
<1>9. Rollback'
  BY <1>1, <1>2 DEF Rollback, Restored
<1> QED
  BY <1>4, <1>5, <1>6, <1>7, <1>8, <1>9 DEF MutationInvariant

(* An attempt begins its save.                                             *)
LEMMA AttemptStep ==
  ASSUME MutationInvariant, Attempt
  PROVE  MutationInvariant'
<1>1. /\ Types /\ Sanity /\ Shape /\ Course /\ Sync /\ Accounted /\ Acks /\ Targets
      /\ Rollback
  BY DEF MutationInvariant
<1>2. /\ phase = "up" /\ saver > 0 /\ job.stage = "idle"
      /\ mem' = mem /\ live' = live /\ made' = made /\ label' = label /\ disk' = disk
      /\ phase' = phase /\ pending' = pending /\ saver' = saver /\ flag' = flag
      /\ told' = told /\ ack' = ack /\ lost' = lost
  BY DEF Attempt, hist
<1>3. /\ job' \in Jobs /\ job'.stage = "save" /\ job'.via = "background"
      /\ job'.kind = "none" /\ job'.undo = "none" /\ job'.targets = {}
      /\ job'.todo = {} /\ job'.done = {} /\ ~job'.err /\ job'.answer = "none"
      /\ \A e \in Entries : Sane(job'.before[e]) /\ Blank(job'.img.apps[e])
  <2>1. job' = [Idle EXCEPT !.stage = "save", !.via = "background"]
    BY DEF Attempt
  <2>2. /\ job' \in Jobs /\ job'.stage = "save" /\ job'.via = "background"
        /\ job'.kind = Idle.kind /\ job'.undo = Idle.undo /\ job'.targets = Idle.targets
        /\ job'.todo = Idle.todo /\ job'.done = Idle.done /\ (job'.err <=> Idle.err)
        /\ job'.answer = Idle.answer /\ job'.before = Idle.before /\ job'.img = Idle.img
    BY <2>1, IdleFacts DEF Jobs, Stages, Vias
  <2> QED
    BY <2>2, IdleFacts
<1>4. job.targets = {}
  BY <1>1, <1>2 DEF Course
<1>5. Types'
  BY <1>1, <1>2, <1>3 DEF Types
<1>6. Sanity'
  BY <1>1, <1>2, <1>3 DEF Sanity
<1>7. Shape'
  BY <1>3 DEF Shape, Plans
<1>8. Course'
  BY <1>1, <1>2, <1>3 DEF Course
<1>9. Sync'
  BY <1>3 DEF Sync
<1>10. Accounted'
  BY <1>1, <1>2 DEF Accounted
<1>11. Acks'
  <2>1. \A e \in Entries : (Acked(e)' <=> Acked(e)) /\ (Settled(e)' <=> Settled(e))
    BY <1>2 DEF Acked, Settled
  <2> QED
    BY <1>1, <1>2, <1>3, <1>4, <2>1 DEF Acks
<1>12. Targets' /\ Rollback'
  BY <1>3 DEF Targets, Rollback
<1> QED
  BY <1>5, <1>6, <1>7, <1>8, <1>9, <1>10, <1>11, <1>12 DEF MutationInvariant

(* An attempt ends: saved, to be tried again, or given up.                 *)
LEMMA AttemptEndsStep ==
  ASSUME MutationInvariant, AttemptEnds
  PROVE  MutationInvariant'
<1>1. /\ Types /\ Sanity /\ Shape /\ Course /\ Sync /\ Accounted /\ Acks /\ Targets
      /\ Rollback
  BY DEF MutationInvariant
<1>2. job.stage = "answer" /\ job.via = "background" /\ job' = Idle
  BY DEF AttemptEnds
<1>3. /\ mem' = mem /\ live' = live /\ made' = made /\ label' = label /\ disk' = disk
      /\ phase' = phase /\ pending' = pending /\ told' = told /\ ack' = ack /\ lost' = lost
  BY DEF AttemptEnds, hist
<1>4. /\ saver' \in Nat /\ flag' \in BOOLEAN
      /\ job.answer = "ok" \/ saver' > 0 \/ flag'
  <2>1. saver \in Nat /\ flag \in BOOLEAN
    BY <1>1 DEF Types
  <2>2. CASE job.answer = "ok"
    <3>1. saver' = 0 /\ ~flag' /\ flag' \in BOOLEAN
      BY <2>2 DEF AttemptEnds
    <3> QED
      BY <2>2, <3>1
  <2>3. CASE job.answer # "ok" /\ saver < MaxAttempts
    <3>1. saver' = saver + 1 /\ flag' = flag
      BY <2>3 DEF AttemptEnds
    <3>2. saver' \in Nat /\ saver' > 0
      BY <2>1, <3>1
    <3>3. flag' \in BOOLEAN
      BY <2>1, <3>1
    <3> QED
      BY <3>2, <3>3
  <2>4. CASE job.answer # "ok" /\ ~(saver < MaxAttempts)
    <3>1. saver' = 0 /\ flag' /\ flag' \in BOOLEAN
      BY <2>4 DEF AttemptEnds
    <3> QED
      BY <3>1
  <2> QED
    BY <2>2, <2>3, <2>4
<1>5. phase = "up" /\ \A e \in Entries : Settled(e)
  BY <1>2, UpFacts
<1>6. job.targets = {}
  BY <1>1, <1>2 DEF Shape
<1>7. /\ Shape' /\ Course' /\ Targets' /\ Rollback'
      /\ \A e \in Entries : Sane(job'.before[e]) /\ Blank(job'.img.apps[e])
      /\ job' \in Jobs /\ job'.stage = "idle" /\ job'.targets = {}
  BY <1>1, <1>2, <1>3, <1>5, RestFacts
<1>8. Types'
  BY <1>1, <1>3, <1>4, <1>7 DEF Types
<1>9. Sanity'
  BY <1>1, <1>3, <1>7 DEF Sanity
<1>10. Sync'
  <2>1. Fits(disk)' <=> Fits(disk)
    BY <1>3 DEF Fits, InSync
  <2>2. CASE job.answer = "ok"
    <3>1. pending \/ Fits(disk)
      BY <1>1, <1>2, <2>2 DEF Sync, Stirred
    <3> QED
      BY <1>3, <1>7, <2>1, <3>1 DEF Sync, Dirty
  <2>3. CASE saver' > 0 \/ flag'
    BY <1>7, <2>3 DEF Sync, Dirty
  <2> QED
    BY <1>4, <2>2, <2>3
<1>11. Accounted'
  BY <1>1, <1>3, <1>5 DEF Accounted
<1>12. Acks'
  BY <1>1, <1>3, <1>5, <1>6, <1>7 DEF Acks, Acked
<1> QED
  BY <1>7, <1>8, <1>9, <1>10, <1>11, <1>12 DEF MutationInvariant

-----------------------------------------------------------------------------
(* Crash, load and restore.                                                *)
LEMMA CrashStep ==
  ASSUME MutationInvariant, Crash
  PROVE  MutationInvariant'
<1>1. /\ Types /\ Sanity /\ Shape /\ Course /\ Sync /\ Accounted /\ Acks /\ Targets
      /\ Rollback
  BY DEF MutationInvariant
<1>2. /\ phase # "down" /\ phase' = "down" /\ live' = live /\ made' = made
      /\ mem' = [e \in Entries |-> Gone] /\ label' = 0
      /\ job' = Idle /\ ~pending' /\ saver' = 0 /\ ~flag' /\ ~told'
      /\ pending' \in BOOLEAN /\ flag' \in BOOLEAN /\ told' \in BOOLEAN
  BY DEF Crash
<1>3. disk' = disk \/ (job.stage \in {"write", "rewrite"} /\ disk' = job.img)
  BY DEF Crash
<1>4. \A e \in Entries : ack'[e] = IF e \in job.targets THEN Unknown ELSE ack[e]
  BY DEF Crash
<1>5. \A e \in Entries :
        lost'[e] = lost[e] \cup (live[e] \ {disk'.apps[e].tree, mem[e].tree}) \cup
          (IF job.stage # "idle" \/ pending \/ saver > 0 \/ flag \/ told
           THEN live[e] \ {disk'.apps[e].tree} ELSE {})
  BY DEF Crash
<1>6. /\ Shape' /\ Course' /\ Targets' /\ Rollback'
      /\ \A e \in Entries : Sane(job'.before[e]) /\ Blank(job'.img.apps[e])
      /\ job' \in Jobs /\ job'.stage = "idle" /\ job'.targets = {}
  BY <1>1, <1>2, RestFacts
<1>7. disk' \in Images /\ \A e \in Entries : Blank(disk'.apps[e])
  BY <1>1, <1>3 DEF Types, Sanity, Jobs
<1>8. mem' \in [Entries -> Records] /\ label' \in Int
  BY <1>2, GoneFacts
<1>9. Types'
  BY <1>1, <1>2, <1>6, <1>7, <1>8 DEF Types
<1>10. Sanity'
  BY <1>2, <1>6, <1>7, GoneFacts DEF Sanity
<1>11. Sync'
  BY <1>2, <1>6 DEF Sync
<1>12. Accounted'
  <2>1. ASSUME NEW e \in Entries
        PROVE  live[e] \ lost'[e] \subseteq {disk'.apps[e].tree}
    <3>1. CASE job.stage # "idle" \/ pending \/ saver > 0 \/ flag \/ told
      BY <1>5, <3>1
    <3>2. CASE ~(job.stage # "idle" \/ pending \/ saver > 0 \/ flag \/ told)
      <4>1. phase = "up" /\ disk' = disk /\ ~Dirty
        BY <1>1, <1>2, <1>3, <3>2 DEF Types, Course, Dirty
      <4>2. InSync(e, disk)
        BY <1>1, <3>2, <4>1 DEF Sync, Fits
      <4>3. {mem[e].tree} \cap live[e] = {disk.apps[e].tree} \cap live[e]
        BY <4>2 DEF InSync, HeldOf, KeptOf
      <4>4. live[e] \ lost'[e] \subseteq {disk.apps[e].tree, mem[e].tree} \cap live[e]
        BY <1>5, <4>1
      <4> QED
        BY <4>1, <4>3, <4>4
    <3> QED
      BY <3>1, <3>2
  <2> QED
    BY <1>2, <2>1 DEF Accounted
<1>13. ASSUME NEW e \in Entries, ack'[e] # Unknown
       PROVE  Config(disk'.apps[e]) = ack'[e]
  <2>1. ack'[e] = ack[e] /\ e \notin job.targets /\ Acked(e)
    BY <1>4, <1>13 DEF Acked
  <2>2. CASE disk' = disk
    BY <1>1, <2>1, <2>2 DEF Acks
  <2>3. CASE job.stage \in {"write", "rewrite"} /\ disk' = job.img
    <3>1. Settled(e)
      BY <2>3, UpFacts
    <3> QED
      BY <1>1, <2>1, <2>3, <3>1 DEF Acks
  <2> QED
    BY <1>3, <2>2, <2>3
<1>14. Acks'
  BY <1>2, <1>6, <1>13 DEF Acks, Acked, Settled
<1> QED
  BY <1>6, <1>9, <1>10, <1>11, <1>12, <1>14 DEF MutationInvariant

(* The image is loaded.                                                    *)
LEMMA LoadStep ==
  ASSUME MutationInvariant, Load
  PROVE  MutationInvariant'
<1>1. /\ Types /\ Sanity /\ Shape /\ Course /\ Sync /\ Accounted /\ Acks /\ Targets
      /\ Rollback
  BY DEF MutationInvariant
<1>2. /\ phase = "down" /\ phase' = "loading" /\ label' = disk.label
      /\ mem' = mem /\ live' = live /\ made' = made /\ disk' = disk
      /\ pending' = pending /\ saver' = saver /\ flag' = flag
      /\ told' = told /\ ack' = ack /\ lost' = lost
  BY DEF Load, hist
<1>3. /\ job' \in Jobs /\ job'.stage = "restore" /\ job'.via = "background"
      /\ job'.kind = "none" /\ job'.undo = "none" /\ job'.targets = {}
      /\ job'.todo = {e \in Entries : disk.apps[e].there}
      /\ job'.done = {} /\ ~job'.err /\ job'.answer = "none"
      /\ \A e \in Entries : Sane(job'.before[e]) /\ Blank(job'.img.apps[e])
  <2> DEFINE T == {e \in Entries : disk.apps[e].there}
  <2>1. job' = [Idle EXCEPT !.stage = "restore", !.via = "background", !.todo = T]
    BY DEF Load
  <2>2. T \in SUBSET Entries
    OBVIOUS
  <2> HIDE DEF T
  <2>3. /\ job' \in Jobs /\ job'.stage = "restore" /\ job'.via = "background"
        /\ job'.kind = Idle.kind /\ job'.undo = Idle.undo /\ job'.targets = Idle.targets
        /\ job'.todo = T /\ job'.done = Idle.done /\ (job'.err <=> Idle.err)
        /\ job'.answer = Idle.answer /\ job'.before = Idle.before /\ job'.img = Idle.img
    BY <2>1, <2>2, IdleFacts DEF Jobs, Stages, Vias
  <2> QED
    BY <2>3, IdleFacts DEF T
<1>4. /\ saver = 0 /\ ~flag /\ ~told /\ job = Idle /\ \A e \in Entries : mem[e] = Gone
  BY <1>1, <1>2 DEF Course
<1>5. Types'
  BY <1>1, <1>2, <1>3 DEF Types, Images
<1>6. Sanity'
  BY <1>1, <1>2, <1>3 DEF Sanity
<1>7. Shape'
  BY <1>3 DEF Shape, Plans
<1>8. Course'
  BY <1>2, <1>3, <1>4 DEF Course
<1>9. Sync'
  BY <1>3 DEF Sync
<1>10. Accounted'
  <2>1. \A e \in Entries : live[e] \ lost[e] \subseteq {disk.apps[e].tree}
    BY <1>1, <1>2 DEF Accounted
  <2>2. \A e \in Entries \ job'.todo : disk.apps[e].tree = None /\ mem[e].tree = None
    BY <1>1, <1>3, <1>4, GoneFacts DEF Sanity, Blank
  <2> QED
    BY <1>2, <2>1, <2>2 DEF Accounted
<1>11. Acks'
  <2>1. ASSUME NEW e \in Entries, Acked(e)
        PROVE  /\ Config(disk.apps[e]) = ack[e]
               /\ e \notin job'.todo => Config(mem[e]) = ack[e]
    <3>1. Config(disk.apps[e]) = ack[e]
      BY <1>1, <1>4, <2>1, IdleFacts DEF Acks
    <3>2. e \notin job'.todo => Config(disk.apps[e]) = Config(Gone)
      BY <1>1, <1>3 DEF Sanity, Blank
    <3> QED
      BY <1>4, <3>1, <3>2
  <2> QED
    BY <1>2, <1>3, <2>1 DEF Acks, Acked, Settled
<1>12. Targets' /\ Rollback'
  BY <1>3 DEF Targets, Rollback
<1> QED
  BY <1>5, <1>6, <1>7, <1>8, <1>9, <1>10, <1>11, <1>12 DEF MutationInvariant

(* What the restore of one entry leaves: its configuration, and its        *)
(* process adopted or gone.                                                *)
LEMMA RestoreFacts ==
  ASSUME Types, Sanity, NEW e \in Entries, NEW s, s \in SavedApps, s.there,
         live[e] \ lost[e] \subseteq {s.tree}, NEW w, w \in RestoreOutcomes(e, s)
  PROVE  /\ w \in Worlds /\ w.id = e /\ Sane(w.m) /\ Config(w.m) = Config(s)
         /\ w.live \subseteq live[e] /\ w.live \ lost[e] \subseteq {w.m.tree}
<1>1. /\ World(e) \in Worlds /\ World(e).id = e /\ World(e).live = live[e]
      /\ live[e] \in Trees
  BY WorldFacts DEF Types
<1> DEFINE r == [there |-> TRUE, on |-> s.on, tag |-> s.tag,
                 status |-> "stopped", desired |-> FALSE, tree |-> None]
           v == [World(e) EXCEPT !.m = r]
           k == [v EXCEPT !.live = @ \ {s.tree}]
           S(x) == [x EXCEPT !.m.status = "sleeping", !.m.desired = TRUE]
           up == [v EXCEPT !.m.tree = s.tree, !.m.desired = TRUE,
                    !.m.status = IF v.id \in Watched THEN "watching" ELSE "running"]
           off == Ended(up, "stopped")
           err == [up EXCEPT !.m.status = "errored", !.m.desired = FALSE, !.bad = 2]
<1>2. /\ r \in Records /\ r.status = "stopped" /\ r.tree = None /\ r.there
      /\ Config(r) = Config(s)
  BY DEF Records, SavedApps, Statuses, None, Config
<1>3. v \in Worlds /\ v.id = e /\ v.live = live[e] /\ v.m = r
  <2> HIDE DEF r
  <2> QED
    BY <1>1, <1>2 DEF Worlds
<1>4. ASSUME NEW x \in Worlds, x.m.there, x.m.status \in {"stopped", "sleeping"},
             x.m.status = "sleeping" => x.m.desired, x.m.tree = None
      PROVE  Sane(x.m)
  BY <1>4 DEF Sane, Shown
<1> HIDE DEF v, r
<1>5. k \in Worlds /\ k.id = e /\ k.live = live[e] \ {s.tree} /\ k.m = r
  BY <1>1, <1>3 DEF Worlds, Trees
<1> HIDE DEF k
<1>6. ASSUME NEW x \in Worlds, x.m = r
      PROVE  /\ S(x) \in Worlds /\ S(x).id = x.id /\ S(x).live = x.live
             /\ Config(S(x).m) = Config(s) /\ S(x).m.there
             /\ S(x).m.status = "sleeping" /\ S(x).m.desired /\ S(x).m.tree = None
  BY <1>2, <1>6 DEF Worlds, Records, Statuses, Config
<1> HIDE DEF S
<1>7. /\ up \in Worlds /\ up.id = e /\ up.live = live[e] /\ up.m.tree = s.tree
      /\ Config(up.m) = Config(s) /\ up.m.there /\ up.m.desired
      /\ up.m.status \in {"running", "watching"}
  BY <1>2, <1>3 DEF Worlds, Records, Statuses, Config, SavedApps
<1> HIDE DEF up
<1>8. /\ off \in Worlds /\ off.id = e /\ off.live = live[e] \ {s.tree}
      /\ off.m.tree = None /\ Config(off.m) = Config(s) /\ off.m.there
      /\ off.m.status = "stopped"
  BY <1>7, EndedFacts DEF Statuses
<1> HIDE DEF off
<1>9. /\ err \in Worlds /\ err.id = e /\ err.live = live[e]
      /\ err.m.tree = s.tree /\ Config(err.m) = Config(s) /\ err.m.there
      /\ err.m.status = "errored"
  BY <1>7 DEF Worlds, Records, Statuses, Config
<1> HIDE DEF err
<1>10. ASSUME NEW u \in Worlds, NEW n \in Nat
       PROVE  LET x == [u EXCEPT !.bad = n] IN
              /\ x \in Worlds /\ x.id = u.id /\ x.m = u.m /\ x.live = u.live
  BY DEF Worlds
<1> DEFINE Fine(u) ==
      /\ u \in Worlds /\ u.id = e /\ Sane(u.m) /\ Config(u.m) = Config(s)
      /\ u.live \subseteq live[e] /\ u.live \ lost[e] \subseteq {u.m.tree}
<1>11. s.tree \notin live[e] => Fine(v)
  BY <1>2, <1>3, <1>4
<1>12. Fine(k)
  BY <1>2, <1>4, <1>5
<1>13. s.tree \notin live[e] => Fine(S(v))
  BY <1>3, <1>4, <1>6
<1>14. Fine(S(k))
  BY <1>4, <1>5, <1>6
<1>15. Fine(up)
  BY <1>7 DEF Sane, Shown
<1>16. Fine(off)
  BY <1>4, <1>8
<1>17. Fine(err)
  BY <1>9 DEF Sane, Shown
<1>18. ASSUME NEW u, Fine(u), NEW n \in Nat
       PROVE  Fine([u EXCEPT !.bad = n])
  BY <1>10, <1>18
<1> HIDE DEF Fine
<1>19. ASSUME NEW u, u \in Adopt(v, s.tree)
       PROVE  Fine(u) /\ u.bad \in Nat
  <2>1. u \in {up, [off EXCEPT !.bad = 1], err}
    BY <1>19 DEF Adopt, up, off, err
  <2>2. Fine(u)
    BY <1>15, <1>16, <1>17, <1>18, <2>1
  <2> QED
    BY <2>2 DEF Fine, Worlds
<1>20. ASSUME NEW x, x \in {[u EXCEPT !.bad = @ + 1] : u \in Adopt(v, s.tree)}
       PROVE  Fine(x)
  <2>1. PICK u \in Adopt(v, s.tree) : x = [u EXCEPT !.bad = u.bad + 1]
    BY <1>20
  <2>2. Fine(u) /\ u.bad + 1 \in Nat
    BY <1>19
  <2> QED
    BY <1>18, <2>1, <2>2
<1>21. \/ s.tree \in live[e] /\ w \in {k, S(k)} \cup
            {[u EXCEPT !.bad = @ + 1] : u \in Adopt(v, s.tree)} \cup Adopt(v, s.tree)
       \/ s.tree \notin live[e] /\ w \in {v, S(v)}
  BY <1>1 DEF RestoreOutcomes, v, k, S, r
<1>22. Fine(w)
  BY <1>11, <1>12, <1>13, <1>14, <1>19, <1>20, <1>21
<1> QED
  BY <1>22 DEF Fine

(* One entry is restored.                                                  *)
LEMMA RestoreStep ==
  ASSUME MutationInvariant, NEW e \in Entries, Restore(e)
  PROVE  MutationInvariant'
<1>1. /\ Types /\ Sanity /\ Shape /\ Course /\ Sync /\ Accounted /\ Acks /\ Targets
      /\ Rollback
  BY DEF MutationInvariant
<1>2. phase = "loading" /\ job.stage = "restore" /\ e \in job.todo
  BY DEF Restore
<1>3. PICK w \in RestoreOutcomes(e, disk.apps[e]) : Become(e, w)
  BY DEF Restore
<1>4. /\ label' = label /\ disk' = disk /\ phase' = phase /\ saver' = saver
      /\ flag' = flag /\ told' = told /\ ack' = ack /\ lost' = lost
  BY DEF Restore, hist
<1>5. /\ job \in Jobs /\ job.via = "background" /\ job.kind = "none" /\ job.targets = {}
      /\ disk.apps[e] \in SavedApps /\ disk.apps[e].there
      /\ live[e] \ lost[e] \subseteq {disk.apps[e].tree}
  BY <1>1, <1>2 DEF Types, Images, Course, Shape, Accounted
<1>6. /\ w \in Worlds /\ w.id = e /\ Sane(w.m) /\ Config(w.m) = Config(disk.apps[e])
      /\ w.live \subseteq live[e] /\ w.live \ lost[e] \subseteq {w.m.tree}
  BY <1>1, <1>3, <1>5, RestoreFacts
<1>7. /\ mem' \in [Entries -> Records] /\ live' \in [Entries -> Trees]
      /\ made' \in [Entries -> Nat] /\ pending' \in BOOLEAN
      /\ mem'[e] = w.m /\ live'[e] = w.live
      /\ \A f \in Entries \ {e} : mem'[f] = mem[f] /\ live'[f] = live[f]
  BY <1>1, <1>3, <1>6, BecomeFacts
<1>8. /\ job' \in Jobs /\ job'.via = job.via /\ job'.kind = job.kind
      /\ job'.undo = job.undo /\ job'.targets = job.targets /\ job'.before = job.before
      /\ job'.label = job.label /\ job'.img = job.img /\ (job'.err <=> job.err)
      /\ job'.answer = job.answer /\ job'.stage = "restore" /\ job'.todo = job.todo \ {e}
      /\ job'.done = job.done
  BY <1>2, <1>5 DEF Restore, Jobs
<1>9. Types'
  BY <1>1, <1>4, <1>7, <1>8 DEF Types
<1>10. Sanity'
  BY <1>1, <1>4, <1>6, <1>7, <1>8 DEF Sanity
<1>11. Shape'
  BY <1>1, <1>8 DEF Shape
<1>12. Course'
  BY <1>1, <1>2, <1>4, <1>8 DEF Course
<1>13. Sync'
  BY <1>8, <1>2, <1>4 DEF Sync
<1>14. Accounted'
  BY <1>1, <1>2, <1>4, <1>6, <1>7, <1>8 DEF Accounted
<1>15. Acks'
  <2>1. ASSUME NEW f \in Entries, Acked(f)
        PROVE  /\ Config(disk.apps[f]) = ack[f]
               /\ f \notin job'.todo => Config(mem'[f]) = ack[f]
    <3>1. /\ Config(disk.apps[f]) = ack[f]
          /\ f \notin job.todo => Config(mem[f]) = ack[f]
      BY <1>1, <1>2, <1>5, <2>1 DEF Acks, Settled
    <3> QED
      BY <1>6, <1>7, <1>8, <3>1
  <2> QED
    BY <1>2, <1>4, <1>5, <1>8, <2>1 DEF Acks, Acked, Settled
<1>16. Targets' /\ Rollback'
  BY <1>5, <1>8 DEF Targets, Rollback
<1> QED
  BY <1>9, <1>10, <1>11, <1>12, <1>13, <1>14, <1>15, <1>16 DEF MutationInvariant

(* The restored registry is saved, or the daemon goes down again.          *)
LEMMA RestoreSavedStep ==
  ASSUME MutationInvariant, RestoreSaved
  PROVE  MutationInvariant'
<1>1. /\ Types /\ Sanity /\ Shape /\ Course /\ Sync /\ Accounted /\ Acks /\ Targets
      /\ Rollback
  BY DEF MutationInvariant
<1>2. /\ phase = "loading" /\ job.stage = "restore" /\ job.todo = {} /\ job' = Idle
      /\ live' = live /\ made' = made /\ saver' = saver /\ flag' = flag
      /\ told' = told /\ ack' = ack /\ lost' = lost /\ ~pending' /\ pending' \in BOOLEAN
  BY DEF RestoreSaved, hist
<1>3. \/ disk' = Image /\ phase' = "up" /\ mem' = mem /\ label' = label
      \/ /\ disk' \in {disk, Image} /\ phase' = "down"
         /\ mem' = [e \in Entries |-> Gone] /\ label' = 0
  BY DEF RestoreSaved
<1>4. /\ job.targets = {} /\ saver = 0 /\ ~flag /\ ~told
  BY <1>1, <1>2 DEF Course, Shape
<1>5. /\ Image \in Images
      /\ \A e \in Entries : /\ Blank(Image.apps[e])
                            /\ Config(Image.apps[e]) = Config(mem[e])
                            /\ Image.apps[e].tree = mem[e].tree
      /\ Fits(Image)
  BY <1>1, ImageFacts
<1>6. phase' \in {"down", "up"} /\ (phase' = "down" => \A e \in Entries : mem'[e] = Gone)
  BY <1>3
<1>7. /\ Shape' /\ Course' /\ Targets' /\ Rollback'
      /\ \A e \in Entries : Sane(job'.before[e]) /\ Blank(job'.img.apps[e])
      /\ job' \in Jobs /\ job'.stage = "idle" /\ job'.targets = {}
  BY <1>1, <1>2, <1>4, <1>6, RestFacts
<1>8. disk' \in Images /\ \A e \in Entries : Blank(disk'.apps[e])
  BY <1>1, <1>3, <1>5 DEF Types, Sanity
<1>9. /\ mem' \in [Entries -> Records] /\ label' \in Int
      /\ \A e \in Entries : Sane(mem'[e])
  BY <1>1, <1>3, GoneFacts DEF Types, Sanity
<1>10. Types'
  BY <1>1, <1>2, <1>6, <1>7, <1>8, <1>9 DEF Types
<1>11. Sanity'
  BY <1>7, <1>8, <1>9 DEF Sanity
<1>12. Sync'
  <2>1. CASE phase' = "up"
    <3>1. Fits(disk)'
      BY <1>2, <1>3, <1>5, <2>1 DEF Fits, InSync
    <3> QED
      BY <1>7, <3>1 DEF Sync
  <2>2. CASE phase' = "down"
    BY <1>7, <2>2 DEF Sync
  <2> QED
    BY <1>6, <2>1, <2>2
<1>13. Accounted'
  <2>1. \A e \in Entries : /\ live[e] \ lost[e] \subseteq {mem[e].tree}
                           /\ live[e] \ lost[e] \subseteq {disk.apps[e].tree}
    BY <1>1, <1>2 DEF Accounted
  <2> QED
    BY <1>2, <1>3, <1>5, <2>1 DEF Accounted
<1>14. Acks'
  <2>1. ASSUME NEW e \in Entries, Acked(e)
        PROVE  Config(disk.apps[e]) = ack[e] /\ Config(mem[e]) = ack[e]
    BY <1>1, <1>2, <1>4, <2>1 DEF Acks, Settled
  <2> QED
    BY <1>2, <1>3, <1>5, <1>7, <2>1 DEF Acks, Acked, Settled
<1> QED
  BY <1>7, <1>10, <1>11, <1>12, <1>13, <1>14 DEF MutationInvariant

(* Nothing happens.                                                        *)
LEMMA StutterStep ==
  ASSUME MutationInvariant, UNCHANGED vars
  PROVE  MutationInvariant'
<1>1. /\ mem' = mem /\ live' = live /\ made' = made /\ label' = label /\ disk' = disk
      /\ phase' = phase /\ job' = job /\ pending' = pending /\ saver' = saver
      /\ flag' = flag /\ told' = told /\ ack' = ack /\ lost' = lost
  BY DEF vars
<1>2. Idle' = Idle /\ job.targets \subseteq Entries
  BY DEF Idle, Saved, MutationInvariant, Types, Jobs
<1>3. Types' /\ Sanity' /\ Shape' /\ Accounted' /\ Targets'
  BY <1>1 DEF MutationInvariant, Types, Sanity, Shape, Accounted, Targets
<1>4. Course'
  BY <1>1, <1>2 DEF MutationInvariant, Course
<1>5. Sync'
  BY <1>1 DEF MutationInvariant, Sync, Dirty, Stirred, Touched, Fits, InSync
<1>6. Acks'
  BY <1>1, <1>2 DEF MutationInvariant, Acks, Acked, Settled, Untouched
<1>7. Rollback'
  BY <1>1 DEF MutationInvariant, Rollback, Restored
<1> QED
  BY <1>3, <1>4, <1>5, <1>6, <1>7 DEF MutationInvariant

-----------------------------------------------------------------------------
(* In the beginning.                                                       *)
LEMMA InitStep ==
  ASSUME Init
  PROVE  MutationInvariant
<1>1. /\ mem \in [Entries -> UNION {Rest(e) : e \in Entries}]
      /\ \A e \in Entries : mem[e] \in Rest(e)
      /\ live = [e \in Entries |-> {mem[e].tree} \ {None}]
      /\ made = [e \in Entries |-> mem[e].tree]
      /\ label = 0 /\ disk = Image /\ phase = "up" /\ job = Idle
      /\ ~pending /\ saver = 0 /\ ~flag /\ ~told
      /\ pending \in BOOLEAN /\ flag \in BOOLEAN /\ told \in BOOLEAN
      /\ ack = [e \in Entries |-> Config(mem[e])]
      /\ lost = [e \in Entries |-> {}]
  BY DEF Init
<1>2. ASSUME NEW e \in Entries, NEW m \in Rest(e)
      PROVE  m \in Records /\ Sane(m)
  <2>1. CASE m = Gone
    BY <2>1, GoneFacts
  <2>2. ASSUME NEW on \in BOOLEAN, NEW s \in {"stopped", "sleeping", "running", "watching"},
               NEW t \in {0, 1}, t = 1 => s \in {"running", "watching"},
               m = [there |-> TRUE, on |-> on, tag |-> 0, status |-> s,
                    desired |-> s # "stopped", tree |-> t]
        PROVE  m \in Records /\ Sane(m)
    <3>1. /\ m.there /\ m.status = s /\ m.tree = t /\ (m.desired <=> s # "stopped")
      BY <2>2
    <3>2. m \in Records
      BY <2>2 DEF Records, Statuses
    <3> QED
      BY <2>2, <3>1, <3>2 DEF Sane, Shown, None
  <2>3. \/ m = Gone
        \/ \E on \in BOOLEAN, s \in {"stopped", "sleeping"} :
              m = [there |-> TRUE, on |-> on, tag |-> 0, status |-> s,
                   desired |-> s # "stopped", tree |-> 0]
        \/ \E on \in BOOLEAN, s \in {"running", "watching"} :
              m = [there |-> TRUE, on |-> on, tag |-> 0, status |-> s,
                   desired |-> s # "stopped", tree |-> 1]
    BY <1>2 DEF Rest, None
  <2> QED
    BY <2>1, <2>2, <2>3
<1>3. mem \in [Entries -> Records] /\ \A e \in Entries : Sane(mem[e])
  BY <1>1, <1>2
<1>4. live \in [Entries -> Trees] /\ made \in [Entries -> Nat]
  BY <1>1, <1>3 DEF Trees, Records
<1>5. /\ Image \in Images
      /\ \A e \in Entries : /\ Blank(Image.apps[e])
                            /\ Config(Image.apps[e]) = Config(mem[e])
      /\ Fits(Image)
  BY <1>1, <1>3, ImageOf
<1>6. /\ job \in Jobs /\ job.stage = "idle" /\ job.via = "none" /\ job.kind = "none"
      /\ job.undo = "none" /\ job.targets = {} /\ job.todo = {} /\ job.done = {}
      /\ ~job.err /\ job.answer = "none"
      /\ \A e \in Entries : Sane(job.before[e]) /\ Blank(job.img.apps[e])
  BY <1>1, IdleFacts
<1>7. Types
  BY <1>1, <1>3, <1>4, <1>5, <1>6 DEF Types
<1>8. Sanity
  BY <1>1, <1>3, <1>5, <1>6 DEF Sanity
<1>9. Shape /\ Course
  BY <1>1, <1>6 DEF Shape, Course, Plans
<1>10. Sync
  BY <1>1, <1>5, <1>6 DEF Sync
<1>11. Accounted
  BY <1>1, <1>4 DEF Accounted, Trees
<1>12. Acks
  BY <1>1, <1>5, <1>6 DEF Acks
<1>13. Targets /\ Rollback
  BY <1>6 DEF Targets, Rollback
<1> QED
  BY <1>7, <1>8, <1>9, <1>10, <1>11, <1>12, <1>13 DEF MutationInvariant

-----------------------------------------------------------------------------
(* The theorems.                                                           *)

(* The invariant holds in every reachable state.                           *)
THEOREM MutationInvariantHolds == Spec => []MutationInvariant
<1>1. Init => MutationInvariant
  BY InitStep
<1>2. MutationInvariant /\ [Next]_vars => MutationInvariant'
  <2> SUFFICES ASSUME MutationInvariant, [Next]_vars
               PROVE  MutationInvariant'
    OBVIOUS
  <2>1. CASE Request
    BY <2>1, RequestStep
  <2>2. CASE Transaction
    BY <2>2, ApplyStep, UndoStep, UnchangedStep, SnapshotStep, WrittenStep,
       WriteFailsStep, UndoneStep, AnswerStep, AttemptEndsStep DEF Transaction
  <2>3. CASE Event \/ Attempt
    BY <2>3, EventStep, AttemptStep
  <2>4. CASE Crash
    BY <2>4, CrashStep
  <2>5. CASE Boot
    BY <2>5, LoadStep, RestoreSavedStep, RestoreStep DEF Boot
  <2>6. ASSUME NEW e \in Entries, Die(e)
        PROVE  MutationInvariant'
    BY <2>6, DieStep
  <2>7. ASSUME NEW e \in Entries, BackgroundStep(e)
        PROVE  MutationInvariant'
    <3>1. /\ Stirring(e) /\ phase = "up"
          /\ UNCHANGED <<label, disk, phase, job, saver, flag, told, ack, lost>>
      BY <2>7, BackgroundFacts DEF MutationInvariant
    <3> QED
      BY <3>1, StirStep
  <2>8. CASE UNCHANGED vars
    BY <2>8, StutterStep
  <2> QED
    BY <2>1, <2>2, <2>3, <2>4, <2>5, <2>6, <2>7, <2>8 DEF Next, BackgroundStep
<1> QED
  BY <1>1, <1>2, PTL DEF Spec

(* DiskFollowsMemory: with no request under way and no persistence event   *)
(* waiting, the disk has the configuration, the process and the armed      *)
(* schedule that memory has of every entry, and the projects, unless a     *)
(* failure has been reported.                                              *)
THEOREM DiskAlwaysFollowsMemory == Spec => []DiskFollowsMemory
<1>1. MutationInvariant => DiskFollowsMemory
  BY DEF MutationInvariant, Sync, Fits, InSync, Dirty, DiskFollowsMemory, Quiet, Agree,
         Held, Kept
<1> QED
  BY <1>1, MutationInvariantHolds, PTL

(* RollbackRestores: a request refused because it could not be saved       *)
(* leaves configuration and projects as before, in memory and on disk, and *)
(* starts nothing that was stopped.                                        *)
THEOREM RefusalsRestore == Spec => []RollbackRestores
<1>1. MutationInvariant => RollbackRestores
  <2> SUFFICES ASSUME MutationInvariant, job.stage = "answer", job.answer = "refused"
               PROVE  /\ label = job.label /\ disk.label = label
                      /\ \A e \in job.done :
                           /\ Config(mem[e]) = Config(job.before[e])
                           /\ Config(disk.apps[e]) = Config(job.before[e])
                           /\ ~Active(job.before[e]) /\ ~job.before[e].desired =>
                                ~Shown(mem[e])
    BY DEF RollbackRestores
  <2>1. job.done \subseteq Entries
    BY DEF MutationInvariant, Types, Jobs
  <2>2. /\ label = job.label /\ disk.label = label
        /\ \A e \in job.done : Restored(e)
    BY DEF MutationInvariant, Rollback
  <2>3. \A e \in Entries : Config(disk.apps[e]) = Config(mem[e])
    BY DEF MutationInvariant, Acks
  <2> QED
    BY <2>1, <2>2, <2>3 DEF Restored, Dormant
<1> QED
  BY <1>1, MutationInvariantHolds, PTL

(* AcknowledgedSurvives: the configuration last acknowledged is the one in *)
(* force, across failures, crashes and restores.                           *)
THEOREM AcknowledgedStays == Spec => []AcknowledgedSurvives
<1>1. MutationInvariant => AcknowledgedSurvives
  BY DEF MutationInvariant, Course, Acks, Acked, Settled, AcknowledgedSurvives
<1> QED
  BY <1>1, MutationInvariantHolds, PTL

(* TreesAccounted: every process that runs is the one its entry holds, but *)
(* for those a crash lost before their save.                               *)
THEOREM TreesAlwaysAccounted == Spec => []TreesAccounted
<1>1. MutationInvariant => TreesAccounted
  BY DEF MutationInvariant, Accounted, TreesAccounted
<1> QED
  BY <1>1, MutationInvariantHolds, PTL
=============================================================================
