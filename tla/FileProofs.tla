------------------------------ MODULE FileProofs ------------------------------
(***************************************************************************)
(* Proofs about two components that keep what they are given in files.     *)
(* First ScriptFiles, for every finite set of extensions, every set of     *)
(* runs and any number of saves and faults; then LogFiles, for any number  *)
(* of lines, runs of the process, rotations, dates and errors.             *)
(***************************************************************************)
EXTENDS ScriptFiles, LogFiles, FiniteSetTheorems, SequenceTheorems, TLAPS

ScriptSpec == ScriptInit /\ [][ScriptNext]_scriptVars

-----------------------------------------------------------------------------
(* The inductive invariant.                                                *)

Places == {"write", "stage", "remove", "undo", "clean"}
SavesUnderWay == [pc : Places, ext : Exts, previous : SUBSET Exts, moved : Nat]

(* The bounds play no part: contents are numbers.                          *)
Typed ==
  /\ script \in [Exts -> Nat] /\ staged \subseteq Nat
  /\ snaps \in [Runs -> [content : Nat, due : Nat]]
  /\ save = NoSave \/ (save \in SavesUnderWay /\ saves > 0)
  /\ acked \in Nat /\ saves \in Nat /\ faults \in Nat

(* No file is older than what was acknowledged last, so a run of the only  *)
(* file is up to date.                                                     *)
Fresh ==
  /\ acked <= saves
  /\ \A e \in ListScripts : script[e] >= acked
  /\ \A r \in Runs : snaps[r].content >= snaps[r].due

Holds(contents) == acked # 0 => \E c \in contents : c >= acked

(* A save under way that still has to remove its own file has left what    *)
(* was acknowledged elsewhere.                                             *)
Elsewhere == {script[e] : e \in Exts \ {save.ext}} \union staged

(* What each step of a save finds.                                         *)
AtWrite ==
  save.pc = "write" =>
    /\ save.previous = ListScripts \ {save.ext}
    /\ save.previous # {} => save.ext \notin ListScripts
    /\ \A p, q \in save.previous : p = q

AtStage ==
  save.pc = "stage" =>
    /\ script[save.ext] = saves
    /\ \E p \in Exts \ {save.ext} :
         save.previous = {p} /\ ListScripts = {save.ext, p}

AtRemove ==
  save.pc \in {"remove", "undo"} =>
    /\ script[save.ext] = saves /\ ListScripts = {save.ext}
    /\ save.moved \in staged /\ save.moved >= acked
    /\ \E p \in Exts \ {save.ext} : save.previous = {p}

AtClean == save.pc = "clean" => Holds(Elsewhere)

(* Without a fault nothing is ambiguous and nothing is left aside.         *)
Tidy ==
  faults = 0 =>
    /\ save.pc \notin {"undo", "clean"}
    /\ staged \subseteq (IF save.pc = "remove" THEN {save.moved} ELSE {})
    /\ save.pc = "idle" => \A p, q \in ListScripts : p = q

Shape == AtWrite /\ AtStage /\ AtRemove /\ AtClean

IInv == /\ Typed /\ Fresh /\ Shape /\ Tidy
        /\ Holds({script[e] : e \in Exts} \union staged)

-----------------------------------------------------------------------------
(* A set with at most one element, without counting.                       *)
LEMMA AtMostOne ==
  ASSUME NEW S, IsFiniteSet(S)
  PROVE  Cardinality(S) <= 1 <=> \A p, q \in S : p = q
<1>1. Cardinality(S) \in Nat
  BY FS_CardinalityType
<1>2. ASSUME Cardinality(S) <= 1 PROVE \A p, q \in S : p = q
  <2>1. CASE Cardinality(S) = 0
    BY <2>1, FS_EmptySet
  <2>2. CASE Cardinality(S) = 1
    BY <2>2, FS_Singleton
  <2> QED BY <1>1, <1>2, <2>1, <2>2
<1>3. ASSUME \A p, q \in S : p = q PROVE Cardinality(S) <= 1
  <2>1. CASE S = {}
    BY <2>1, FS_EmptySet
  <2>2. CASE S # {}
    <3>1. PICK x : x \in S
      BY <2>2
    <3>2. S = {x}
      BY <1>3, <3>1
    <3> QED BY <3>2, FS_Singleton
  <2> QED BY <2>1, <2>2
<1> QED BY <1>2, <1>3

(* Files are among the extensions, so they can be counted.                 *)
LEMMA FilesFinite ==
  ASSUME IsFiniteSet(Exts)
  PROVE  /\ ListScripts \subseteq Exts /\ IsFiniteSet(ListScripts)
         /\ \A e : IsFiniteSet(Previous(e)) /\ Previous(e) = ListScripts \ {e}
<1>1. ListScripts \subseteq Exts
  BY DEF ListScripts
<1>2. \A T \in SUBSET Exts : IsFiniteSet(T)
  BY FS_Subset
<1> QED BY <1>1, <1>2 DEF Previous

LEMMA InitIInv == ScriptInit => IInv
<1> SUFFICES ASSUME ScriptInit PROVE IInv
  OBVIOUS
<1> USE DEF ScriptInit, NoSave
<1>1. save.pc = "idle" /\ ListScripts = {}
  <2>1. \A e \in Exts : script[e] = 0
    OBVIOUS
  <2> QED BY <2>1 DEF ListScripts
<1>2. Typed
  BY DEF Typed, NoRun
<1>3. Fresh
  BY <1>1 DEF Fresh, NoRun
<1>4. Shape
  BY <1>1 DEF Shape, AtWrite, AtStage, AtRemove, AtClean
<1>5. Tidy
  BY <1>1 DEF Tidy
<1> QED BY <1>2, <1>3, <1>4, <1>5 DEF IInv, Holds

(* The extension a save replaces, once it is known to be one.              *)
LEMMA OldIs ==
  ASSUME NEW p, save.previous = {p}
  PROVE  Old = p
BY DEF Old

(* The lock is free exactly when no save is under way.                     *)
LEMMA LockState ==
  ASSUME Typed
  PROVE  /\ Unlocked <=> save.pc = "idle"
         /\ save.pc # "idle" => save \in SavesUnderWay /\ saves > 0
BY DEF Typed, Unlocked, NoSave, SavesUnderWay, Places

(* A save ends: nothing is asked of its place any more.                    *)
LEMMA AnswerShape ==
  ASSUME Answer
  PROVE  Shape' /\ save'.pc = "idle"
BY DEF Answer, NoSave, Shape, AtWrite, AtStage, AtRemove, AtClean

-----------------------------------------------------------------------------
(* One lemma per action.                                                   *)

LEMMA SaveBegins ==
  ASSUME IInv, IsFiniteSet(Exts), NEW e \in Exts, SaveScript(e)
  PROVE  IInv'
<1> USE DEF SaveScript
<1>1. Typed /\ Fresh /\ Tidy /\ Unlocked /\ save.pc = "idle"
  BY LockState DEF IInv
<1>2. Previous(e) \subseteq Exts /\ Previous(e) = ListScripts \ {e}
  BY FilesFinite
<1>3. \A p, q \in Previous(e) : p = q
  BY AtMostOne, FilesFinite
<1>4. Typed'
  BY <1>1, <1>2 DEF Typed, SavesUnderWay, Places
<1>5. Fresh'
  BY <1>1 DEF Fresh, ListScripts, Typed
<1>6. Shape'
  <2>1. AtWrite'
    BY <1>2, <1>3 DEF AtWrite, ListScripts
  <2> QED BY <2>1 DEF Shape, AtStage, AtRemove, AtClean
<1>7. Tidy'
  BY <1>1 DEF Tidy
<1> QED BY <1>4, <1>5, <1>6, <1>7 DEF IInv, Holds

LEMMA Writes ==
  ASSUME IInv, WriteWithBackup
  PROVE  IInv'
<1> DEFINE x == save.ext
<1>1. Typed /\ Fresh /\ AtWrite /\ Tidy /\ save.pc = "write"
  BY DEF IInv, Shape, WriteWithBackup
<1>2. save \in SavesUnderWay /\ x \in Exts /\ saves > 0
  BY <1>1, LockState DEF SavesUnderWay
<1>3. CASE script' = [script EXCEPT ![x] = saves] /\ Answer
           /\ UNCHANGED <<staged, snaps, saves>>
           /\ \/ save.previous = {} /\ Fine /\ acked' = saves
              \/ Fault /\ acked' = acked
  <2>1. ListScripts' = ListScripts \union {x}
    BY <1>1, <1>2, <1>3 DEF ListScripts, Typed
  <2>2. Typed'
    BY <1>1, <1>2, <1>3 DEF Typed, Answer, Fine, Fault
  <2>3. Fresh'
    <3>1. CASE acked' = acked
      BY <1>1, <1>2, <1>3, <2>1, <3>1 DEF Fresh, Typed, ListScripts
    <3>2. CASE save.previous = {} /\ acked' = saves
      <4>1. ListScripts' = {x}
        BY <1>1, <2>1, <3>2 DEF AtWrite
      <4> QED BY <1>1, <1>2, <1>3, <3>2, <4>1 DEF Fresh, Typed
    <3> QED BY <1>3, <3>1, <3>2
  <2>4. Tidy'
    BY <1>1, <1>3, <2>1, AnswerShape DEF Tidy, AtWrite, Fine, Fault, Typed
  <2>5. Holds({script[e] : e \in Exts} \union staged)'
    <3>1. script'[x] = saves /\ acked' <= saves /\ saves \in Nat
      BY <1>1, <1>2, <1>3 DEF Fresh, Typed
    <3> QED BY <1>2, <3>1 DEF Holds
  <2> QED BY <1>3, <2>2, <2>3, <2>4, <2>5, AnswerShape DEF IInv
<1>4. CASE script' = [script EXCEPT ![x] = saves] /\ Goto("stage")
           /\ UNCHANGED <<staged, snaps, saves, acked, faults>>
           /\ save.previous # {}
  <2>1. PICK p \in Exts \ {x} : save.previous = {p} /\ ListScripts = {p}
    <3>1. PICK p : p \in save.previous
      BY <1>4
    <3>2. save.previous = {p} /\ ListScripts = {p} /\ p # x
      BY <1>1, <1>4, <3>1 DEF AtWrite
    <3> QED BY <1>2, <3>1, <3>2 DEF SavesUnderWay
  <2>2. ListScripts' = {x, p}
    BY <1>1, <1>2, <1>4, <2>1 DEF ListScripts, Typed
  <2>3. save' = [save EXCEPT !.pc = "stage"] /\ save' \in SavesUnderWay
        /\ save'.pc = "stage" /\ save'.ext = x /\ save'.previous = {p}
    BY <1>2, <1>4, <2>1 DEF Goto, SavesUnderWay, Places
  <2>4. Typed'
    BY <1>1, <1>2, <1>4, <2>3 DEF Typed
  <2>5. Fresh'
    BY <1>1, <1>2, <1>4, <2>1, <2>2 DEF Fresh, Typed
  <2>6. Shape'
    BY <1>1, <1>2, <1>4, <2>1, <2>2, <2>3
    DEF Shape, AtWrite, AtStage, AtRemove, AtClean, Typed
  <2>7. Tidy'
    BY <1>1, <1>4, <2>3 DEF Tidy
  <2>8. Holds({script[e] : e \in Exts} \union staged)'
    <3>1. script'[x] = saves /\ acked' <= saves /\ saves \in Nat
      BY <1>1, <1>2, <1>4 DEF Fresh, Typed
    <3> QED BY <1>2, <3>1 DEF Holds
  <2> QED BY <2>4, <2>5, <2>6, <2>7, <2>8 DEF IInv
<1>5. CASE Fault /\ Answer /\ UNCHANGED <<script, staged, snaps, saves, acked>>
  <2>1. Typed'
    BY <1>1, <1>5 DEF Typed, Answer, Fault
  <2>2. Fresh'
    BY <1>1, <1>5 DEF Fresh, ListScripts
  <2>3. Tidy'
    BY <1>1, <1>5 DEF Tidy, Fault, Typed
  <2>4. Holds({script[e] : e \in Exts} \union staged)'
    BY <1>5 DEF IInv, Holds
  <2> QED BY <1>5, <2>1, <2>2, <2>3, <2>4, AnswerShape DEF IInv
<1>6. CASE Fault /\ Answer /\ UNCHANGED <<staged, snaps, saves, acked>>
           /\ script' \in {script, [script EXCEPT ![x] = saves]}
  <2>1. CASE script' = script
    BY <1>5, <1>6, <2>1
  <2>2. CASE script' = [script EXCEPT ![x] = saves]
    BY <1>3, <1>6, <2>2
  <2> QED BY <1>6, <2>1, <2>2
<1>7. CASE Fine /\ script' = [script EXCEPT ![x] = saves]
           /\ UNCHANGED <<staged, snaps, saves>>
           /\ IF save.previous = {} THEN Answer /\ acked' = saves
              ELSE Goto("stage") /\ UNCHANGED acked
  <2>1. CASE save.previous = {}
    BY <1>3, <1>7, <2>1 DEF Answer, Fine
  <2>2. CASE save.previous # {}
    BY <1>4, <1>7, <2>2 DEF Fine
  <2> QED BY <2>1, <2>2
<1> QED BY <1>6, <1>7 DEF WriteWithBackup

LEMMA Stages ==
  ASSUME IInv, StagePrevious
  PROVE  IInv'
<1> DEFINE x == save.ext
<1>1. /\ Typed /\ Fresh /\ AtStage /\ Tidy /\ save.pc = "stage"
      /\ save \in SavesUnderWay /\ x \in Exts /\ saves > 0
  BY LockState DEF IInv, Shape, StagePrevious, SavesUnderWay
<1>2. PICK p \in Exts \ {x} : /\ save.previous = {p} /\ ListScripts = {x, p}
                              /\ Old = p
  BY <1>1, OldIs DEF AtStage
<1>3. script[x] = saves /\ script[p] # 0 /\ script[p] >= acked /\ script[p] \in Nat
  BY <1>1, <1>2 DEF AtStage, Fresh, ListScripts, Typed
<1>4. CASE /\ script' = [script EXCEPT ![p] = 0] /\ Fine
           /\ staged' = staged \union {script[p]}
           /\ save' = [save EXCEPT !.pc = "remove", !.moved = script[p]]
           /\ UNCHANGED <<snaps, saves, acked>>
  <2>1. ListScripts' = {x} /\ script'[x] = saves
    BY <1>1, <1>2, <1>3, <1>4 DEF ListScripts, Typed
  <2>2. save' \in SavesUnderWay /\ save'.pc = "remove" /\ save'.ext = x
        /\ save'.previous = {p} /\ save'.moved = script[p]
    BY <1>1, <1>2, <1>3, <1>4 DEF SavesUnderWay, Places
  <2>3. Typed'
    BY <1>1, <1>2, <1>3, <1>4, <2>2 DEF Typed, Fine
  <2>4. Fresh'
    BY <1>1, <1>4, <2>1 DEF Fresh, Typed
  <2>5. Shape'
    BY <1>2, <1>3, <1>4, <2>1, <2>2 DEF Shape, AtWrite, AtStage, AtRemove, AtClean
  <2>6. Tidy'
    BY <1>1, <1>4, <2>2 DEF Tidy, Fine
  <2>7. Holds({script[e] : e \in Exts} \union staged)'
    BY <1>3, <1>4 DEF Holds
  <2> QED BY <2>3, <2>4, <2>5, <2>6, <2>7 DEF IInv
<1>5. CASE Fault /\ Goto("clean") /\ UNCHANGED <<script, staged, snaps, saves, acked>>
  <2>1. save' \in SavesUnderWay /\ save'.pc = "clean" /\ save'.ext = x
    BY <1>1, <1>5 DEF Goto, SavesUnderWay, Places
  <2>2. Typed'
    BY <1>1, <1>5, <2>1 DEF Typed, Fault
  <2>3. Fresh'
    BY <1>1, <1>5 DEF Fresh, ListScripts
  <2>4. Shape'
    <3>1. Holds(Elsewhere)'
      BY <1>2, <1>3, <1>5, <2>1 DEF Holds, Elsewhere
    <3> QED BY <2>1, <3>1 DEF Shape, AtWrite, AtStage, AtRemove, AtClean
  <2>5. Tidy'
    BY <1>1, <1>5 DEF Tidy, Fault, Typed
  <2>6. Holds({script[e] : e \in Exts} \union staged)'
    BY <1>5 DEF IInv, Holds
  <2> QED BY <2>2, <2>3, <2>4, <2>5, <2>6 DEF IInv
<1> QED BY <1>2, <1>4, <1>5 DEF StagePrevious

LEMMA Removes ==
  ASSUME IInv, RemoveStaged
  PROVE  IInv'
<1> DEFINE x == save.ext
<1>1. /\ Typed /\ Fresh /\ AtRemove /\ Tidy /\ save.pc = "remove"
      /\ save \in SavesUnderWay /\ x \in Exts /\ saves > 0
  BY LockState DEF IInv, Shape, RemoveStaged, SavesUnderWay
<1>2. script[x] = saves /\ ListScripts = {x}
  BY <1>1 DEF AtRemove
<1>3. CASE /\ Fine /\ staged' = staged \ {save.moved} /\ Answer /\ acked' = saves
           /\ UNCHANGED <<script, snaps, saves>>
  <2>1. Typed'
    BY <1>1, <1>3 DEF Typed, Answer, Fine
  <2>2. Fresh'
    BY <1>1, <1>2, <1>3 DEF Fresh, ListScripts, Typed
  <2>3. Tidy'
    BY <1>1, <1>2, <1>3, AnswerShape DEF Tidy, Fine, ListScripts
  <2>4. Holds({script[e] : e \in Exts} \union staged)'
    BY <1>1, <1>2, <1>3 DEF Holds, Typed
  <2> QED BY <1>3, <2>1, <2>2, <2>3, <2>4, AnswerShape DEF IInv
<1>4. CASE Fault /\ Goto("undo") /\ UNCHANGED <<script, staged, snaps, saves, acked>>
  <2>1. /\ save' \in SavesUnderWay /\ save'.pc = "undo" /\ save'.ext = x
        /\ save'.previous = save.previous /\ save'.moved = save.moved
    BY <1>1, <1>4 DEF Goto, SavesUnderWay, Places
  <2>2. Typed'
    BY <1>1, <1>4, <2>1 DEF Typed, Fault
  <2>3. Fresh'
    BY <1>1, <1>4 DEF Fresh, ListScripts
  <2>4. Shape'
    BY <1>1, <1>4, <2>1 DEF Shape, AtWrite, AtStage, AtRemove, AtClean, ListScripts
  <2>5. Tidy'
    BY <1>1, <1>4 DEF Tidy, Fault, Typed
  <2>6. Holds({script[e] : e \in Exts} \union staged)'
    BY <1>4 DEF IInv, Holds
  <2> QED BY <2>2, <2>3, <2>4, <2>5, <2>6 DEF IInv
<1> QED BY <1>3, <1>4 DEF RemoveStaged

(* However the previous file comes back, or stays aside, it is kept.       *)
LEMMA Restores ==
  ASSUME IInv, RestorePrevious
  PROVE  IInv'
<1> DEFINE x == save.ext
<1>1. /\ Typed /\ Fresh /\ AtRemove /\ Tidy /\ save.pc = "undo"
      /\ save \in SavesUnderWay /\ x \in Exts /\ save.moved \in Nat /\ saves > 0
  BY LockState DEF IInv, Shape, RestorePrevious, SavesUnderWay
<1>2. PICK p \in Exts \ {x} : save.previous = {p} /\ Old = p
  BY <1>1, OldIs DEF AtRemove
<1>3. save' \in SavesUnderWay /\ save'.pc = "clean" /\ save'.ext = x
  BY <1>1 DEF RestorePrevious, Goto, SavesUnderWay, Places
<1>4. \/ Fine /\ staged' = staged \ {save.moved}
              /\ script' = [script EXCEPT ![p] = save.moved]
      \/ Fault /\ UNCHANGED <<script, staged>>
  BY <1>2 DEF RestorePrevious
<1>5. UNCHANGED <<snaps, saves, acked>> /\ faults # 0 /\ faults' # 0
  BY <1>1, <1>4 DEF RestorePrevious, Tidy, Fine, Fault, Typed
<1>6. Typed'
  <2>1. script' \in [Exts -> Nat] /\ staged' \subseteq Nat /\ faults' \in Nat
    <3>1. CASE /\ Fine /\ staged' = staged \ {save.moved}
               /\ script' = [script EXCEPT ![p] = save.moved]
      BY <1>1, <3>1 DEF Typed, Fine
    <3>2. CASE Fault /\ UNCHANGED <<script, staged>>
      BY <1>1, <3>2 DEF Typed, Fault
    <3> QED BY <1>4, <3>1, <3>2
  <2> QED BY <1>1, <1>3, <1>5, <2>1 DEF Typed
<1>7. Fresh'
  BY <1>1, <1>2, <1>4, <1>5 DEF Fresh, AtRemove, ListScripts, Typed
<1>8. Holds(Elsewhere)'
  <2>1. save.moved >= acked /\ save.moved \in Elsewhere'
    BY <1>1, <1>2, <1>3, <1>4 DEF AtRemove, Elsewhere, Typed
  <2> QED BY <1>5, <2>1 DEF Holds
<1>9. Shape'
  BY <1>3, <1>8 DEF Shape, AtWrite, AtStage, AtRemove, AtClean
<1>10. Holds({script[e] : e \in Exts} \union staged)'
  BY <1>8 DEF Holds, Elsewhere
<1> QED BY <1>5, <1>6, <1>7, <1>9, <1>10 DEF IInv, Tidy

LEMMA Cleans ==
  ASSUME IInv, CleanReplacement
  PROVE  IInv'
<1> DEFINE x == save.ext
<1>1. /\ Typed /\ Fresh /\ AtClean /\ Tidy /\ save.pc = "clean"
      /\ x \in Exts /\ Answer /\ UNCHANGED <<staged, snaps, saves, acked>>
  BY LockState DEF IInv, Shape, CleanReplacement, SavesUnderWay
<1>2. \/ Fine /\ script' = [script EXCEPT ![x] = 0]
      \/ Fault /\ UNCHANGED script
  BY DEF CleanReplacement
<1>3. faults' # 0
  BY <1>1, <1>2 DEF Tidy, Fine, Fault, Typed
<1>4. Typed'
  BY <1>1, <1>2 DEF Typed, Answer, Fine, Fault
<1>5. Fresh'
  BY <1>1, <1>2 DEF Fresh, ListScripts, Typed
<1>6. Holds({script[e] : e \in Exts} \union staged)'
  <2>1. \A e \in Exts \ {x} : script'[e] = script[e]
    BY <1>1, <1>2 DEF Typed
  <2> QED BY <1>1, <2>1 DEF Holds, AtClean, Elsewhere
<1> QED BY <1>1, <1>3, <1>4, <1>5, <1>6, AnswerShape DEF IInv, Tidy

LEMMA Deletes ==
  ASSUME IInv, NEW e \in Exts, DeleteScript(e)
  PROVE  IInv'
<1> USE DEF DeleteScript
<1>1. Typed /\ Fresh /\ Tidy /\ save.pc = "idle"
  BY LockState DEF IInv
<1>2. Typed'
  BY <1>1 DEF Typed
<1>3. ListScripts' = {}
  BY <1>1 DEF FindScriptPath, ListScripts, Typed
<1>4. Fresh'
  BY <1>1, <1>3 DEF Fresh, Typed
<1>5. Shape'
  BY <1>1 DEF Shape, AtWrite, AtStage, AtRemove, AtClean
<1>6. Tidy'
  BY <1>1, <1>3 DEF Tidy
<1> QED BY <1>2, <1>4, <1>5, <1>6 DEF IInv, Holds

(* Runs and the end of the daemon leave the files alone.                   *)
LEMMA FilesAlone ==
  ASSUME IInv, UNCHANGED <<script, staged, acked, saves>>, Typed',
         \A r \in Runs : snaps'[r].content >= snaps'[r].due,
         \/ save' = save /\ faults' = faults
         \/ Answer /\ faults' # 0
  PROVE  IInv'
<1>1. Fresh'
  BY DEF IInv, Fresh, ListScripts
<1>2. Shape'
  <2>1. CASE save' = save
    BY <2>1 DEF IInv, Shape, AtWrite, AtStage, AtRemove, AtClean, ListScripts,
                Elsewhere, Holds
  <2> QED BY <2>1, AnswerShape
<1>3. Tidy'
  BY DEF IInv, Tidy, ListScripts
<1>4. Holds({script[e] : e \in Exts} \union staged)'
  BY DEF IInv, Holds
<1> QED BY <1>1, <1>2, <1>3, <1>4 DEF IInv

LEMMA RunsAndCrashes ==
  ASSUME IInv,
         \/ \E r \in Runs : DropSnapshot(r) \/ \E e \in Exts : CreateScriptSnapshot(r, e)
         \/ ScriptCrash
  PROVE  IInv'
<1>1. Typed /\ Fresh
  BY DEF IInv
<1>2. ASSUME NEW r \in Runs, NEW e \in Exts, CreateScriptSnapshot(r, e) PROVE IInv'
  <2>1. script[e] \in Nat /\ script[e] >= acked
    BY <1>1, <1>2 DEF CreateScriptSnapshot, FindScriptPath, Fresh, Typed
  <2>2. Typed'
    BY <1>1, <1>2, <2>1 DEF CreateScriptSnapshot, Typed
  <2>3. \A q \in Runs : snaps'[q].content >= snaps'[q].due
    BY <1>1, <1>2, <2>1 DEF CreateScriptSnapshot, Fresh, Typed
  <2> QED BY <1>2, <2>2, <2>3, FilesAlone DEF CreateScriptSnapshot
<1>3. ASSUME NEW r \in Runs, DropSnapshot(r) PROVE IInv'
  <2>1. Typed'
    BY <1>1, <1>3 DEF DropSnapshot, Typed, NoRun
  <2>2. \A q \in Runs : snaps'[q].content >= snaps'[q].due
    BY <1>1, <1>3 DEF DropSnapshot, Fresh, Typed, NoRun
  <2> QED BY <1>3, <2>1, <2>2, FilesAlone DEF DropSnapshot
<1>4. CASE ScriptCrash
  <2>1. Typed' /\ faults' # 0
    BY <1>1, <1>4 DEF ScriptCrash, Typed, NoRun, Answer, Fault
  <2>2. \A q \in Runs : snaps'[q].content >= snaps'[q].due
    BY <1>4 DEF ScriptCrash, NoRun
  <2> QED BY <1>4, <2>1, <2>2, FilesAlone DEF ScriptCrash
<1> QED BY <1>2, <1>3, <1>4

-----------------------------------------------------------------------------
(* Theorems.                                                               *)

LEMMA NextIInv ==
  ASSUME IsFiniteSet(Exts), IInv, [ScriptNext]_scriptVars
  PROVE  IInv'
<1>1. CASE UNCHANGED scriptVars
  BY <1>1 DEF scriptVars, IInv, Typed, Fresh, Shape, AtWrite, AtStage, AtRemove,
              AtClean, Tidy, Holds, Elsewhere, ListScripts
<1>2. CASE ScriptNext
  BY <1>2, SaveBegins, Writes, Stages, Removes, Restores, Cleans, Deletes,
     RunsAndCrashes DEF ScriptNext
<1> QED BY <1>1, <1>2

(* No acknowledged save of a script is lost to a later one that fails or is *)
(* cut off, nothing but a fault leaves a name ambiguous, and no run executes *)
(* a script older than what was acknowledged before it: for every finite    *)
(* set of languages, any number of runs, saves and faults.                  *)
THEOREM ScriptsNeverLost ==
  ASSUME IsFiniteSet(Exts)
  PROVE  ScriptSpec => []ScriptsKept
<1>1. IInv => ScriptsKept
  <2> SUFFICES ASSUME IInv PROVE ScriptsKept
    OBVIOUS
  <2>1. Unlocked /\ faults = 0 => Cardinality(ListScripts) <= 1 /\ staged = {}
    BY LockState, AtMostOne, FilesFinite DEF IInv, Tidy
  <2> QED BY <2>1 DEF IInv, Fresh, Holds, ScriptsKept
<1> QED BY <1>1, InitIInv, NextIInv, PTL DEF ScriptSpec

-----------------------------------------------------------------------------
(* The log files: the types.  0 stands for no line and for no file.        *)
LineNumbers == Nat \ {0}
Files == Inodes \cup {0}
WriterRecords == [inode : Files, written : Nat, queue : Seq(LineNumbers), job : Nat,
                  turn : 0 .. MaxDates]

FileTypes == /\ log \in Files /\ numbered \in [1 .. MaxFiles -> Files]
             /\ dated \in [1 .. MaxDates -> Files] /\ dir \in BOOLEAN
             /\ inodes \in Nat
DataType == data \in [Inodes -> Seq(LineNumbers)]
WriterType == writers \in [Writers -> WriterRecords]
StateTypes == /\ phase \in {"down", "up", "claimed"} /\ live \in Writers \cup {0}
              /\ deletion \in {"none", "asked", "done"} /\ printed \in Nat
              /\ today \in 1 .. MaxDates /\ beside \in BOOLEAN /\ errors \in Nat
LogTypes == FileTypes /\ DataType /\ WriterType /\ StateTypes

(* What has a name was created; what was not created is empty; out.log has *)
(* no second name, and without the directory there is no out.log.          *)
FilesNamed ==
  /\ \A i \in Named : i <= inodes
  /\ \A i \in Inodes : i > inodes => data[i] = <<>>
  /\ log # 0 => /\ \A k \in 1 .. MaxFiles : numbered[k] # log
                /\ \A d \in 1 .. MaxDates : dated[d] # log
  /\ ~dir => log = 0

(* Writers are used in order; only that of the running process receives.   *)
WritersInOrder ==
  /\ \A w \in Writers : /\ writers[w].inode <= inodes
                        /\ writers[w].inode = 0 => writers[w] = Closed
                        /\ writers[w].queue # <<>> => live = w
                        /\ \A v \in Writers : v < w /\ writers[w].inode # 0 =>
                             writers[v].inode # 0
  /\ live # 0 => writers[live].inode # 0

(* No line was numbered beyond those printed.                              *)
LinesNumbered ==
  /\ \A w \in Writers : /\ writers[w].job <= printed
                        /\ \A n \in LinesOf(writers[w].queue) : n <= printed
  /\ \A i \in Inodes : \A n \in LinesOf(data[i]) : n <= printed

Accounted ==
  \A n \in 1 .. printed : n \in lost \/ Pending(n) \/ Holding(n) # {}

(* Each line is in one place.                                              *)
Unwritten(n) == \A i \in Named \ {0} : n \notin LinesOf(data[i])
JobsUnwritten == \A w \in Writers : writers[w].job # 0 => Unwritten(writers[w].job)
JobsOnce ==
  \A w, v \in Writers : writers[w].job # 0 =>
    /\ writers[w].job \notin LinesOf(writers[v].queue)
    /\ v # w => writers[v].job # writers[w].job
QueuesUnwritten == \A w \in Writers : \A n \in LinesOf(writers[w].queue) : Unwritten(n)
FilesApart ==
  \A i, j \in Named \ {0} : i # j => LinesOf(data[i]) \cap LinesOf(data[j]) = {}
OnePlace == errors = 0 => JobsUnwritten /\ JobsOnce /\ QueuesUnwritten /\ FilesApart

(* As long as no writer met the last job of another, the last writer is    *)
(* the only one with anything to do, and its file is out.log unless that   *)
(* was deleted or a rotation failed after its last rename.                 *)
Last(w) == writers[w].inode # 0 /\ \A v \in Writers : v > w => writers[v].inode = 0
Alone ==
  ~beside => \A w \in Writers :
    /\ writers[w].job # 0 \/ writers[w].turn # 0 \/ live = w => Last(w)
    /\ Last(w) => \/ writers[w].inode = log
                  \/ log = 0 /\ errors # 0 /\ writers[w].inode \in Named
                  \/ deletion # "none" /\ writers[w].inode \notin Named

(* The order of printing: within the queue and the files, from the files   *)
(* to the job and on to the queue, and from the dated files to out.log.    *)
Sorted(s) == \A a, b \in DOMAIN s : a < b => s[a] < s[b]
Below(s, t) == \A n \in s, m \in t : n < m
QueuesSorted == \A w \in Writers : Sorted(writers[w].queue)
FilesSorted == \A i \in Named \ {0} : Sorted(data[i])
FilesBeforeQueues ==
  \A w \in Writers : \A i \in Named \ {0} :
    Below(LinesOf(data[i]), LinesOf(writers[w].queue))
JobsBetween ==
  \A w \in Writers : writers[w].job # 0 =>
    /\ Below({writers[w].job}, LinesOf(writers[w].queue))
    /\ \A i \in Named \ {0} : Below(LinesOf(data[i]), {writers[w].job})
DatesBeforeLog ==
  \A d \in 1 .. MaxDates : dated[d] # 0 /\ log # 0 =>
    Below(LinesOf(data[dated[d]]), LinesOf(data[log]))
InOrder ==
  /\ QueuesSorted
  /\ errors = 0 /\ ~beside =>
       FilesSorted /\ FilesBeforeQueues /\ JobsBetween /\ DatesBeforeLog

LogInv == /\ FilesNamed /\ WritersInOrder /\ LinesNumbered /\ Accounted /\ OnePlace
          /\ Alone /\ InOrder

-----------------------------------------------------------------------------
(* Sequences of lines.                                                     *)
LEMMA LinesOfNone == LinesOf(<<>>) = {} /\ Sorted(<<>>)
  BY DEF LinesOf, Sorted

LEMMA LinesOfOne ==
  ASSUME NEW n \in LineNumbers
  PROVE  <<n>> \in Seq(LineNumbers) /\ LinesOf(<<n>>) = {n} /\ Sorted(<<n>>)
<1>1. DOMAIN <<n>> = {1} /\ <<n>>[1] = n
  OBVIOUS
<1>2. LinesOf(<<n>>) = {n}
  BY <1>1 DEF LinesOf
<1>3. Sorted(<<n>>)
  BY <1>1 DEF Sorted
<1> QED BY <1>2, <1>3

LEMMA LinesOfAppend ==
  ASSUME NEW s \in Seq(LineNumbers), NEW n \in LineNumbers
  PROVE  /\ Append(s, n) \in Seq(LineNumbers)
         /\ LinesOf(Append(s, n)) = LinesOf(s) \cup {n}
         /\ Sorted(s) /\ Below(LinesOf(s), {n}) => Sorted(Append(s, n))
<1>1. /\ Append(s, n) \in Seq(LineNumbers) /\ DOMAIN s = 1 .. Len(s)
      /\ Len(s) \in Nat
      /\ DOMAIN Append(s, n) = 1 .. (Len(s) + 1)
      /\ \A i \in 1 .. Len(s) : Append(s, n)[i] = s[i]
      /\ Append(s, n)[Len(s) + 1] = n
  BY AppendProperties
<1> DEFINE t == Append(s, n)
<1> HIDE DEF t
<1>2. /\ t \in Seq(LineNumbers) /\ DOMAIN t = 1 .. (Len(s) + 1)
      /\ \A i \in 1 .. Len(s) : t[i] = s[i]
      /\ t[Len(s) + 1] = n
  BY <1>1 DEF t
<1>3. LinesOf(t) = LinesOf(s) \cup {n}
  <2>1. ASSUME NEW m \in LinesOf(t) PROVE m \in LinesOf(s) \cup {n}
    <3>1. PICK i \in 1 .. (Len(s) + 1) : m = t[i]
      BY <1>2 DEF LinesOf
    <3>2. CASE i = Len(s) + 1
      BY <3>1, <3>2, <1>2
    <3>3. CASE i \in 1 .. Len(s)
      BY <3>1, <3>3, <1>2, <1>1 DEF LinesOf
    <3> QED BY <3>2, <3>3, <1>1
  <2>2. ASSUME NEW m \in LinesOf(s) PROVE m \in LinesOf(t)
    <3>1. PICK i \in 1 .. Len(s) : m = s[i]
      BY <1>1 DEF LinesOf
    <3>2. i \in 1 .. (Len(s) + 1) /\ m = t[i]
      BY <3>1, <1>1, <1>2
    <3> QED BY <3>2, <1>2 DEF LinesOf
  <2>3. n \in LinesOf(t)
    <3>1. Len(s) + 1 \in 1 .. (Len(s) + 1)
      BY <1>1
    <3> QED BY <3>1, <1>2 DEF LinesOf
  <2> QED BY <2>1, <2>2, <2>3
<1>4. ASSUME Sorted(s), Below(LinesOf(s), {n}) PROVE Sorted(t)
  <2>1. \A i \in 1 .. Len(s) : s[i] < n
    BY <1>4, <1>1 DEF Below, LinesOf
  <2>2. \A i, j \in 1 .. Len(s) : i < j => s[i] < s[j]
    BY <1>4, <1>1 DEF Sorted
  <2>3. ASSUME NEW i \in 1 .. (Len(s) + 1), NEW j \in 1 .. (Len(s) + 1), i < j
        PROVE  t[i] < t[j]
    <3>1. i \in 1 .. Len(s)
      BY <2>3, <1>1
    <3>2. CASE j = Len(s) + 1
      BY <3>1, <3>2, <2>1, <1>2
    <3>3. CASE j \in 1 .. Len(s)
      BY <3>1, <3>3, <2>2, <2>3, <1>2
    <3> QED BY <3>2, <3>3, <1>1
  <2> QED BY <2>3, <1>2 DEF Sorted
<1> QED BY <1>2, <1>3, <1>4 DEF t

LEMMA LinesOfTail ==
  ASSUME NEW s \in Seq(LineNumbers), s # <<>>
  PROVE  /\ Head(s) \in LineNumbers /\ Tail(s) \in Seq(LineNumbers)
         /\ LinesOf(s) = {Head(s)} \cup LinesOf(Tail(s))
         /\ Sorted(s) => Sorted(Tail(s)) /\ Below({Head(s)}, LinesOf(Tail(s)))
<1>1. /\ Len(s) \in Nat /\ Len(s) > 0 /\ DOMAIN s = 1 .. Len(s)
      /\ Head(s) = s[1] /\ Head(s) \in LineNumbers
      /\ Tail(s) \in Seq(LineNumbers) /\ Len(Tail(s)) = Len(s) - 1
      /\ \A i \in 1 .. (Len(s) - 1) : Tail(s)[i] = s[i + 1]
  BY HeadTailProperties, EmptySeq, LenProperties
<1>2. DOMAIN Tail(s) = 1 .. (Len(s) - 1)
  BY <1>1, LenProperties
<1> DEFINE t == Tail(s)
<1> HIDE DEF t
<1>3. /\ t \in Seq(LineNumbers) /\ DOMAIN t = 1 .. (Len(s) - 1)
      /\ \A i \in 1 .. (Len(s) - 1) : t[i] = s[i + 1]
  BY <1>1, <1>2 DEF t
<1>4. LinesOf(s) = {s[1]} \cup LinesOf(t)
  <2>1. ASSUME NEW m \in LinesOf(s) PROVE m \in {s[1]} \cup LinesOf(t)
    <3>1. PICK i \in 1 .. Len(s) : m = s[i]
      BY <1>1 DEF LinesOf
    <3>2. CASE i = 1
      BY <3>1, <3>2
    <3>3. CASE i # 1
      <4>1. i - 1 \in 1 .. (Len(s) - 1) /\ (i - 1) + 1 = i
        BY <3>3, <1>1
      <4> QED BY <4>1, <3>1, <1>3 DEF LinesOf
    <3> QED BY <3>2, <3>3
  <2>2. ASSUME NEW m \in LinesOf(t) PROVE m \in LinesOf(s)
    <3>1. PICK i \in 1 .. (Len(s) - 1) : m = t[i]
      BY <1>3 DEF LinesOf
    <3>2. i + 1 \in 1 .. Len(s) /\ m = s[i + 1]
      BY <3>1, <1>1, <1>3
    <3> QED BY <3>2, <1>1 DEF LinesOf
  <2>3. s[1] \in LinesOf(s)
    <3>1. 1 \in 1 .. Len(s)
      BY <1>1
    <3> QED BY <3>1, <1>1 DEF LinesOf
  <2> QED BY <2>1, <2>2, <2>3
<1>5. ASSUME Sorted(s) PROVE Sorted(t) /\ Below({s[1]}, LinesOf(t))
  <2>1. \A i, j \in 1 .. Len(s) : i < j => s[i] < s[j]
    BY <1>5, <1>1 DEF Sorted
  <2>2. ASSUME NEW i \in 1 .. (Len(s) - 1), NEW j \in 1 .. (Len(s) - 1), i < j
        PROVE  t[i] < t[j]
    <3>1. i + 1 \in 1 .. Len(s) /\ j + 1 \in 1 .. Len(s) /\ i + 1 < j + 1
      BY <2>2, <1>1
    <3> QED BY <3>1, <2>1, <1>3
  <2>3. ASSUME NEW i \in 1 .. (Len(s) - 1) PROVE s[1] < t[i]
    <3>1. i + 1 \in 1 .. Len(s) /\ 1 \in 1 .. Len(s) /\ 1 < i + 1
      BY <1>1
    <3> QED BY <3>1, <2>1, <1>3
  <2>4. Sorted(t)
    BY <2>2, <1>3 DEF Sorted
  <2>5. Below({s[1]}, LinesOf(t))
    BY <2>3, <1>3 DEF Below, LinesOf
  <2> QED BY <2>4, <2>5
<1> QED BY <1>1, <1>4, <1>5 DEF t

LEMMA LinesOfJoin ==
  ASSUME NEW s \in Seq(LineNumbers), NEW r \in Seq(LineNumbers)
  PROVE  /\ s \o r \in Seq(LineNumbers)
         /\ LinesOf(s \o r) = LinesOf(s) \cup LinesOf(r)
         /\ Sorted(s) /\ Sorted(r) /\ Below(LinesOf(s), LinesOf(r)) => Sorted(s \o r)
<1>1. /\ s \o r \in Seq(LineNumbers) /\ Len(s \o r) = Len(s) + Len(r)
      /\ \A i \in 1 .. (Len(s) + Len(r)) :
           (s \o r)[i] = IF i <= Len(s) THEN s[i] ELSE r[i - Len(s)]
      /\ Len(s) \in Nat /\ Len(r) \in Nat
      /\ DOMAIN s = 1 .. Len(s) /\ DOMAIN r = 1 .. Len(r)
  BY ConcatProperties, LenProperties
<1>2. DOMAIN (s \o r) = 1 .. (Len(s) + Len(r))
  BY <1>1, LenProperties
<1> DEFINE t == s \o r
<1> HIDE DEF t
<1>3. /\ t \in Seq(LineNumbers) /\ DOMAIN t = 1 .. (Len(s) + Len(r))
      /\ \A i \in 1 .. (Len(s) + Len(r)) :
           t[i] = IF i <= Len(s) THEN s[i] ELSE r[i - Len(s)]
  BY <1>1, <1>2 DEF t
<1>4. LinesOf(t) = LinesOf(s) \cup LinesOf(r)
  <2>1. ASSUME NEW m \in LinesOf(t) PROVE m \in LinesOf(s) \cup LinesOf(r)
    <3>1. PICK i \in 1 .. (Len(s) + Len(r)) : m = t[i]
      BY <1>3 DEF LinesOf
    <3>2. CASE i <= Len(s)
      <4>1. i \in 1 .. Len(s) /\ m = s[i]
        BY <3>1, <3>2, <1>1, <1>3
      <4> QED BY <4>1, <1>1 DEF LinesOf
    <3>3. CASE ~(i <= Len(s))
      <4>1. i - Len(s) \in 1 .. Len(r) /\ m = r[i - Len(s)]
        BY <3>1, <3>3, <1>1, <1>3
      <4> QED BY <4>1, <1>1 DEF LinesOf
    <3> QED BY <3>2, <3>3
  <2>2. ASSUME NEW m \in LinesOf(s) PROVE m \in LinesOf(t)
    <3>1. PICK i \in 1 .. Len(s) : m = s[i]
      BY <1>1 DEF LinesOf
    <3>2. i \in 1 .. (Len(s) + Len(r)) /\ m = t[i]
      BY <3>1, <1>1, <1>3
    <3> QED BY <3>2, <1>3 DEF LinesOf
  <2>3. ASSUME NEW m \in LinesOf(r) PROVE m \in LinesOf(t)
    <3>1. PICK i \in 1 .. Len(r) : m = r[i]
      BY <1>1 DEF LinesOf
    <3>2. /\ i + Len(s) \in 1 .. (Len(s) + Len(r)) /\ ~(i + Len(s) <= Len(s))
          /\ (i + Len(s)) - Len(s) = i
      BY <1>1
    <3>3. m = t[i + Len(s)]
      BY <3>1, <3>2, <1>3
    <3> QED BY <3>2, <3>3, <1>3 DEF LinesOf
  <2> QED BY <2>1, <2>2, <2>3
<1>5. ASSUME Sorted(s), Sorted(r), Below(LinesOf(s), LinesOf(r)) PROVE Sorted(t)
  <2>1. \A i \in 1 .. Len(s), j \in 1 .. Len(r) : s[i] < r[j]
    BY <1>5, <1>1 DEF Below, LinesOf
  <2>2. /\ \A i, j \in 1 .. Len(s) : i < j => s[i] < s[j]
        /\ \A i, j \in 1 .. Len(r) : i < j => r[i] < r[j]
    BY <1>5, <1>1 DEF Sorted
  <2>3. ASSUME NEW i \in 1 .. (Len(s) + Len(r)), NEW j \in 1 .. (Len(s) + Len(r)), i < j
        PROVE  t[i] < t[j]
    <3>1. CASE j <= Len(s)
      <4>1. i \in 1 .. Len(s) /\ j \in 1 .. Len(s) /\ t[i] = s[i] /\ t[j] = s[j]
        BY <2>3, <3>1, <1>1, <1>3
      <4> QED BY <4>1, <2>2, <2>3
    <3>2. CASE i <= Len(s) /\ ~(j <= Len(s))
      <4>1. /\ i \in 1 .. Len(s) /\ j - Len(s) \in 1 .. Len(r)
            /\ t[i] = s[i] /\ t[j] = r[j - Len(s)]
        BY <3>2, <1>1, <1>3
      <4> QED BY <4>1, <2>1
    <3>3. CASE ~(i <= Len(s))
      <4>1. /\ i - Len(s) \in 1 .. Len(r) /\ j - Len(s) \in 1 .. Len(r)
            /\ i - Len(s) < j - Len(s)
            /\ t[i] = r[i - Len(s)] /\ t[j] = r[j - Len(s)]
        BY <2>3, <3>3, <1>1, <1>3
      <4> QED BY <4>1, <2>2
    <3> QED BY <3>1, <3>2, <3>3, <1>1
  <2> QED BY <2>3, <1>3 DEF Sorted
<1> QED BY <1>3, <1>4, <1>5 DEF t

LEMMA SortedRises ==
  ASSUME NEW s \in Seq(LineNumbers), Sorted(s)
  PROVE  Rising(s)
<1>1. DOMAIN s = 1 .. Len(s) /\ Len(s) \in Nat
  BY LenProperties
<1>2. ASSUME NEW i \in 1 .. (Len(s) - 1) PROVE s[i] < s[i + 1]
  <2>1. i \in 1 .. Len(s) /\ i + 1 \in 1 .. Len(s) /\ i < i + 1
    BY <1>1
  <2> QED BY <2>1, <1>1 DEF Sorted
<1> QED BY <1>2 DEF Rising

-----------------------------------------------------------------------------
(* The writer a step changes, and what it leaves of the others.            *)
Becomes(w, inode, queue, job, turn) ==
  /\ writers' \in [Writers -> WriterRecords]
  /\ \A v \in Writers : v # w => writers'[v] = writers[v]
  /\ writers'[w].inode = inode /\ writers'[w].queue = queue
  /\ writers'[w].job = job /\ writers'[w].turn = turn

LEMMA WriterBecomes ==
  ASSUME WriterType, NEW w \in Writers, NEW r \in WriterRecords,
         writers' = [writers EXCEPT ![w] = r]
  PROVE  Becomes(w, r.inode, r.queue, r.job, r.turn)
  BY DEF WriterType, Becomes

(* Steps that leave every name and every file alone.                       *)
LEMMA NamesStay ==
  ASSUME UNCHANGED fileVars
  PROVE  Named' = Named /\ (FilesNamed => FilesNamed')
<1>1. /\ log' = log /\ numbered' = numbered /\ dated' = dated /\ dir' = dir
      /\ data' = data /\ inodes' = inodes
  BY DEF fileVars
<1>2. Named' = Named
  BY <1>1 DEF Named
<1>3. FilesNamed => FilesNamed'
  BY <1>1, <1>2 DEF FilesNamed
<1> QED BY <1>2, <1>3

LEMMA DropWriterKeeps ==
  ASSUME LogTypes, LogInv, DropWriter
  PROVE  LogTypes' /\ LogInv'
<1> USE DEF LogTypes, LogInv
<1> DEFINE w == live
           r == [writers[w] EXCEPT !.queue = <<>>]
<1>1. /\ w \in Writers /\ w # 0 /\ live' = 0 /\ phase' \in {"down", "claimed"}
      /\ lost' = lost \cup LinesOf(writers[w].queue)
      /\ UNCHANGED fileVars /\ UNCHANGED <<deletion, printed, today, beside, errors>>
  BY DEF DropWriter, StateTypes
<1>2. Becomes(w, writers[w].inode, <<>>, writers[w].job, writers[w].turn)
  <2>1. writers[w] \in WriterRecords
    BY <1>1 DEF WriterType
  <2>2. /\ r \in WriterRecords /\ r.inode = writers[w].inode /\ r.queue = <<>>
        /\ r.job = writers[w].job /\ r.turn = writers[w].turn
    BY <2>1, EmptySeq DEF WriterRecords
  <2>3. writers' = [writers EXCEPT ![w] = r]
    BY DEF DropWriter
  <2> QED BY <1>1, <2>2, <2>3, WriterBecomes
<1>3. /\ log' = log /\ numbered' = numbered /\ dated' = dated /\ dir' = dir
      /\ data' = data /\ inodes' = inodes
  BY <1>1 DEF fileVars
<1>4. LogTypes'
  BY <1>1, <1>2, <1>3 DEF Becomes, FileTypes, DataType, WriterType, StateTypes
<1> HIDE DEF w, r
<1>5. FilesNamed'
  BY <1>1, NamesStay
<1>6. WritersInOrder'
  <2>1. \A v \in Writers : writers'[v].inode = writers[v].inode
    BY <1>2 DEF Becomes
  <2>2. \A v \in Writers : writers'[v].queue = <<>>
    BY <1>1, <1>2 DEF Becomes, WritersInOrder, w
  <2>3. \A v \in Writers : writers'[v].inode = 0 => writers'[v] = Closed
    <3>1. writers[w].inode # 0
      BY <1>1 DEF WritersInOrder, w
    <3> QED BY <3>1, <1>2 DEF Becomes, WritersInOrder
  <2> QED BY <1>1, <1>3, <2>1, <2>2, <2>3 DEF WritersInOrder
<1>7. LinesNumbered'
  BY <1>1, <1>2, <1>3, LinesOfNone DEF Becomes, LinesNumbered
<1>8. Accounted'
  <2>1. ASSUME NEW n \in 1 .. printed, Pending(n)
        PROVE  n \in lost' \/ Pending(n)'
    <3>1. PICK v \in Writers : writers[v].job = n \/ n \in LinesOf(writers[v].queue)
      BY <2>1 DEF Pending
    <3> QED BY <3>1, <1>1, <1>2 DEF Becomes, Pending
  <2> QED BY <2>1, <1>1, <1>3, NamesStay DEF Accounted, Holding, Pending
<1>9. OnePlace'
  <2>1. \A v \in Writers : /\ writers'[v].job = writers[v].job
                           /\ LinesOf(writers'[v].queue) \subseteq LinesOf(writers[v].queue)
    BY <1>2, LinesOfNone DEF Becomes
  <2> QED BY <2>1, <1>1, <1>3, NamesStay DEF OnePlace, JobsUnwritten, JobsOnce, QueuesUnwritten, FilesApart,
           Unwritten
<1>10. Alone'
  <2>1. \A v \in Writers : /\ writers'[v].job = writers[v].job
                           /\ writers'[v].turn = writers[v].turn
                           /\ writers'[v].inode = writers[v].inode
    BY <1>2 DEF Becomes
  <2>2. \A v \in Writers : Last(v)' = Last(v) /\ (live' = v => live = v)
    BY <2>1, <1>1, LogAssumption DEF Last, Writers
  <2> QED BY <2>1, <2>2, <1>1, <1>3, NamesStay DEF Alone
<1>11. InOrder'
  <2>1. \A v \in Writers : /\ writers'[v].job = writers[v].job
                           /\ LinesOf(writers'[v].queue) \subseteq LinesOf(writers[v].queue)
                           /\ Sorted(writers[v].queue) => Sorted(writers'[v].queue)
    BY <1>2, LinesOfNone DEF Becomes
  <2> QED BY <2>1, <1>1, <1>3, NamesStay DEF InOrder, QueuesSorted, FilesSorted, FilesBeforeQueues, JobsBetween,
           DatesBeforeLog, Below
<1> QED BY <1>4, <1>5, <1>6, <1>7, <1>8, <1>9, <1>10, <1>11

LEMMA AbandonKeeps ==
  ASSUME LogTypes, LogInv, Abandon
  PROVE  LogTypes' /\ LogInv'
<1>1. /\ phase' = "down" /\ UNCHANGED fileVars
      /\ UNCHANGED <<writers, live, deletion, printed, today, lost, beside, errors>>
  BY DEF Abandon
<1>2. /\ log' = log /\ numbered' = numbered /\ dated' = dated /\ dir' = dir
      /\ data' = data /\ inodes' = inodes
  BY <1>1 DEF fileVars
<1>3. LogTypes'
  BY <1>1, <1>2 DEF LogTypes, FileTypes, DataType, WriterType, StateTypes
<1>4. LogInv'
  BY <1>1, <1>2, NamesStay DEF LogInv, WritersInOrder, LinesNumbered, Accounted, Pending,
     Holding, OnePlace, JobsUnwritten, JobsOnce, QueuesUnwritten, FilesApart, Unwritten,
     Alone, Last, InOrder, QueuesSorted, FilesSorted, FilesBeforeQueues, JobsBetween,
     DatesBeforeLog
<1> QED BY <1>3, <1>4

LEMMA AskDeleteKeeps ==
  ASSUME LogTypes, LogInv, AskDelete
  PROVE  LogTypes' /\ LogInv'
<1>1. /\ deletion' = "asked" /\ deletion = "none" /\ UNCHANGED fileVars
      /\ UNCHANGED <<phase, writers, live, printed, today, lost, beside, errors>>
  BY DEF AskDelete
<1>2. /\ log' = log /\ numbered' = numbered /\ dated' = dated /\ dir' = dir
      /\ data' = data /\ inodes' = inodes
  BY <1>1 DEF fileVars
<1>3. LogTypes'
  BY <1>1, <1>2 DEF LogTypes, FileTypes, DataType, WriterType, StateTypes
<1>4. LogInv'
  BY <1>1, <1>2, NamesStay DEF LogInv, WritersInOrder, LinesNumbered, Accounted, Pending,
     Holding, OnePlace, JobsUnwritten, JobsOnce, QueuesUnwritten, FilesApart, Unwritten,
     Alone, Last, InOrder, QueuesSorted, FilesSorted, FilesBeforeQueues, JobsBetween,
     DatesBeforeLog
<1> QED BY <1>3, <1>4

LEMMA EmitLogLineKeeps ==
  ASSUME LogTypes, LogInv, EmitLogLine
  PROVE  LogTypes' /\ LogInv'
<1> USE DEF LogTypes, LogInv
<1> DEFINE n == printed + 1
<1>1. /\ printed' = n /\ n \in LineNumbers /\ printed \in Nat /\ printed < n
      /\ UNCHANGED fileVars /\ UNCHANGED <<phase, live, deletion, today, beside, errors>>
  BY DEF EmitLogLine, StateTypes, LineNumbers
<1>2. /\ log' = log /\ numbered' = numbered /\ dated' = dated /\ dir' = dir
      /\ data' = data /\ inodes' = inodes
  BY <1>1 DEF fileVars
(* What the writer that receives has of what it had, and the new line.     *)
<1>3. /\ writers' \in [Writers -> WriterRecords]
      /\ \A v \in Writers : /\ writers'[v].inode = writers[v].inode
                            /\ writers'[v].job = writers[v].job
                            /\ writers'[v].turn = writers[v].turn
                            /\ v # live => writers'[v] = writers[v]
                            /\ LinesOf(writers'[v].queue)
                                 \subseteq LinesOf(writers[v].queue) \cup {n}
                            /\ Sorted(writers[v].queue)
                                 /\ Below(LinesOf(writers[v].queue), {n}) =>
                                      Sorted(writers'[v].queue)
                            /\ LinesOf(writers[v].queue)
                                 \subseteq LinesOf(writers'[v].queue) \cup lost'
      /\ lost \subseteq lost'
      /\ n \in lost' \/ (live \in Writers /\ n \in LinesOf(writers'[live].queue))
  <2>1. CASE live = 0
    BY <2>1, <1>1, LogAssumption DEF EmitLogLine, WriterType, Writers
  <2>2. CASE live # 0
    <3>1. live \in Writers /\ writers[live] \in WriterRecords
      BY <2>2 DEF StateTypes, WriterType
    <3> DEFINE q == writers[live].queue
               kept == IF Len(q) = MaxQueue THEN Tail(q) ELSE q
               r == [writers[live] EXCEPT !.queue = Append(kept, n)]
    <3>2. q \in Seq(LineNumbers)
      BY <3>1 DEF WriterRecords
    <3>3. Len(q) = MaxQueue => q # <<>>
      BY LogAssumption
    <3>4. /\ kept \in Seq(LineNumbers) /\ LinesOf(kept) \subseteq LinesOf(q)
          /\ Sorted(q) => Sorted(kept)
          /\ LinesOf(q) \subseteq LinesOf(kept) \cup lost'
          /\ lost \subseteq lost'
      <4>1. CASE Len(q) = MaxQueue
        <5>1. lost' = lost \cup {Head(q)}
          BY <2>2, <4>1 DEF EmitLogLine
        <5> QED BY <4>1, <5>1, <3>2, <3>3, LinesOfTail
      <4>2. CASE Len(q) # MaxQueue
        <5>1. lost' = lost
          BY <2>2, <4>2 DEF EmitLogLine
        <5> QED BY <4>2, <5>1, <3>2
      <4> QED BY <4>1, <4>2
    <3>5. writers' = [writers EXCEPT ![live] = r]
      <4>1. printed' = n
        BY <1>1
      <4> QED BY <4>1, <2>2 DEF EmitLogLine
    <3> HIDE DEF kept, n
    <3>6. /\ Append(kept, n) \in Seq(LineNumbers)
          /\ LinesOf(Append(kept, n)) = LinesOf(kept) \cup {n}
          /\ Sorted(kept) /\ Below(LinesOf(kept), {n}) => Sorted(Append(kept, n))
      BY <3>4, <1>1, LinesOfAppend
    <3>7. /\ r \in WriterRecords /\ r.queue = Append(kept, n)
          /\ r.inode = writers[live].inode /\ r.job = writers[live].job
          /\ r.turn = writers[live].turn
      BY <3>1, <3>6 DEF WriterRecords
    <3> HIDE DEF r
    <3>8. Becomes(live, r.inode, r.queue, r.job, r.turn)
      BY <3>1, <3>5, <3>7, WriterBecomes
    <3>9. /\ LinesOf(r.queue) \subseteq LinesOf(q) \cup {n}
          /\ Sorted(q) /\ Below(LinesOf(q), {n}) => Sorted(r.queue)
          /\ LinesOf(q) \subseteq LinesOf(r.queue) \cup lost'
          /\ n \in LinesOf(r.queue) /\ lost \subseteq lost'
      BY <3>4, <3>6, <3>7 DEF Below
    <3> QED BY <3>1, <3>7, <3>8, <3>9 DEF Becomes
  <2> QED BY <2>1, <2>2
<1> HIDE DEF n
<1>4. LogTypes'
  BY <1>1, <1>2, <1>3 DEF FileTypes, DataType, WriterType, StateTypes, LineNumbers
<1>5. FilesNamed'
  BY <1>1, NamesStay
<1>6. WritersInOrder'
  <2>1. \A v \in Writers : writers'[v].queue # <<>> => live = v
    BY <1>3 DEF WritersInOrder
  <2>2. \A v \in Writers : writers'[v].inode = 0 => writers'[v] = Closed
    BY <1>3 DEF WritersInOrder, Writers
  <2> QED BY <2>1, <2>2, <1>1, <1>2, <1>3 DEF WritersInOrder, StateTypes
<1>7. \A v \in Writers : /\ writers[v].job \in Nat /\ writers[v].job <= printed
                         /\ writers[v].queue \in Seq(LineNumbers)
                         /\ \A m \in LinesOf(writers[v].queue) : m \in Nat /\ m <= printed
  <2>1. \A v \in Writers : writers[v] \in WriterRecords
    BY DEF WriterType
  <2>2. \A v \in Writers : /\ writers[v].job \in Nat
                           /\ writers[v].queue \in Seq(LineNumbers)
    BY <2>1 DEF WriterRecords
  <2>3. \A v \in Writers : \A m \in LinesOf(writers[v].queue) : m \in Nat
    BY <2>2 DEF LinesOf, LineNumbers
  <2> QED BY <2>2, <2>3 DEF LinesNumbered
<1>8. \A i \in Inodes : \A m \in LinesOf(data[i]) : m \in Nat /\ m <= printed
  <2>1. \A i \in Inodes : data[i] \in Seq(LineNumbers)
    BY DEF DataType
  <2>2. \A i \in Inodes : \A m \in LinesOf(data[i]) : m \in Nat
    BY <2>1 DEF LinesOf, LineNumbers
  <2> QED BY <2>2 DEF LinesNumbered
<1>9. Named \ {0} \subseteq Inodes /\ n \in Nat
  BY <1>1 DEF Named, FileTypes, Files, LineNumbers
<1>10. LinesNumbered'
  <2>1. ASSUME NEW v \in Writers
        PROVE  /\ writers'[v].job <= printed'
               /\ \A m \in LinesOf(writers'[v].queue) : m <= printed'
    <3>1. writers'[v].job <= n
      BY <1>1, <1>3, <1>7, <1>9
    <3>2. \A m \in LinesOf(writers'[v].queue) : m \in LinesOf(writers[v].queue) \/ m = n
      BY <1>3
    <3>3. ASSUME NEW m \in LinesOf(writers'[v].queue) PROVE m <= n
      <4>1. printed \in Nat /\ n \in Nat /\ printed < n
        BY <1>1, <1>9
      <4>2. m = n \/ (m \in Nat /\ m <= printed)
        BY <3>2, <1>7
      <4> QED BY <4>1, <4>2
    <3> QED BY <3>1, <3>3, <1>1
  <2>2. \A i \in Inodes : \A m \in LinesOf(data'[i]) : m <= printed'
    BY <1>1, <1>2, <1>8, <1>9
  <2> QED BY <2>1, <2>2 DEF LinesNumbered
<1>11. Accounted'
  <2>1. ASSUME NEW m \in 1 .. printed, Pending(m)
        PROVE  m \in lost' \/ \E v \in Writers : \/ writers'[v].job = m
                                                \/ m \in LinesOf(writers'[v].queue)
    <3>1. PICK v \in Writers : writers[v].job = m \/ m \in LinesOf(writers[v].queue)
      BY <2>1 DEF Pending
    <3> QED BY <3>1, <1>3
  <2>2. \A m \in 1 .. printed : m \in lost' \/ Pending(m) \/ Holding(m) # {}
    BY <1>3 DEF Accounted
  <2>3. n \in lost' \/ \E v \in Writers : n \in LinesOf(writers'[v].queue)
    BY <1>3
  <2>4. \A m \in 1 .. printed' : m \in 1 .. printed \/ m = n
    BY <1>1 DEF n
  <2> QED BY <2>1, <2>2, <2>3, <2>4, <1>2, <1>1, NamesStay DEF Accounted, Pending, Holding
<1>12. ASSUME errors = 0 PROVE JobsUnwritten' /\ JobsOnce' /\ QueuesUnwritten' /\ FilesApart'
  <2>1. JobsUnwritten /\ JobsOnce /\ QueuesUnwritten /\ FilesApart
    BY <1>12 DEF OnePlace
  <2>2. JobsUnwritten'
    BY <2>1, <1>1, <1>2, <1>3, NamesStay DEF JobsUnwritten, Unwritten
  <2>3. JobsOnce'
    <3>1. ASSUME NEW w \in Writers, NEW v \in Writers, writers'[w].job # 0
          PROVE  /\ writers'[w].job \notin LinesOf(writers'[v].queue)
                 /\ v # w => writers'[v].job # writers'[w].job
      <4>1. writers[w].job \notin LinesOf(writers[v].queue) /\ writers[w].job # n
        BY <3>1, <2>1, <1>1, <1>3, <1>7, <1>9 DEF JobsOnce
      <4>2. v # w => writers[v].job # writers[w].job
        BY <3>1, <2>1, <1>3 DEF JobsOnce
      <4> QED BY <4>1, <4>2, <1>3
    <3> QED BY <3>1 DEF JobsOnce
  <2>4. QueuesUnwritten'
    <3>1. \A i \in Named \ {0} : n \notin LinesOf(data[i])
      BY <1>1, <1>8, <1>9
    <3>2. ASSUME NEW v \in Writers, NEW m \in LinesOf(writers'[v].queue)
          PROVE  \A i \in Named \ {0} : m \notin LinesOf(data[i])
      <4>1. m \in LinesOf(writers[v].queue) \/ m = n
        BY <1>3
      <4> QED BY <4>1, <3>1, <2>1 DEF QueuesUnwritten, Unwritten
    <3> QED BY <3>2, <1>1, <1>2, NamesStay DEF QueuesUnwritten, Unwritten
  <2>5. FilesApart'
    BY <2>1, <1>1, <1>2, NamesStay DEF FilesApart
  <2> QED BY <2>2, <2>3, <2>4, <2>5
<1>13. Alone'
  <2>1. \A v \in Writers : /\ writers'[v].inode = writers[v].inode
                           /\ writers'[v].job = writers[v].job
                           /\ writers'[v].turn = writers[v].turn
    BY <1>3
  <2>2. Named' = Named
    BY <1>1, NamesStay
  <2>3. \A v \in Writers : Last(v)' = Last(v)
    BY <2>1, LogAssumption DEF Last, Writers
  <2> QED BY <2>1, <2>2, <2>3, <1>1, <1>2 DEF Alone
<1>14. QueuesSorted'
  <2>1. ASSUME NEW v \in Writers PROVE Below(LinesOf(writers[v].queue), {n})
    <3>1. ASSUME NEW m \in LinesOf(writers[v].queue) PROVE m < n
      <4>1. m \in Nat /\ m <= printed
        BY <1>7
      <4>2. printed \in Nat /\ n \in Nat /\ printed < n
        BY <1>1, <1>9
      <4> QED BY <4>1, <4>2
    <3> QED BY <3>1 DEF Below
  <2> QED BY <2>1, <1>3 DEF InOrder, QueuesSorted
<1>15. ASSUME errors = 0, ~beside
       PROVE  FilesSorted' /\ FilesBeforeQueues' /\ JobsBetween' /\ DatesBeforeLog'
  <2>1. FilesSorted /\ FilesBeforeQueues /\ JobsBetween /\ DatesBeforeLog
    BY <1>15 DEF InOrder
  <2>2. FilesSorted' /\ DatesBeforeLog'
    BY <2>1, <1>1, <1>2, NamesStay DEF FilesSorted, DatesBeforeLog
  <2>3. FilesBeforeQueues'
    <3>1. ASSUME NEW v \in Writers, NEW i \in Named \ {0}
          PROVE  Below(LinesOf(data[i]), LinesOf(writers'[v].queue))
      <4>1. Below(LinesOf(data[i]), LinesOf(writers[v].queue))
        BY <2>1 DEF FilesBeforeQueues
      <4>2. Below(LinesOf(data[i]), {n})
        BY <1>1, <1>8, <1>9 DEF Below
      <4> QED BY <4>1, <4>2, <1>3 DEF Below
    <3> QED BY <3>1, <1>1, <1>2, NamesStay DEF FilesBeforeQueues
  <2>4. JobsBetween'
    <3>1. ASSUME NEW v \in Writers, writers[v].job # 0
          PROVE  /\ Below({writers[v].job}, LinesOf(writers'[v].queue))
                 /\ \A i \in Named \ {0} : Below(LinesOf(data[i]), {writers[v].job})
      <4>1. Below({writers[v].job}, LinesOf(writers[v].queue))
        BY <2>1, <3>1 DEF JobsBetween
      <4>2. Below({writers[v].job}, {n})
        BY <1>1, <1>7, <1>9 DEF Below
      <4>3. Below({writers[v].job}, LinesOf(writers'[v].queue))
        BY <4>1, <4>2, <1>3 DEF Below
      <4> QED BY <4>3, <2>1, <3>1 DEF JobsBetween
    <3> QED BY <3>1, <1>1, <1>2, <1>3, NamesStay DEF JobsBetween
  <2> QED BY <2>2, <2>3, <2>4
<1>16. OnePlace' /\ InOrder'
  BY <1>1, <1>12, <1>14, <1>15 DEF OnePlace, InOrder
<1> QED BY <1>4, <1>5, <1>6, <1>10, <1>11, <1>13, <1>16

LEMMA ReceiveLineKeeps ==
  ASSUME LogTypes, LogInv, ReceiveLine
  PROVE  LogTypes' /\ LogInv'
<1> USE DEF LogTypes, LogInv
<1> DEFINE w == live
           q == writers[w].queue
<1>1. /\ w \in Writers /\ w # 0 /\ writers[w].job = 0 /\ q # <<>> /\ UNCHANGED fileVars
      /\ UNCHANGED <<phase, live, deletion, printed, today, lost, beside, errors>>
  BY DEF ReceiveLine, StateTypes
<1>2. /\ log' = log /\ numbered' = numbered /\ dated' = dated /\ dir' = dir
      /\ data' = data /\ inodes' = inodes
  BY <1>1 DEF fileVars
<1>3. writers[w] \in WriterRecords /\ q \in Seq(LineNumbers)
  BY <1>1 DEF WriterType, WriterRecords
<1>4. /\ Head(q) \in LineNumbers /\ Tail(q) \in Seq(LineNumbers)
      /\ LinesOf(q) = {Head(q)} \cup LinesOf(Tail(q))
      /\ Sorted(q) => Sorted(Tail(q)) /\ Below({Head(q)}, LinesOf(Tail(q)))
  BY <1>1, <1>3, LinesOfTail
<1>5. Becomes(w, writers[w].inode, Tail(q), Head(q), writers[w].turn)
  <2> DEFINE r == [writers[w] EXCEPT !.job = Head(q), !.queue = Tail(q)]
  <2>1. /\ r \in WriterRecords /\ r.queue = Tail(q) /\ r.job = Head(q)
        /\ r.inode = writers[w].inode /\ r.turn = writers[w].turn
    BY <1>3, <1>4 DEF WriterRecords, LineNumbers
  <2>2. writers' = [writers EXCEPT ![w] = r]
    BY <1>3 DEF ReceiveLine, WriterRecords
  <2> QED BY <1>1, <2>1, <2>2, WriterBecomes
<1>6. LogTypes'
  BY <1>1, <1>2, <1>5 DEF Becomes, FileTypes, DataType, WriterType, StateTypes
<1> HIDE DEF w
<1>7. FilesNamed'
  BY <1>1, NamesStay
<1>8. WritersInOrder'
  <2>1. writers[w].inode # 0 /\ w = live
    BY <1>1 DEF WritersInOrder, w
  <2>2. \A v \in Writers : writers'[v].queue # <<>> => live = v
    BY <1>5, <2>1 DEF Becomes, WritersInOrder
  <2>3. \A v \in Writers : writers'[v].inode = 0 => writers'[v] = Closed
    BY <1>5, <2>1 DEF Becomes, WritersInOrder
  <2>4. \A v \in Writers : writers'[v].inode = writers[v].inode
    BY <1>5 DEF Becomes
  <2> QED BY <2>1, <2>2, <2>3, <2>4, <1>1, <1>2 DEF WritersInOrder, StateTypes
<1>9. LinesNumbered'
  BY <1>1, <1>2, <1>4, <1>5 DEF Becomes, LinesNumbered
<1>10. Accounted'
  <2>1. ASSUME NEW m \in 1 .. printed, Pending(m) PROVE Pending(m)'
    <3>1. PICK v \in Writers : writers[v].job = m \/ m \in LinesOf(writers[v].queue)
      BY <2>1 DEF Pending
    <3>2. m # 0
      OBVIOUS
    <3> QED BY <3>1, <3>2, <1>1, <1>4, <1>5 DEF Becomes, Pending
  <2> QED BY <2>1, <1>1, <1>2, NamesStay DEF Accounted, Holding, Pending
<1>11. /\ \A v \in Writers : v # w => /\ LinesOf(writers[v].queue) = {}
                                    /\ writers'[v] = writers[v]
       /\ writers'[w].job = Head(q) /\ writers'[w].queue = Tail(q)
       /\ LinesOf(writers[w].queue) = {Head(q)} \cup LinesOf(Tail(q))
       /\ Head(q) # 0
  BY <1>1, <1>4, <1>5, LinesOfNone DEF Becomes, WritersInOrder, w, LineNumbers
<1>12. Head(q) \notin LinesOf(Tail(q))
  BY <1>1, <1>3, <1>4 DEF InOrder, QueuesSorted, Below, LineNumbers
<1>13. ASSUME errors = 0 PROVE JobsUnwritten' /\ JobsOnce' /\ QueuesUnwritten' /\ FilesApart'
  <2> HIDE DEF q
  <2>1. JobsUnwritten /\ JobsOnce /\ QueuesUnwritten /\ FilesApart
    BY <1>13 DEF OnePlace
  <2>2. JobsUnwritten' /\ QueuesUnwritten' /\ FilesApart'
    BY <2>1, <1>1, <1>2, <1>11, NamesStay DEF JobsUnwritten, QueuesUnwritten, FilesApart, Unwritten
  <2>3. JobsOnce'
    <3>1. \A v \in Writers : v # w => writers[v].job # Head(q)
      BY <2>1, <1>1, <1>11 DEF JobsOnce
    <3>2. \A v \in Writers : v # w => LinesOf(writers'[v].queue) = {}
      BY <1>11
    <3>3. \A v \in Writers : v # w /\ writers[v].job # 0 =>
            writers[v].job \notin LinesOf(writers[w].queue)
      BY <2>1, <1>1 DEF JobsOnce
    <3>4. \A v, u \in Writers : v # w /\ u # w /\ u # v /\ writers[v].job # 0 =>
            writers[u].job # writers[v].job
      BY <2>1 DEF JobsOnce
    <3> QED BY <3>1, <3>2, <3>3, <3>4, <1>1, <1>11, <1>12 DEF JobsOnce
  <2> QED BY <2>2, <2>3
<1>14. Alone'
  <2>1. \A v \in Writers : writers'[v].inode = writers[v].inode
    BY <1>5 DEF Becomes
  <2>2. \A v \in Writers : (Last(v))' = Last(v)
    BY <2>1 DEF Last
  <2>3. \A v \in Writers : v # w => writers'[v] = writers[v]
    BY <1>5 DEF Becomes
  <2>4. ~beside => Last(w)
    BY <1>1 DEF Alone, w
  <2> QED BY <2>1, <2>2, <2>3, <2>4, <1>1, <1>2, NamesStay DEF Alone
<1>15. QueuesSorted'
  BY <1>1, <1>4, <1>11 DEF InOrder, QueuesSorted
<1>16. ASSUME errors = 0, ~beside
       PROVE  FilesSorted' /\ FilesBeforeQueues' /\ JobsBetween' /\ DatesBeforeLog'
  <2> HIDE DEF q
  <2>1. FilesSorted /\ FilesBeforeQueues /\ JobsBetween /\ DatesBeforeLog
    BY <1>16 DEF InOrder
  <2>2. FilesSorted' /\ DatesBeforeLog'
    BY <2>1, <1>1, <1>2, NamesStay DEF FilesSorted, DatesBeforeLog
  <2>3. \A i \in Named \ {0} : /\ Below(LinesOf(data[i]), LinesOf(Tail(q)))
                              /\ Below(LinesOf(data[i]), {Head(q)})
    BY <2>1, <1>1, <1>11 DEF FilesBeforeQueues, Below
  <2>4. FilesBeforeQueues'
    BY <2>1, <2>3, <1>1, <1>2, <1>11, NamesStay DEF FilesBeforeQueues
  <2>5. Below({Head(q)}, LinesOf(Tail(q)))
    BY <1>1, <1>4 DEF InOrder, QueuesSorted, q
  <2>6. JobsBetween'
    BY <2>1, <2>3, <2>5, <1>1, <1>2, <1>11, NamesStay DEF JobsBetween
  <2> QED BY <2>2, <2>4, <2>6
<1>17. OnePlace' /\ InOrder'
  BY <1>1, <1>13, <1>15, <1>16 DEF OnePlace, InOrder
<1> QED BY <1>6, <1>7, <1>8, <1>9, <1>10, <1>14, <1>17

LEMMA MidnightKeeps ==
  ASSUME LogTypes, LogInv, Midnight
  PROVE  LogTypes' /\ LogInv'
<1> USE DEF LogTypes, LogInv
<1> DEFINE w == live
<1>1. PICK d \in {today, today + 1} \cap (1 .. MaxDates) :
        today' = d /\ writers' = [writers EXCEPT ![live].turn = d]
  BY DEF Midnight
<1>2. /\ w \in Writers /\ w # 0 /\ UNCHANGED fileVars
      /\ UNCHANGED <<phase, live, deletion, printed, lost, beside, errors>>
  BY DEF Midnight, StateTypes
<1>3. /\ log' = log /\ numbered' = numbered /\ dated' = dated /\ dir' = dir
      /\ data' = data /\ inodes' = inodes
  BY <1>2 DEF fileVars
<1>4. Becomes(w, writers[w].inode, writers[w].queue, writers[w].job, d)
  <2> DEFINE r == [writers[w] EXCEPT !.turn = d]
  <2>1. writers[w] \in WriterRecords
    BY <1>2 DEF WriterType
  <2>2. d \in 0 .. MaxDates
    BY <1>1, LogAssumption
  <2>3. /\ r \in WriterRecords /\ r.queue = writers[w].queue /\ r.job = writers[w].job
        /\ r.inode = writers[w].inode /\ r.turn = d
    BY <2>1, <2>2 DEF WriterRecords
  <2>4. writers' = [writers EXCEPT ![w] = r]
    BY <1>1
  <2> QED BY <1>2, <2>3, <2>4, WriterBecomes
<1>5. LogTypes'
  BY <1>1, <1>2, <1>3, <1>4 DEF Becomes, FileTypes, DataType, WriterType, StateTypes
<1> HIDE DEF w
<1>6. \A v \in Writers : /\ writers'[v].inode = writers[v].inode
                         /\ writers'[v].job = writers[v].job
                         /\ writers'[v].queue = writers[v].queue
                         /\ v # w => writers'[v] = writers[v]
  BY <1>4 DEF Becomes
<1>7. FilesNamed'
  BY <1>2, NamesStay
<1>8. WritersInOrder'
  <2>1. writers[w].inode # 0
    BY <1>2 DEF WritersInOrder, w
  <2>2. \A v \in Writers : writers'[v].inode = 0 => writers'[v] = Closed
    BY <1>6, <2>1 DEF WritersInOrder
  <2> QED BY <2>2, <1>2, <1>3, <1>6 DEF WritersInOrder, StateTypes
<1>9. Named' = Named
  BY <1>2, NamesStay
<1>10. LinesNumbered'
  BY <1>2, <1>3, <1>6 DEF LinesNumbered
<1>11. Accounted'
  BY <1>2, <1>3, <1>6, <1>9 DEF Accounted, Pending, Holding
<1>12. OnePlace'
  BY <1>2, <1>3, <1>6, <1>9
     DEF OnePlace, JobsUnwritten, JobsOnce, QueuesUnwritten, FilesApart, Unwritten
<1>13. InOrder'
  BY <1>2, <1>3, <1>6, <1>9
     DEF InOrder, QueuesSorted, FilesSorted, FilesBeforeQueues, JobsBetween, DatesBeforeLog
<1>14. LinesNumbered' /\ Accounted' /\ OnePlace' /\ InOrder'
  BY <1>10, <1>11, <1>12, <1>13
<1>15. Alone'
  <2>1. \A v \in Writers : (Last(v))' = Last(v)
    BY <1>6 DEF Last
  <2>2. ~beside => Last(w)
    BY <1>2 DEF Alone, w
  <2> QED BY <2>1, <2>2, <1>2, <1>3, <1>6, NamesStay DEF Alone
<1> QED BY <1>5, <1>7, <1>8, <1>14, <1>15

-----------------------------------------------------------------------------
(* Steps that move lines between files, or files between names, and leave  *)
(* alone what waits to be written.                                         *)
FilesMove ==
  /\ \A v \in Writers : /\ writers'[v].job = writers[v].job
                        /\ writers'[v].queue = writers[v].queue
  /\ printed' = printed
  /\ \A i \in Named' \ {0} : \A n \in LinesOf(data'[i]) :
       \E k \in Named \ {0} : n \in LinesOf(data[k])
  /\ \A n \in 1 .. printed : n \in lost \/ Holding(n) # {} =>
       n \in lost' \/ \E i \in Named' \ {0} : n \in LinesOf(data'[i])

LEMMA FilesMoveKeeps ==
  ASSUME LogTypes, LogInv, FilesMove
  PROVE  /\ Accounted' /\ QueuesSorted'
         /\ JobsUnwritten => JobsUnwritten'
         /\ JobsOnce => JobsOnce'
         /\ QueuesUnwritten => QueuesUnwritten'
         /\ FilesBeforeQueues => FilesBeforeQueues'
         /\ JobsBetween => JobsBetween'
<1>1. \A v \in Writers : /\ writers'[v].job = writers[v].job
                         /\ writers'[v].queue = writers[v].queue
  BY DEF FilesMove
<1>2. printed' = printed
  BY DEF FilesMove
<1>3. \A i \in Named' \ {0} : \A n \in LinesOf(data'[i]) :
        \E k \in Named \ {0} : n \in LinesOf(data[k])
  BY DEF FilesMove
<1>4. Accounted'
  <2>1. \A n \in 1 .. printed : n \in lost \/ Pending(n) \/ Holding(n) # {}
    BY DEF LogInv, Accounted
  <2>2. \A n \in 1 .. printed : n \in lost \/ Holding(n) # {} =>
          n \in lost' \/ \E i \in Named' \ {0} : n \in LinesOf(data'[i])
    BY DEF FilesMove
  <2>3. ASSUME NEW n \in 1 .. printed
        PROVE  \/ n \in lost'
               \/ \E v \in Writers : \/ writers'[v].job = n
                                     \/ n \in LinesOf(writers'[v].queue)
               \/ \E i \in Named' \ {0} : n \in LinesOf(data'[i])
    <3>1. CASE Pending(n)
      BY <3>1, <1>1 DEF Pending
    <3>2. CASE ~Pending(n)
      BY <3>2, <2>1, <2>2
    <3> QED BY <3>1, <3>2
  <2> QED BY <2>3, <1>2 DEF Accounted, Pending, Holding
<1>5. QueuesSorted'
  BY <1>1 DEF LogInv, InOrder, QueuesSorted
<1>6. ASSUME JobsUnwritten PROVE JobsUnwritten'
  BY <1>1, <1>3, <1>6 DEF JobsUnwritten, Unwritten
<1>7. ASSUME JobsOnce PROVE JobsOnce'
  BY <1>1, <1>7 DEF JobsOnce
<1>8. ASSUME QueuesUnwritten PROVE QueuesUnwritten'
  BY <1>1, <1>3, <1>8 DEF QueuesUnwritten, Unwritten
<1>9. ASSUME FilesBeforeQueues PROVE FilesBeforeQueues'
  <2>1. ASSUME NEW v \in Writers, NEW i \in Named' \ {0}, NEW n \in LinesOf(data'[i]),
               NEW m \in LinesOf(writers[v].queue)
        PROVE  n < m
    <3>1. PICK k \in Named \ {0} : n \in LinesOf(data[k])
      BY <1>3
    <3> QED BY <3>1, <1>9 DEF FilesBeforeQueues, Below
  <2> QED BY <2>1, <1>1 DEF FilesBeforeQueues, Below
<1>10. ASSUME JobsBetween PROVE JobsBetween'
  <2>1. ASSUME NEW v \in Writers, writers[v].job # 0
        PROVE  /\ Below({writers[v].job}, LinesOf(writers[v].queue))
               /\ \A i \in Named' \ {0} : Below(LinesOf(data'[i]), {writers[v].job})
    <3>1. ASSUME NEW i \in Named' \ {0}, NEW n \in LinesOf(data'[i])
          PROVE  n < writers[v].job
      <4>1. PICK k \in Named \ {0} : n \in LinesOf(data[k])
        BY <3>1, <1>3
      <4> QED BY <4>1, <2>1, <1>10 DEF JobsBetween, Below
    <3> QED BY <3>1, <2>1, <1>10 DEF JobsBetween, Below
  <2> QED BY <2>1, <1>1 DEF JobsBetween
<1> QED BY <1>4, <1>5, <1>6, <1>7, <1>8, <1>9, <1>10

(* The inode of the next file is new, and what it has is nothing.          *)
LEMMA NextFile ==
  ASSUME LogTypes, FilesNamed, Room
  PROVE  /\ inodes + 1 \in Inodes /\ inodes + 1 # 0 /\ inodes + 1 \notin Named
         /\ inodes < inodes + 1 /\ data[inodes + 1] = <<>>
<1>1. inodes \in Nat /\ inodes + 1 \in Inodes
  BY DEF LogTypes, FileTypes, Room
<1>2. inodes < inodes + 1 /\ inodes + 1 # 0
  BY <1>1
<1>3. inodes + 1 \notin Named
  <2>1. \A i \in Named : i <= inodes
    BY DEF FilesNamed
  <2> QED BY <2>1, <1>1
<1>4. data[inodes + 1] = <<>>
  BY <1>1, <1>2 DEF FilesNamed
<1> QED BY <1>1, <1>2, <1>3, <1>4

LEMMA NamesAreFiles ==
  ASSUME LogTypes
  PROVE  /\ Named \ {0} \subseteq Inodes /\ log \in Named
         /\ \A k \in 1 .. MaxFiles : numbered[k] \in Named
         /\ \A d \in 1 .. MaxDates : dated[d] \in Named
  BY DEF LogTypes, FileTypes, Named, Files

LEMMA NewWriterKeeps ==
  ASSUME LogTypes, LogInv, NEW w \in Writers, NewWriter(w)
  PROVE  LogTypes' /\ LogInv'
<1> USE DEF LogTypes, LogInv
<1> DEFINE i == IF log = 0 THEN inodes + 1 ELSE log
<1>1. /\ live = 0 /\ writers[w] = Closed /\ \A v \in 1 .. (w - 1) : writers[v] # Closed
      /\ log = 0 => Room
      /\ log' = i /\ inodes' = IF log = 0 THEN i ELSE inodes
      /\ writers' = [writers EXCEPT ![w].inode = i, ![w].written = Len(data[i])]
      /\ dir' = TRUE /\ live' = w /\ phase' = "up"
      /\ beside' = (beside \/ \E v \in Writers : writers[v].job # 0 \/ writers[v].turn # 0)
      /\ UNCHANGED <<numbered, dated, data, deletion, printed, today, lost, errors>>
  BY DEF NewWriter
<1>2. /\ i \in Inodes /\ i # 0 /\ i <= inodes' /\ inodes <= inodes' /\ inodes' \in Nat
      /\ log = 0 => data[i] = <<>> /\ i \notin Named
      /\ log # 0 => i = log
      /\ i > inodes => i = inodes'
  <2>1. CASE log = 0
    BY <2>1, <1>1, NextFile DEF FileTypes
  <2>2. CASE log # 0
    BY <2>2, <1>1, NamesAreFiles DEF FileTypes, FilesNamed, Inodes, Files
  <2> QED BY <2>1, <2>2
<1> HIDE DEF i
<1>3. /\ writers' \in [Writers -> WriterRecords] /\ w # 0
      /\ \A v \in Writers : v # w => writers'[v] = writers[v]
      /\ writers'[w].inode = i /\ writers'[w].queue = <<>>
      /\ writers'[w].job = 0 /\ writers'[w].turn = 0
  <2>1. data[i] \in Seq(LineNumbers) /\ Len(data[i]) \in Nat
    BY <1>2, LenProperties DEF DataType
  <2> DEFINE r == [writers[w] EXCEPT !.inode = i, !.written = Len(data[i])]
  <2>2. writers[w] \in WriterRecords
    BY DEF WriterType
  <2>3. /\ r \in WriterRecords /\ r.inode = i /\ r.queue = writers[w].queue
        /\ r.job = writers[w].job /\ r.turn = writers[w].turn
    BY <1>2, <2>1, <2>2 DEF WriterRecords, Files
  <2>4. writers' = [writers EXCEPT ![w] = r]
    BY <1>1, <2>2 DEF WriterRecords
  <2>5. Becomes(w, r.inode, r.queue, r.job, r.turn)
    BY <2>3, <2>4, WriterBecomes
  <2> QED BY <1>1, <2>3, <2>5 DEF Becomes, Closed, Writers
<1>4. LogTypes'
  BY <1>1, <1>2, <1>3 DEF FileTypes, DataType, WriterType, StateTypes, Files
<1>5. /\ Named \ {0} \subseteq Named' /\ log' = i /\ i \in Named'
      /\ \A x \in Named' \ {0} : x \in Named \/ x = i
  BY <1>1, <1>2 DEF Named
<1>6. \A x \in Named' \ {0} : x \in Named \ {0} \/ data'[x] = <<>>
  BY <1>1, <1>2, <1>5, NamesAreFiles
<1>7. FilesNamed'
  <2>1. \A x \in Named' : x <= inodes'
    <3>1. \A x \in Named : x \in Nat /\ x <= inodes
      BY NamesAreFiles DEF FilesNamed, Inodes
    <3>2. \A x \in Named' : x = 0 \/ x \in Named \/ x = i
      BY <1>5
    <3> QED BY <3>1, <3>2, <1>2, <1>4 DEF FileTypes
  <2>2. \A x \in Inodes : x > inodes' => data'[x] = <<>>
    BY <1>1, <1>2 DEF FilesNamed, FileTypes, Inodes
  <2>3. /\ \A k \in 1 .. MaxFiles : numbered'[k] # log'
        /\ \A d \in 1 .. MaxDates : dated'[d] # log'
    BY <1>1, <1>2, NamesAreFiles DEF FilesNamed
  <2> QED BY <2>1, <2>2, <2>3, <1>1 DEF FilesNamed
<1>8. \A v \in Writers : /\ v > w => writers[v].inode = 0
                         /\ v < w => writers[v].inode # 0
  <2>1. writers[w].inode = 0
    BY <1>1 DEF Closed
  <2>2. ASSUME NEW v \in Writers, v > w PROVE writers[v].inode = 0
    BY <2>1, <2>2 DEF WritersInOrder, Writers
  <2>3. ASSUME NEW v \in Writers, v < w PROVE writers[v].inode # 0
    <3>1. v \in 1 .. (w - 1)
      BY <2>3, LogAssumption DEF Writers
    <3> QED BY <3>1, <1>1 DEF WritersInOrder
  <2> QED BY <2>2, <2>3
<1>9. WritersInOrder'
  <2>1. \A v \in Writers : writers[v].queue = <<>>
    BY <1>1 DEF WritersInOrder, Writers
  <2>2. \A v \in Writers : writers'[v].inode <= inodes'
    <3>1. \A v \in Writers : writers[v].inode \in Nat /\ writers[v].inode <= inodes
      BY DEF WritersInOrder, WriterType, WriterRecords, Files, Inodes
    <3>2. inodes \in Nat
      BY DEF FileTypes
    <3> QED BY <3>1, <3>2, <1>2, <1>3
  <2>3. \A v \in Writers : /\ writers'[v].inode = 0 => writers'[v] = Closed
                           /\ writers'[v].queue = <<>>
    BY <2>1, <1>2, <1>3 DEF WritersInOrder
  <2>4. ASSUME NEW v \in Writers, NEW u \in Writers, u < v, writers'[v].inode # 0
        PROVE  writers'[u].inode # 0
    <3>1. CASE u = w
      BY <3>1, <1>2, <1>3
    <3>2. CASE u # w
      <4>1. writers'[u].inode = writers[u].inode
        BY <3>2, <1>3
      <4>2. CASE v = w
        BY <4>1, <4>2, <2>4, <1>8
      <4>3. CASE v # w
        BY <4>1, <4>3, <2>4, <1>3 DEF WritersInOrder
      <4> QED BY <4>2, <4>3
    <3> QED BY <3>1, <3>2
  <2> QED BY <2>2, <2>3, <2>4, <1>1, <1>2, <1>3 DEF WritersInOrder
<1>10. LinesNumbered'
  <2>1. printed \in Nat
    BY DEF StateTypes
  <2>2. \A v \in Writers : /\ writers'[v].job <= printed
                           /\ \A n \in LinesOf(writers'[v].queue) : n <= printed
    BY <2>1, <1>3, LinesOfNone DEF LinesNumbered
  <2> QED BY <2>2, <1>1 DEF LinesNumbered
<1>11. FilesMove
  <2>1. \A v \in Writers : writers'[v].job = writers[v].job /\ writers'[v].queue = writers[v].queue
    BY <1>1, <1>3 DEF Closed
  <2>2. \A x \in Named' \ {0} : \A n \in LinesOf(data'[x]) :
          \E k \in Named \ {0} : n \in LinesOf(data[k])
    BY <1>1, <1>6, LinesOfNone
  <2>3. \A n \in 1 .. printed : n \in lost \/ Holding(n) # {} =>
          n \in lost' \/ \E x \in Named' \ {0} : n \in LinesOf(data'[x])
    BY <1>1, <1>5 DEF Holding
  <2> QED BY <2>1, <2>2, <2>3, <1>1 DEF FilesMove
<1>12. OnePlace'
  <2>1. ASSUME errors = 0, FilesApart PROVE FilesApart'
    BY <2>1, <1>1, <1>6, LinesOfNone DEF FilesApart
  <2> QED BY <2>1, <1>1, <1>11, FilesMoveKeeps DEF OnePlace
<1>13. Alone'
  <2>1. ASSUME ~beside' PROVE \A v \in Writers : writers[v].job = 0 /\ writers[v].turn = 0
    BY <2>1, <1>1
  <2>2. \A v \in Writers : /\ v > w => writers'[v].inode = 0
                           /\ v # w => writers'[v].inode = writers[v].inode
    BY <1>3, <1>8
  <2>3. ASSUME NEW v \in Writers, v # w PROVE ~(writers'[v].inode # 0
               /\ \A u \in Writers : u > v => writers'[u].inode = 0)
    <3>1. CASE v > w
      BY <3>1, <2>2
    <3>2. CASE v < w
      BY <3>2, <1>2, <1>3
    <3> QED BY <3>1, <3>2, <2>3 DEF Writers
  <2>4. ASSUME NEW v \in Writers, ~beside'
        PROVE  writers'[v].job # 0 \/ writers'[v].turn # 0 \/ live' = v =>
                 /\ writers'[v].inode # 0
                 /\ \A u \in Writers : u > v => writers'[u].inode = 0
    BY <2>1, <2>2, <2>4, <1>1, <1>2, <1>3
  <2> QED BY <2>3, <2>4, <1>1, <1>3 DEF Alone, Last
<1>14. InOrder'
  <2>1. ASSUME errors = 0, ~beside'
        PROVE  FilesSorted' /\ DatesBeforeLog'
    <3>1. FilesSorted /\ DatesBeforeLog
      BY <2>1, <1>1 DEF InOrder
    <3>2. FilesSorted'
      BY <3>1, <1>1, <1>6, LinesOfNone DEF FilesSorted
    <3>3. DatesBeforeLog'
      <4>1. CASE log = 0
        BY <4>1, <1>1, <1>2, LinesOfNone DEF DatesBeforeLog, Below
      <4>2. CASE log # 0
        BY <4>2, <3>1, <1>1, <1>2 DEF DatesBeforeLog
      <4> QED BY <4>1, <4>2
    <3> QED BY <3>2, <3>3
  <2> QED BY <2>1, <1>1, <1>11, FilesMoveKeeps DEF InOrder
<1> QED BY <1>4, <1>7, <1>9, <1>10, <1>11, <1>12, <1>13, <1>14, FilesMoveKeeps

LEMMA DeleteLogsKeeps ==
  ASSUME LogTypes, LogInv, DeleteLogs
  PROVE  LogTypes' /\ LogInv'
<1> USE DEF LogTypes, LogInv
<1>1. /\ deletion' = "done" /\ lost' = 1 .. printed
      /\ UNCHANGED <<data, inodes, phase, writers, live, printed, today, beside, errors>>
  BY DEF DeleteLogs
<1>2. /\ log' \in {0, log}
      /\ numbered' \in [1 .. MaxFiles -> Files] /\ dated' \in [1 .. MaxDates -> Files]
      /\ \A k \in 1 .. MaxFiles : numbered'[k] \in {0, numbered[k]}
      /\ \A d \in 1 .. MaxDates : dated'[d] \in {0, dated[d]}
      /\ dir' \in BOOLEAN /\ (~dir' => ~dir \/ log' = 0)
  BY DEF DeleteLogs, FileTypes, Files
<1>3. LogTypes'
  BY <1>1, <1>2 DEF FileTypes, DataType, WriterType, StateTypes, Files
<1>4. Named' \subseteq Named \cup {0}
  BY <1>2 DEF Named
<1>5. FilesNamed'
  <2>1. \A x \in Named' : x <= inodes'
    BY <1>1, <1>4 DEF FilesNamed, FileTypes
  <2>2. log' # 0 => /\ \A k \in 1 .. MaxFiles : numbered'[k] # log'
                    /\ \A d \in 1 .. MaxDates : dated'[d] # log'
    BY <1>2 DEF FilesNamed
  <2> QED BY <2>1, <2>2, <1>1, <1>2 DEF FilesNamed
<1>6. WritersInOrder' /\ LinesNumbered'
  BY <1>1 DEF WritersInOrder, LinesNumbered
<1>7. FilesMove
  BY <1>1, <1>4 DEF FilesMove
<1>8. OnePlace'
  <2>1. ASSUME FilesApart PROVE FilesApart'
    BY <2>1, <1>1, <1>4 DEF FilesApart
  <2> QED BY <2>1, <1>1, <1>7, FilesMoveKeeps DEF OnePlace
<1>9. Alone'
  <2>1. ASSUME NEW v \in Writers, writers[v].inode # 0, writers[v].inode = log
        PROVE  log' = log \/ writers[v].inode \notin Named'
    BY <2>1, <1>2 DEF Named, FilesNamed
  <2>2. ASSUME NEW v \in Writers, writers[v].inode # 0, writers[v].inode \notin Named
        PROVE  writers[v].inode \notin Named'
    BY <2>2, <1>4
  <2>3. ASSUME NEW v \in Writers, ~beside, Last(v)
        PROVE  \/ writers[v].inode = log'
               \/ log' = 0 /\ errors # 0 /\ writers[v].inode \in Named'
               \/ writers[v].inode \notin Named'
    BY <2>1, <2>2, <2>3, <1>2 DEF Alone, Last
  <2>4. \A v \in Writers : Last(v)' = Last(v)
    BY <1>1 DEF Last
  <2> QED BY <2>3, <2>4, <1>1 DEF Alone
<1>10. InOrder'
  <2>1. ASSUME FilesSorted PROVE FilesSorted'
    BY <2>1, <1>1, <1>4 DEF FilesSorted
  <2>2. ASSUME DatesBeforeLog PROVE DatesBeforeLog'
    BY <2>2, <1>1, <1>2 DEF DatesBeforeLog
  <2> QED BY <2>1, <2>2, <1>1, <1>7, FilesMoveKeeps DEF InOrder
<1> QED BY <1>3, <1>5, <1>6, <1>7, <1>8, <1>9, <1>10, FilesMoveKeeps

LEMMA RotateByDateKeeps ==
  ASSUME LogTypes, LogInv, NEW w \in Writers, RotateByDate(w)
  PROVE  LogTypes' /\ LogInv'
<1> USE DEF LogTypes, LogInv
<1> DEFINE d == writers[w].turn
           f == inodes + 1
           merged == [data EXCEPT ![dated[d]] = @ \o data[log]]
<1>1. d # 0
  BY DEF RotateByDate
<1>2. /\ d # 0
      /\ \/ Content(log) # <<>> /\ UNCHANGED errors /\ MoveToDate(d)
         \/ /\ Content(log) # <<>> /\ errors' = errors + 1 /\ UNCHANGED <<dated, lost>>
            /\ data' \in {data, IF dated[d] = 0 THEN data ELSE merged}
         \/ Content(log) = <<>> /\ UNCHANGED <<errors, data, dated, lost>>
      /\ IF dir /\ (log = 0 \/ (Content(log) # <<>> /\ errors' = errors))
         THEN Room /\ log' = f /\ inodes' = f
         ELSE UNCHANGED <<log, inodes>>
      /\ writers' = [writers EXCEPT ![w].turn = 0,
                       ![w].inode = IF log' = 0 THEN @ ELSE log',
                       ![w].written = IF log' = 0 THEN @ ELSE Len(data'[log'])]
      /\ UNCHANGED <<numbered, dir, phase, live, deletion, printed, today, beside>>
  BY DEF RotateByDate, Error, NoError
<1>3. /\ writers[w] \in WriterRecords /\ d \in 1 .. MaxDates
      /\ writers[w].inode # 0 /\ writers[w].inode \in Inodes
  <2>1. writers[w] \in WriterRecords
    BY DEF WriterType
  <2>2. d \in 1 .. MaxDates
    <3>1. d # 0 /\ d \in 0 .. MaxDates
      BY <2>1, <1>1 DEF WriterRecords
    <3> QED BY <3>1, LogAssumption
  <2>3. writers[w].inode # 0
    <3>1. writers[w].inode = 0 => writers[w] = Closed
      BY DEF WritersInOrder
    <3> QED BY <3>1, <1>1 DEF Closed
  <2> QED BY <2>1, <2>2, <2>3 DEF WriterRecords, Files
<1>4. dated[d] \in Files /\ log \in Files /\ errors \in Nat /\ inodes \in Nat
  BY <1>3 DEF FileTypes, StateTypes
<1>5. Content(log) # <<>> => log # 0 /\ dir /\ Content(log) = data[log]
  BY DEF Content, FilesNamed
<1> HIDE DEF d
(* The files: what each has gained.                                        *)
<1>6. \/ data' = data
      \/ dated[d] # 0 /\ log # 0 /\ data' = merged
  BY <1>2, <1>5 DEF MoveToDate
<1>7. /\ data' \in [Inodes -> Seq(LineNumbers)]
      /\ \A x \in Inodes : LinesOf(data[x]) \subseteq LinesOf(data'[x])
      /\ \A x \in Inodes : x # dated[d] => data'[x] = data[x]
  <2>1. CASE data' = data
    BY <2>1 DEF DataType
  <2>2. CASE dated[d] # 0 /\ log # 0 /\ data' = merged
    <3>1. /\ dated[d] \in Inodes /\ data[dated[d]] \in Seq(LineNumbers)
          /\ data[log] \in Seq(LineNumbers)
      BY <2>2, <1>4 DEF DataType, Files
    <3>2. /\ data[dated[d]] \o data[log] \in Seq(LineNumbers)
          /\ LinesOf(data[dated[d]]) \subseteq LinesOf(data[dated[d]] \o data[log])
      BY <3>1, LinesOfJoin
    <3> QED BY <2>2, <3>1, <3>2 DEF DataType
  <2> QED BY <1>6, <2>1, <2>2
<1>8. dated[d] # 0 /\ log # 0 /\ data' = merged =>
        /\ data'[dated[d]] = data[dated[d]] \o data[log]
        /\ LinesOf(data'[dated[d]]) = LinesOf(data[dated[d]]) \cup LinesOf(data[log])
  <2>1. ASSUME dated[d] # 0, log # 0, data' = merged
        PROVE  /\ data'[dated[d]] = data[dated[d]] \o data[log]
               /\ LinesOf(data'[dated[d]]) = LinesOf(data[dated[d]]) \cup LinesOf(data[log])
    <3>1. /\ dated[d] \in Inodes /\ data[dated[d]] \in Seq(LineNumbers)
          /\ data[log] \in Seq(LineNumbers)
      BY <2>1, <1>4 DEF DataType, Files
    <3>2. data'[dated[d]] = data[dated[d]] \o data[log]
      BY <2>1, <3>1 DEF DataType
    <3> QED BY <3>1, <3>2, LinesOfJoin
  <2> QED BY <2>1
<1> HIDE DEF merged
(* The names.                                                              *)
<1>9. \/ log' = f /\ inodes' = f /\ Room /\ dir
      \/ log' = log /\ inodes' = inodes
  BY <1>2
<1>10. /\ dated' \in [1 .. MaxDates -> Files]
      /\ \A e \in 1 .. MaxDates :
           \/ dated'[e] \in {0, dated[e]}
           \/ e = d /\ dated'[e] = log /\ log # 0 /\ log' = f /\ inodes' = f /\ Room
  <2>1. CASE Content(log) # <<>> /\ UNCHANGED errors /\ MoveToDate(d)
    <3>1. log' = f /\ log # 0 /\ inodes' = f /\ Room
      BY <2>1, <1>2, <1>5
    <3>2. dated' = [e \in 1 .. MaxDates |-> IF e = d /\ dated[d] = 0 THEN log
                                            ELSE IF e \in Outdated(d) THEN 0 ELSE dated[e]]
      BY <2>1 DEF MoveToDate
    <3> QED BY <3>1, <3>2, <1>4 DEF FileTypes, Files
  <2>2. CASE dated' = dated
    BY <2>2 DEF FileTypes
  <2> QED BY <2>1, <2>2, <1>2
<1>11. Room => f \in Inodes /\ f # 0 /\ f \notin Named /\ inodes < f /\ data[f] = <<>>
  BY NextFile
<1> HIDE DEF f
<1>12. \A x \in Named' : x = 0 \/ x \in Named \/ (x = f /\ log' = f /\ inodes' = f /\ Room)
  <2>1. log' \in Named \/ (log' = f /\ inodes' = f /\ Room)
    BY <1>9, NamesAreFiles
  <2>2. \A k \in 1 .. MaxFiles : numbered'[k] \in Named
    BY <1>2, NamesAreFiles
  <2>3. \A e \in 1 .. MaxDates : dated'[e] = 0 \/ dated'[e] \in Named
    BY <1>10, NamesAreFiles
  <2> QED BY <2>1, <2>2, <2>3 DEF Named
<1>13. inodes <= inodes' /\ inodes' \in Nat /\ log' \in Files
  BY <1>4, <1>9, <1>11 DEF Files, Inodes, f
<1>14. /\ writers' \in [Writers -> WriterRecords]
       /\ \A v \in Writers : /\ writers'[v].job = writers[v].job
                             /\ writers'[v].queue = writers[v].queue
                             /\ v # w => writers'[v] = writers[v]
       /\ writers'[w].turn = 0
       /\ writers'[w].inode = IF log' = 0 THEN writers[w].inode ELSE log'
  <2> DEFINE i == IF log' = 0 THEN writers[w].inode ELSE log'
             n == IF log' = 0 THEN writers[w].written ELSE Len(data'[log'])
             r == [writers[w] EXCEPT !.turn = 0, !.inode = i, !.written = n]
  <2>1. i \in Files /\ n \in Nat
    BY <1>3, <1>7, <1>13, LenProperties DEF Files, WriterRecords
  <2>2. /\ r \in WriterRecords /\ r.inode = i /\ r.queue = writers[w].queue
        /\ r.job = writers[w].job /\ r.turn = 0
    <3>0. 0 \in 0 .. MaxDates
      BY LogAssumption
    <3>1. /\ [writers[w] EXCEPT !.turn = 0] \in WriterRecords
          /\ [writers[w] EXCEPT !.turn = 0].queue = writers[w].queue
          /\ [writers[w] EXCEPT !.turn = 0].job = writers[w].job
          /\ [writers[w] EXCEPT !.turn = 0].turn = 0
      BY <1>3, <3>0 DEF WriterRecords
    <3> HIDE DEF i, n
    <3> QED BY <2>1, <3>1 DEF WriterRecords
  <2>3. writers' = [writers EXCEPT ![w] = r]
    BY <1>2, <1>3 DEF WriterRecords
  <2> HIDE DEF r
  <2>4. Becomes(w, r.inode, r.queue, r.job, r.turn)
    BY <2>2, <2>3, WriterBecomes
  <2> QED BY <2>2, <2>4 DEF Becomes
<1>15. errors' \in Nat /\ (errors' = errors \/ errors' # 0) /\ (errors # 0 => errors' # 0)
  BY <1>2, <1>4
<1>16. LogTypes'
  BY <1>2, <1>7, <1>10, <1>13, <1>14, <1>15 DEF FileTypes, DataType, WriterType, StateTypes
<1>17. FilesNamed'
  <2>1. \A x \in Named' : x <= inodes'
    <3>1. \A x \in Named : x \in Nat /\ x <= inodes
      BY NamesAreFiles DEF FilesNamed, Inodes
    <3>2. Room => f \in Nat
      BY <1>11 DEF Inodes
    <3> QED BY <3>1, <3>2, <1>4, <1>12, <1>13
  <2>2. \A x \in Inodes : x > inodes' => data'[x] = <<>>
    <3>1. ASSUME NEW x \in Inodes, x > inodes' PROVE data'[x] = <<>>
      <4>1. x > inodes /\ x \in Nat
        BY <3>1, <1>4, <1>13 DEF Inodes
      <4>2. dated[d] <= inodes
        BY <1>3, NamesAreFiles DEF FilesNamed
      <4>3. x # dated[d]
        BY <4>1, <4>2, <1>4
      <4> QED BY <4>1, <4>3, <1>7 DEF FilesNamed
    <3> QED BY <3>1
  <2>3. log' # 0 => /\ \A k \in 1 .. MaxFiles : numbered'[k] # log'
                    /\ \A e \in 1 .. MaxDates : dated'[e] # log'
    <3>1. CASE log' = f /\ inodes' = f /\ Room
      BY <3>1, <1>2, <1>10, <1>11, NamesAreFiles
    <3>2. CASE log' = log /\ ~(log' = f /\ inodes' = f /\ Room)
      <4>1. ASSUME NEW e \in 1 .. MaxDates, log # 0 PROVE dated'[e] # log
        <5>1. dated'[e] \in {0, dated[e]}
          BY <3>2, <1>10
        <5> QED BY <5>1, <4>1 DEF FilesNamed
      <4> QED BY <4>1, <3>2, <1>2 DEF FilesNamed
    <3> QED BY <3>1, <3>2, <1>9
  <2>4. ~dir' => log' = 0
    BY <1>2, <1>9 DEF FilesNamed
  <2> QED BY <2>1, <2>2, <2>3, <2>4 DEF FilesNamed
<1>18. WritersInOrder'
  <2>1. \A v \in Writers : writers[v].inode \in Nat /\ writers[v].inode <= inodes
    BY DEF WritersInOrder, WriterType, WriterRecords, Files, Inodes
  <2>2. log' <= inodes'
    BY <1>17 DEF FilesNamed, Named
  <2>3. \A v \in Writers : writers'[v].inode <= inodes'
    BY <2>1, <2>2, <1>4, <1>13, <1>14
  <2>4. \A v \in Writers : writers'[v].inode = 0 <=> writers[v].inode = 0
    BY <1>3, <1>14
  <2>5. \A v \in Writers : writers'[v].inode = 0 => writers'[v] = Closed
    BY <2>4, <1>3, <1>14 DEF WritersInOrder
  <2> QED BY <2>3, <2>4, <2>5, <1>2, <1>14 DEF WritersInOrder, StateTypes
<1>19. LinesNumbered'
  <2>1. ASSUME NEW x \in Inodes, NEW m \in LinesOf(data'[x]) PROVE m <= printed
    <3>1. m \in LinesOf(data[x]) \/ (log # 0 /\ m \in LinesOf(data[log]))
      BY <1>6, <1>7, <1>8
    <3> QED BY <3>1, <1>4 DEF LinesNumbered, Files
  <2> QED BY <2>1, <1>2, <1>14 DEF LinesNumbered
(* Nothing is lost but what is too old.                                    *)
<1>20. \A k \in Named \ {0} :
         \/ k \in Named'
         \/ /\ k = log /\ dated[d] \in Named' \ {0}
            /\ LinesOf(data[k]) \subseteq LinesOf(data'[dated[d]])
         \/ LinesOf(data[k]) \subseteq lost'
  <2>1. \A j \in 1 .. MaxFiles : numbered[j] \in Named'
    BY <1>2 DEF Named
  <2>2. \A e \in 1 .. MaxDates : dated'[e] \in Named'
    BY DEF Named
  <2>3. CASE Content(log) # <<>> /\ UNCHANGED errors /\ MoveToDate(d)
    <3>1. /\ dated' = [e \in 1 .. MaxDates |-> IF e = d /\ dated[d] = 0 THEN log
                                               ELSE IF e \in Outdated(d) THEN 0 ELSE dated[e]]
          /\ lost' = lost \cup UNION {LinesOf(Content(dated[e])) : e \in Outdated(d)}
          /\ dated[d] # 0 => data' = merged
      BY <2>3 DEF MoveToDate, merged
    <3>2. d \notin Outdated(d)
      <4>1. KeepDates \in Nat /\ d \in Nat
        BY <1>3, LogAssumption
      <4> QED BY <4>1 DEF Outdated
    <3>3. ASSUME NEW e \in 1 .. MaxDates, dated[e] # 0
          PROVE  dated[e] \in Named' \/ LinesOf(data[dated[e]]) \subseteq lost'
      <4>1. CASE e \in Outdated(d)
        <5>1. LinesOf(Content(dated[e])) \subseteq lost'
          BY <4>1, <3>1
        <5> QED BY <5>1, <3>3 DEF Content
      <4>2. CASE e \notin Outdated(d)
        <5>1. dated'[e] = dated[e]
          BY <4>2, <3>1, <3>3
        <5> QED BY <5>1, <2>2
      <4> QED BY <4>1, <4>2
    <3>4. ASSUME log # 0
          PROVE  \/ log \in Named'
                 \/ /\ dated[d] \in Named' \ {0}
                    /\ LinesOf(data[log]) \subseteq LinesOf(data'[dated[d]])
      <4>1. CASE dated[d] = 0
        <5>1. dated'[d] = log
          BY <4>1, <3>1, <1>3
        <5> QED BY <5>1, <2>2, <1>3
      <4>2. CASE dated[d] # 0
        <5>1. dated'[d] = dated[d]
          BY <4>2, <3>1, <3>2, <1>3
        <5> QED BY <4>2, <5>1, <3>1, <3>4, <2>2, <1>3, <1>8
      <4> QED BY <4>1, <4>2
    <3> QED BY <3>3, <3>4, <2>1 DEF Named
  <2>4. CASE dated' = dated /\ (log' = log \/ log = 0)
    BY <2>4, <2>1, <2>2 DEF Named
  <2>5. ~(Content(log) # <<>> /\ UNCHANGED errors /\ MoveToDate(d)) =>
          dated' = dated /\ (log' = log \/ log = 0)
    BY <1>2, <1>4
  <2> QED BY <2>3, <2>4, <2>5
<1>21. lost \subseteq lost'
  BY <1>2 DEF MoveToDate
<1>22. FilesMove
  <2>1. ASSUME NEW x \in Named' \ {0}, NEW m \in LinesOf(data'[x])
        PROVE  \E k \in Named \ {0} : m \in LinesOf(data[k])
    <3>1. CASE x \in Named
      <4>1. x \in Inodes
        BY <3>1, NamesAreFiles
      <4>2. m \in LinesOf(data[x]) \/ (log # 0 /\ m \in LinesOf(data[log]))
        BY <1>6, <1>7, <1>8, <4>1
      <4> QED BY <3>1, <4>2, NamesAreFiles
    <3>2. CASE x \notin Named
      <4>1. x = f /\ Room
        BY <3>2, <1>12
      <4>2. dated[d] \in Named
        BY <1>3, NamesAreFiles
      <4>3. data'[x] = <<>>
        BY <4>1, <4>2, <1>7, <1>11
      <4> QED BY <4>3, LinesOfNone
    <3> QED BY <3>1, <3>2
  <2>2. ASSUME NEW m \in 1 .. printed, m \in lost \/ Holding(m) # {}
        PROVE  m \in lost' \/ \E x \in Named' \ {0} : m \in LinesOf(data'[x])
    <3>1. CASE m \in lost
      BY <3>1, <1>21
    <3>2. CASE m \notin lost
      <4>1. PICK k \in Named \ {0} : m \in LinesOf(data[k])
        BY <2>2, <3>2 DEF Holding
      <4>2. k \in Inodes
        BY <4>1, NamesAreFiles
      <4> QED BY <4>1, <4>2, <1>7, <1>20
    <3> QED BY <3>1, <3>2
  <2> QED BY <2>1, <2>2, <1>2, <1>14 DEF FilesMove
(* Without an error, out.log keeps its lines or loses its name.            *)
<1>23. ASSUME errors' = errors
       PROVE  /\ data' = data \/ (/\ dated[d] # 0 /\ log # 0 /\ data' = merged
                                  /\ log \notin Named')
              /\ log' = log /\ log # 0 => dated' = dated /\ data' = data
              /\ log' # log => log' = f /\ Room
  <2>1. log' # log => log' = f /\ Room
    BY <1>2
  <2>2. CASE Content(log) # <<>> /\ MoveToDate(d)
    <3>1. log' = f /\ Room /\ log # 0 /\ inodes' = f
      BY <2>2, <1>23, <1>2, <1>5
    <3>2. log # f /\ log \in Named
      BY <3>1, <1>11, NamesAreFiles
    <3>3. ASSUME dated[d] # 0 PROVE log \notin Named'
      <4>1. dated' = [e \in 1 .. MaxDates |-> IF e \in Outdated(d) THEN 0 ELSE dated[e]]
        BY <2>2, <3>3 DEF MoveToDate
      <4>2. \A e \in 1 .. MaxDates : dated'[e] # log
        BY <4>1, <3>1 DEF FilesNamed
      <4>3. \A k \in 1 .. MaxFiles : numbered'[k] # log
        BY <1>2, <3>1 DEF FilesNamed
      <4> QED BY <4>2, <4>3, <3>1, <3>2 DEF Named
    <3>4. data' = IF dated[d] = 0 THEN data ELSE merged
      BY <2>2 DEF MoveToDate, merged
    <3> QED BY <3>1, <3>2, <3>3, <3>4
  <2>3. CASE data' = data /\ dated' = dated
    BY <2>1, <2>3
  <2> QED BY <2>2, <2>3, <1>23, <1>2, <1>4
(* So a file that has a name is as it was, or new, or out.log joined it.   *)
<1>24. ASSUME errors' = errors
       PROVE  \A x \in Named' \ {0} :
                \/ x \in Named /\ data'[x] = data[x]
                \/ data'[x] = <<>>
                \/ /\ x = dated[d] /\ x \in Named /\ log # 0 /\ log \notin Named'
                   /\ data'[x] = data[x] \o data[log]
                   /\ LinesOf(data'[x]) = LinesOf(data[x]) \cup LinesOf(data[log])
  <2>1. ASSUME NEW x \in Named' \ {0}, x \notin Named PROVE data'[x] = <<>>
    <3>1. x = f /\ Room
      BY <2>1, <1>12
    <3>2. dated[d] \in Named
      BY <1>3, NamesAreFiles
    <3> QED BY <3>1, <3>2, <1>7, <1>11
  <2>2. \A x \in Named \ {0} : x \in Inodes
    BY NamesAreFiles
  <2> QED BY <2>1, <2>2, <1>7, <1>8, <1>23, <1>24
<1>25. OnePlace'
  <2>1. ASSUME errors' = errors, FilesApart PROVE FilesApart'
    <3>1. ASSUME NEW x \in Named' \ {0}, NEW y \in Named' \ {0}, x # y,
                 NEW m \in LinesOf(data'[x]), m \in LinesOf(data'[y])
          PROVE  FALSE
      <4>1. /\ \/ x \in Named /\ m \in LinesOf(data[x])
               \/ /\ x = dated[d] /\ log # 0 /\ log \notin Named' /\ x \in Named
                  /\ m \in LinesOf(data[x]) \cup LinesOf(data[log])
            /\ \/ y \in Named /\ m \in LinesOf(data[y])
               \/ /\ y = dated[d] /\ log # 0 /\ log \notin Named' /\ y \in Named
                  /\ m \in LinesOf(data[y]) \cup LinesOf(data[log])
        BY <3>1, <2>1, <1>24, LinesOfNone
      <4>2. log \in Named
        BY NamesAreFiles
      <4> QED BY <4>1, <4>2, <3>1, <2>1 DEF FilesApart
    <3> QED BY <3>1 DEF FilesApart
  <2>2. errors' = 0 => errors = 0 /\ errors' = errors
    BY <1>15
  <2> QED BY <2>1, <2>2, <1>22, FilesMoveKeeps DEF OnePlace
<1>26. Alone'
  <2>1. ASSUME ~beside PROVE Last(w)
    BY <2>1, <1>1 DEF Alone, d
  <2>2. \A v \in Writers : writers'[v].inode = 0 <=> writers[v].inode = 0
    BY <1>3, <1>14
  <2>3. \A v \in Writers : Last(v)' = Last(v)
    BY <2>2 DEF Last
  <2>4. ASSUME log' = 0 PROVE log = 0 /\ Named' = Named
    <3>1. log = 0
      BY <2>4, <1>9, <1>11
    <3>2. dated' = dated
      BY <3>1, <1>2, <1>5
    <3> QED BY <3>1, <3>2, <2>4, <1>2 DEF Named
  <2>5. ASSUME NEW v \in Writers, ~beside,
               writers'[v].job # 0 \/ writers'[v].turn # 0 \/ live' = v
        PROVE  Last(v)
    <3>1. writers[v].job # 0 \/ writers[v].turn # 0 \/ live = v
      BY <2>5, <1>2, <1>14
    <3> QED BY <3>1, <2>5 DEF Alone
  <2>6. ASSUME NEW v \in Writers, ~beside, Last(v)
        PROVE  \/ writers'[v].inode = log'
               \/ log' = 0 /\ errors' # 0 /\ writers'[v].inode \in Named'
               \/ deletion # "none" /\ writers'[v].inode \notin Named'
    <3>1. v = w
      BY <2>1, <2>6 DEF Last, Writers
    <3>2. CASE log' = 0
      <4>1. writers'[w].inode = writers[w].inode
        BY <3>2, <1>14
      <4>2. \/ writers[w].inode = log
            \/ log = 0 /\ errors # 0 /\ writers[w].inode \in Named
            \/ deletion # "none" /\ writers[w].inode \notin Named
        BY <2>6, <3>1 DEF Alone
      <4> QED BY <3>1, <3>2, <4>1, <4>2, <2>4, <1>3, <1>15
    <3>3. CASE log' # 0
      BY <3>1, <3>3, <1>14
    <3> QED BY <3>2, <3>3
  <2> QED BY <2>3, <2>5, <2>6, <1>2 DEF Alone
<1>27. InOrder'
  <2>1. ASSUME errors' = 0, ~beside PROVE FilesSorted' /\ DatesBeforeLog'
    <3>1. errors' = errors /\ FilesSorted /\ DatesBeforeLog
      BY <2>1, <1>15 DEF InOrder
    <3>2. FilesSorted'
      <4>1. ASSUME NEW x \in Named' \ {0} PROVE Sorted(data'[x])
        <5>1. CASE x \in Named /\ data'[x] = data[x]
          BY <5>1, <3>1 DEF FilesSorted
        <5>2. CASE data'[x] = <<>>
          BY <5>2, LinesOfNone
        <5>3. CASE /\ x = dated[d] /\ x \in Named /\ log # 0
                   /\ data'[x] = data[x] \o data[log]
          <6>1. Sorted(data[x]) /\ Sorted(data[log])
            BY <5>3, <3>1, NamesAreFiles DEF FilesSorted
          <6>2. Below(LinesOf(data[x]), LinesOf(data[log]))
            BY <5>3, <3>1, <1>3 DEF DatesBeforeLog
          <6>3. data[x] \in Seq(LineNumbers) /\ data[log] \in Seq(LineNumbers)
            BY <5>3, <1>4, NamesAreFiles DEF DataType, Files
          <6> QED BY <5>3, <6>1, <6>2, <6>3, LinesOfJoin
        <5> QED BY <5>1, <5>2, <5>3, <3>1, <1>24
      <4> QED BY <4>1 DEF FilesSorted
    <3>3. DatesBeforeLog'
      <4>1. CASE log' = log
        BY <4>1, <3>1, <1>23 DEF DatesBeforeLog
      <4>2. CASE log' # log
        <5>1. log' = f /\ Room
          BY <4>2, <3>1, <1>23
        <5>2. dated[d] \in Named
          BY <1>3, NamesAreFiles
        <5>3. data'[log'] = <<>>
          BY <5>1, <5>2, <1>7, <1>11
        <5> QED BY <5>3, LinesOfNone DEF DatesBeforeLog, Below
      <4> QED BY <4>1, <4>2
    <3> QED BY <3>2, <3>3
  <2>2. (errors' = 0 => errors = 0) /\ beside' = beside
    BY <1>2, <1>15
  <2> QED BY <2>1, <2>2, <1>22, FilesMoveKeeps DEF InOrder
<1> QED BY <1>16, <1>17, <1>18, <1>19, <1>22, <1>25, <1>26, <1>27, FilesMoveKeeps

-----------------------------------------------------------------------------
(* WriteLine: the line is appended, or to a new file, or there is an error.*)
FullLog(w) == writers[w].written >= MaxSize /\ Len(Content(log)) >= MaxSize
WriteRest(w) ==
  /\ writers[w].job # 0
  /\ UNCHANGED <<dated, dir, phase, live, deletion, printed, today, beside>>
WriteAppends(w) ==
  /\ WriteRest(w) /\ UNCHANGED <<log, numbered, inodes, errors>>
  /\ data' = [data EXCEPT ![writers[w].inode] = Append(@, writers[w].job)]
  /\ writers' = [writers EXCEPT ![w].job = 0, ![w].written = @ + 1]
  /\ lost' = IF writers[w].inode \in Named THEN lost ELSE lost \cup {writers[w].job}
WriteRotates(w) ==
  /\ WriteRest(w) /\ FullLog(w) /\ Room /\ UNCHANGED errors
  /\ log' = inodes + 1 /\ inodes' = inodes + 1
  /\ numbered' = Shifted /\ lost' = lost \cup Oldest
  /\ data' = [data EXCEPT ![inodes + 1] = <<writers[w].job>>]
  /\ writers' = [writers EXCEPT ![w].job = 0, ![w].written = 1, ![w].inode = inodes + 1]
WriteFails(w) ==
  /\ WriteRest(w) /\ errors' = errors + 1 /\ UNCHANGED <<data, inodes>>
  /\ writers' = [writers EXCEPT ![w].job = 0]
  /\ \/ lost' = lost \cup {writers[w].job} /\ UNCHANGED <<log, numbered>>
     \/ /\ FullLog(w) /\ lost' = lost \cup {writers[w].job} \cup Oldest
        /\ \/ numbered' = [Shifted EXCEPT ![1] = 0] /\ UNCHANGED log
           \/ numbered' = Shifted /\ log' = 0

LEMMA WriteLineCases ==
  ASSUME NEW w \in Writers, WriteLine(w)
  PROVE  WriteAppends(w) \/ WriteRotates(w) \/ WriteFails(w)
  BY DEF WriteLine, WriteAppends, WriteRotates, WriteFails, WriteRest, FullLog, Error, NoError

LEMMA AtWork ==
  ASSUME LogTypes, LogInv, NEW w \in Writers, writers[w].job # 0
  PROVE  /\ writers[w] \in WriterRecords /\ writers[w].job \in LineNumbers
         /\ writers[w].job <= printed
         /\ writers[w].inode \in Inodes /\ writers[w].inode # 0
         /\ writers[w].inode <= inodes
         /\ ~beside => /\ Last(w)
                       /\ \A v \in Writers : v # w => /\ writers[v].job = 0
                                                      /\ writers[v].turn = 0
                                                      /\ writers[v].queue = <<>>
                                                      /\ live # v /\ ~Last(v)
<1> USE DEF LogTypes, LogInv
<1>1. writers[w] \in WriterRecords
  BY DEF WriterType
<1>2. writers[w].job \in LineNumbers /\ writers[w].job <= printed
  BY <1>1 DEF WriterRecords, LineNumbers, LinesNumbered
<1>3. writers[w].inode # 0 /\ writers[w].inode <= inodes
  <2>1. writers[w].inode = 0 => writers[w] = Closed
    BY DEF WritersInOrder
  <2> QED BY <2>1 DEF Closed, WritersInOrder
<1>4. writers[w].inode \in Inodes
  BY <1>1, <1>3 DEF WriterRecords, Files
<1>5. ASSUME ~beside PROVE Last(w)
  BY <1>5 DEF Alone
<1>6. ASSUME ~beside, NEW v \in Writers, v # w PROVE ~Last(v)
  BY <1>5, <1>6 DEF Last, Writers
<1>7. ASSUME ~beside, NEW v \in Writers, v # w
      PROVE  writers[v].job = 0 /\ writers[v].turn = 0 /\ live # v
  BY <1>6, <1>7 DEF Alone
<1>8. ASSUME ~beside, NEW v \in Writers, v # w PROVE writers[v].queue = <<>>
  BY <1>7, <1>8 DEF WritersInOrder
<1> QED BY <1>1, <1>2, <1>3, <1>4, <1>5, <1>6, <1>7, <1>8

(* The writers, once the job of one of them is over.                       *)
JobOver(w, inode) ==
  /\ writers' \in [Writers -> WriterRecords]
  /\ \A v \in Writers : /\ v # w => writers'[v] = writers[v]
                        /\ writers'[v].queue = writers[v].queue
                        /\ writers'[v].turn = writers[v].turn
                        /\ v # w => writers'[v].inode = writers[v].inode
  /\ writers'[w].job = 0 /\ writers'[w].inode = inode

LEMMA JobOverKeeps ==
  ASSUME LogTypes, LogInv, NEW w \in Writers, WriteRest(w), NEW i, i # 0, i <= inodes',
         inodes' \in Nat, inodes <= inodes', JobOver(w, i)
  PROVE  /\ WritersInOrder' /\ QueuesSorted'
         /\ JobsOnce => JobsOnce'
         /\ \A m \in 1 .. printed : Pending(m) =>
              m = writers[w].job \/ \E v \in Writers : \/ writers'[v].job = m
                                                       \/ m \in LinesOf(writers'[v].queue)
         /\ \A v \in Writers : /\ writers'[v].job <= printed
                               /\ \A n \in LinesOf(writers'[v].queue) : n <= printed
         /\ \A v \in Writers : Last(v)' = Last(v)
<1> USE DEF LogTypes, LogInv
<1>1. /\ writers[w].job # 0 /\ live' = live /\ printed' = printed /\ printed \in Nat
      /\ inodes \in Nat
  BY DEF WriteRest, StateTypes, FileTypes
<1>2. \A v \in Writers : /\ v # w => writers'[v] = writers[v]
                         /\ writers'[v].queue = writers[v].queue
                         /\ writers'[v].turn = writers[v].turn
                         /\ v # w => writers'[v].inode = writers[v].inode
  BY DEF JobOver
<1>3. writers'[w].job = 0 /\ writers'[w].inode = i /\ writers[w].inode # 0
  BY <1>1, AtWork DEF JobOver
<1>4. \A v \in Writers : writers'[v].inode = 0 <=> writers[v].inode = 0
  BY <1>2, <1>3
<1>5. WritersInOrder'
  <2>1. \A v \in Writers : writers[v].inode \in Nat /\ writers[v].inode <= inodes
    BY DEF WritersInOrder, WriterType, WriterRecords, Files, Inodes
  <2>2. \A v \in Writers : writers'[v].inode <= inodes'
    BY <2>1, <1>1, <1>2, <1>3
  <2>3. \A v \in Writers : writers'[v].inode = 0 => writers'[v] = Closed
    BY <1>2, <1>3 DEF WritersInOrder
  <2> QED BY <2>2, <2>3, <1>1, <1>2, <1>4 DEF WritersInOrder, StateTypes
<1>6. QueuesSorted'
  BY <1>2 DEF InOrder, QueuesSorted
<1>7. JobsOnce => JobsOnce'
  BY <1>2, <1>3 DEF JobsOnce
<1>8. ASSUME NEW m \in 1 .. printed, Pending(m), m # writers[w].job
      PROVE  \E v \in Writers : writers'[v].job = m \/ m \in LinesOf(writers'[v].queue)
  <2>1. PICK v \in Writers : writers[v].job = m \/ m \in LinesOf(writers[v].queue)
    BY <1>8 DEF Pending
  <2> QED BY <2>1, <1>2, <1>8
<1>9. \A v \in Writers : /\ writers'[v].job <= printed
                         /\ \A n \in LinesOf(writers'[v].queue) : n <= printed
  <2>1. ASSUME NEW v \in Writers PROVE writers'[v].job <= printed
    <3>1. CASE v = w
      BY <3>1, <1>1, <1>3
    <3>2. CASE v # w
      BY <3>2, <1>2 DEF LinesNumbered
    <3> QED BY <3>1, <3>2
  <2> QED BY <2>1, <1>2 DEF LinesNumbered
<1>10. \A v \in Writers : Last(v)' = Last(v)
  BY <1>4 DEF Last
<1> QED BY <1>5, <1>6, <1>7, <1>8, <1>9, <1>10

LEMMA WriteAppendsKeeps ==
  ASSUME LogTypes, LogInv, NEW w \in Writers, WriteAppends(w)
  PROVE  LogTypes' /\ LogInv'
<1> USE DEF LogTypes, LogInv
<1> DEFINE i == writers[w].inode
           j == writers[w].job
<1>1. /\ WriteRest(w) /\ j # 0
      /\ UNCHANGED <<log, numbered, inodes, errors>>
      /\ UNCHANGED <<dated, dir, phase, live, deletion, printed, today, beside>>
      /\ data' = [data EXCEPT ![i] = Append(@, j)]
      /\ writers' = [writers EXCEPT ![w].job = 0, ![w].written = @ + 1]
      /\ lost' = IF i \in Named THEN lost ELSE lost \cup {j}
  BY DEF WriteAppends, WriteRest
<1>2. /\ writers[w] \in WriterRecords /\ j \in LineNumbers /\ j <= printed
      /\ i \in Inodes /\ i # 0 /\ i <= inodes
  BY <1>1, AtWork
<1>3. JobOver(w, i)
  <2> DEFINE n == writers[w].written + 1
             r == [writers[w] EXCEPT !.job = 0, !.written = n]
  <2>0. n \in Nat
    BY <1>2 DEF WriterRecords
  <2> HIDE DEF n
  <2>1. /\ r \in WriterRecords /\ r.inode = i /\ r.queue = writers[w].queue
        /\ r.job = 0 /\ r.turn = writers[w].turn
    BY <1>2, <2>0 DEF WriterRecords
  <2>2. writers' = [writers EXCEPT ![w] = r]
    BY <1>1, <1>2 DEF WriterRecords, n
  <2> HIDE DEF r
  <2>3. Becomes(w, r.inode, r.queue, r.job, r.turn)
    BY <2>1, <2>2, WriterBecomes
  <2> QED BY <2>1, <2>3 DEF Becomes, JobOver
<1> HIDE DEF i, j
<1>4. Named' = Named
  BY <1>1 DEF Named
<1>5. /\ data' \in [Inodes -> Seq(LineNumbers)]
      /\ \A x \in Inodes : x # i => data'[x] = data[x]
      /\ LinesOf(data'[i]) = LinesOf(data[i]) \cup {j}
      /\ Sorted(data[i]) /\ Below(LinesOf(data[i]), {j}) => Sorted(data'[i])
  <2>1. data[i] \in Seq(LineNumbers)
    BY <1>2 DEF DataType
  <2>2. /\ Append(data[i], j) \in Seq(LineNumbers)
        /\ LinesOf(Append(data[i], j)) = LinesOf(data[i]) \cup {j}
        /\ Sorted(data[i]) /\ Below(LinesOf(data[i]), {j}) => Sorted(Append(data[i], j))
    BY <2>1, <1>2, LinesOfAppend
  <2> QED BY <2>2, <1>1, <1>2 DEF DataType
<1>6. LogTypes'
  BY <1>1, <1>3, <1>5 DEF JobOver, FileTypes, DataType, WriterType, StateTypes
<1>7. FilesNamed'
  <2>1. \A x \in Inodes : x > inodes => x # i
    BY <1>2 DEF Inodes, FileTypes
  <2> QED BY <2>1, <1>1, <1>4, <1>5 DEF FilesNamed
<1>8. inodes' \in Nat /\ inodes <= inodes' /\ i <= inodes'
  BY <1>1, <1>2 DEF FileTypes
<1>9. /\ WritersInOrder' /\ QueuesSorted'
      /\ JobsOnce => JobsOnce'
      /\ \A m \in 1 .. printed : Pending(m) =>
           m = j \/ \E v \in Writers : \/ writers'[v].job = m
                                       \/ m \in LinesOf(writers'[v].queue)
      /\ \A v \in Writers : /\ writers'[v].job <= printed
                            /\ \A n \in LinesOf(writers'[v].queue) : n <= printed
      /\ \A v \in Writers : Last(v)' = Last(v)
  BY <1>1, <1>2, <1>3, <1>8, JobOverKeeps DEF j
<1>10. LinesNumbered'
  BY <1>1, <1>2, <1>5, <1>9 DEF LinesNumbered
<1>11. Named \ {0} \subseteq Inodes
  BY NamesAreFiles
<1>12. Accounted'
  <2>1. \A m \in 1 .. printed : m \in lost \/ Pending(m) \/ Holding(m) # {}
    BY DEF Accounted
  <2>2. \A x \in Named \ {0} : LinesOf(data[x]) \subseteq LinesOf(data'[x])
    BY <1>5, <1>11
  <2>3. j \in lost' \/ \E x \in Named \ {0} : j \in LinesOf(data'[x])
    BY <1>1, <1>2, <1>5
  <2>4. ASSUME NEW m \in 1 .. printed
        PROVE  \/ m \in lost'
               \/ \E v \in Writers : \/ writers'[v].job = m
                                     \/ m \in LinesOf(writers'[v].queue)
               \/ \E x \in Named \ {0} : m \in LinesOf(data'[x])
    <3>1. CASE Pending(m)
      BY <3>1, <2>3, <1>9
    <3>2. CASE m \in lost
      BY <3>2, <1>1
    <3>3. CASE Holding(m) # {}
      BY <3>3, <2>2 DEF Holding
    <3> QED BY <2>1, <3>1, <3>2, <3>3
  <2> QED BY <2>4, <1>1, <1>4 DEF Accounted, Pending, Holding
<1>13. OnePlace'
  <2>1. ASSUME errors = 0
        PROVE  JobsUnwritten' /\ JobsOnce' /\ QueuesUnwritten' /\ FilesApart'
    <3>1. JobsUnwritten /\ JobsOnce /\ QueuesUnwritten /\ FilesApart
      BY <2>1 DEF OnePlace
    <3>2. \A x \in Named \ {0} : LinesOf(data'[x]) \subseteq LinesOf(data[x]) \cup {j}
      BY <1>5, <1>11
    <3>3. \A v \in Writers : /\ v # w => writers[v].job # j
                             /\ j \notin LinesOf(writers[v].queue)
      BY <3>1, <1>1 DEF JobsOnce, j
    <3>4. JobsUnwritten'
      <4>1. ASSUME NEW v \in Writers, writers'[v].job # 0, NEW x \in Named \ {0}
            PROVE  writers'[v].job \notin LinesOf(data'[x])
        <5>1. v # w /\ writers'[v].job = writers[v].job
          BY <4>1, <1>3 DEF JobOver
        <5>2. writers[v].job \notin LinesOf(data[x])
          BY <4>1, <5>1, <3>1 DEF JobsUnwritten, Unwritten
        <5> QED BY <5>1, <5>2, <3>2, <3>3
      <4> QED BY <4>1, <1>4 DEF JobsUnwritten, Unwritten
    <3>5. QueuesUnwritten'
      <4>1. ASSUME NEW v \in Writers, NEW n \in LinesOf(writers[v].queue), NEW x \in Named \ {0}
            PROVE  n \notin LinesOf(data'[x])
        BY <3>1, <3>2, <3>3 DEF QueuesUnwritten, Unwritten
      <4> QED BY <4>1, <1>3, <1>4 DEF JobOver, QueuesUnwritten, Unwritten
    <3>6. FilesApart'
      <4>1. \A x \in Named \ {0} : j \notin LinesOf(data[x])
        BY <3>1, <1>1 DEF JobsUnwritten, Unwritten, j
      <4>2. ASSUME NEW x \in Named \ {0}, NEW y \in Named \ {0}, x # y,
                   NEW m \in LinesOf(data'[x]), m \in LinesOf(data'[y])
            PROVE  FALSE
        <5>1. /\ m \in LinesOf(data[x]) \/ (x = i /\ m = j)
              /\ m \in LinesOf(data[y]) \/ (y = i /\ m = j)
          BY <4>2, <1>5, <1>11
        <5> QED BY <5>1, <4>1, <4>2, <3>1 DEF FilesApart
      <4> QED BY <4>2, <1>4 DEF FilesApart
    <3> QED BY <3>1, <3>4, <3>5, <3>6, <1>9
  <2> QED BY <2>1, <1>1 DEF OnePlace
<1>14. Alone'
  <2>1. \A v \in Writers : /\ writers'[v].job # 0 => writers[v].job # 0
                           /\ writers'[v].turn = writers[v].turn
                           /\ writers'[v].inode = writers[v].inode
    BY <1>3 DEF JobOver, i
  <2>2. ASSUME NEW v \in Writers, ~beside,
               writers'[v].job # 0 \/ writers'[v].turn # 0 \/ live' = v
        PROVE  Last(v)
    BY <2>1, <2>2, <1>1 DEF Alone
  <2>3. ASSUME NEW v \in Writers, ~beside, Last(v)
        PROVE  \/ writers[v].inode = log
               \/ log = 0 /\ errors # 0 /\ writers[v].inode \in Named
               \/ deletion # "none" /\ writers[v].inode \notin Named
    BY <2>3 DEF Alone
  <2>4. \A v \in Writers : Last(v)' = Last(v)
    BY <1>9
  <2>5. /\ live' = live /\ beside' = beside /\ errors' = errors /\ log' = log
        /\ deletion' = deletion
    BY <1>1
  <2> QED BY <2>1, <2>2, <2>3, <2>4, <2>5, <1>4 DEF Alone
<1>15. InOrder'
  <2>1. ASSUME errors = 0, ~beside
        PROVE  FilesSorted' /\ FilesBeforeQueues' /\ JobsBetween' /\ DatesBeforeLog'
    <3>1. FilesSorted /\ FilesBeforeQueues /\ JobsBetween /\ DatesBeforeLog
      BY <2>1 DEF InOrder
    <3>2. i = log \/ i \notin Named
      BY <2>1, <1>1, AtWork DEF Alone, i, j
    <3>3. /\ \A x \in Named \ {0} : Below(LinesOf(data[x]), {j})
          /\ Below({j}, LinesOf(writers[w].queue))
      BY <3>1, <1>1 DEF JobsBetween, j
    <3>4. FilesSorted'
      <4>1. \A x \in Named \ {0} : Sorted(data'[x])
        BY <3>1, <3>3, <1>5, <1>11 DEF FilesSorted
      <4> QED BY <4>1, <1>4 DEF FilesSorted
    <3>5. FilesBeforeQueues'
      <4>1. ASSUME NEW v \in Writers, NEW x \in Named \ {0}
            PROVE  Below(LinesOf(data'[x]), LinesOf(writers[v].queue))
        <5>1. CASE v # w
          BY <5>1, <2>1, <1>1, AtWork, LinesOfNone DEF Below, j
        <5>2. CASE v = w
          <6>1. Below(LinesOf(data[x]), LinesOf(writers[w].queue))
            BY <3>1 DEF FilesBeforeQueues
          <6>2. LinesOf(data'[x]) \subseteq LinesOf(data[x]) \cup {j}
            BY <1>5, <1>11
          <6> QED BY <5>2, <6>1, <6>2, <3>3 DEF Below
        <5> QED BY <5>1, <5>2
      <4> QED BY <4>1, <1>3, <1>4 DEF JobOver, FilesBeforeQueues
    <3>6. JobsBetween'
      <4>1. \A v \in Writers : writers'[v].job = 0
        BY <2>1, <1>1, <1>3, AtWork DEF JobOver, j
      <4> QED BY <4>1 DEF JobsBetween
    <3>7. DatesBeforeLog'
      <4>1. ASSUME NEW e \in 1 .. MaxDates, dated[e] # 0, log # 0
            PROVE  Below(LinesOf(data'[dated[e]]), LinesOf(data'[log]))
        <5>1. dated[e] \in Named \ {0} /\ log \in Named \ {0} /\ dated[e] # log
          BY <4>1, NamesAreFiles DEF FilesNamed
        <5>2. data'[dated[e]] = data[dated[e]]
          BY <5>1, <3>2, <1>5, <1>11
        <5>3. LinesOf(data'[log]) \subseteq LinesOf(data[log]) \cup {j}
          BY <5>1, <1>5, <1>11
        <5>4. Below(LinesOf(data[dated[e]]), LinesOf(data[log]))
          BY <4>1, <3>1 DEF DatesBeforeLog
        <5> QED BY <5>1, <5>2, <5>3, <5>4, <3>3 DEF Below
      <4> QED BY <4>1, <1>1 DEF DatesBeforeLog
    <3> QED BY <3>4, <3>5, <3>6, <3>7
  <2> QED BY <2>1, <1>1, <1>9 DEF InOrder
<1> QED BY <1>6, <1>7, <1>9, <1>10, <1>12, <1>13, <1>14, <1>15

(* Moving the rotations up: nothing but the oldest goes.                   *)
LEMMA ShiftedNames ==
  ASSUME LogTypes
  PROVE  /\ Shifted \in [1 .. MaxFiles -> Files] /\ Shifted[1] = log
         /\ \A k \in 1 .. MaxFiles : k # 1 => /\ Shifted[k] = numbered[k - 1]
                                              /\ k - 1 \in 1 .. MaxFiles
         /\ \A k \in 1 .. MaxFiles : k # MaxFiles => k + 1 \in 1 .. MaxFiles /\ k + 1 # 1
                                                     /\ Shifted[k + 1] = numbered[k]
         /\ 1 \in 1 .. MaxFiles
<1>1. MaxFiles \in Nat /\ MaxFiles # 0
  BY LogAssumption
<1>2. numbered \in [1 .. MaxFiles -> Files] /\ log \in Files
  BY DEF LogTypes, FileTypes
<1>3. 1 \in 1 .. MaxFiles
  BY <1>1
<1>4. \A k \in 1 .. MaxFiles : k # 1 => k - 1 \in 1 .. MaxFiles
  BY <1>1
<1>5. \A k \in 1 .. MaxFiles : k # MaxFiles => k + 1 \in 1 .. MaxFiles /\ k + 1 # 1
                                              /\ (k + 1) - 1 = k
  BY <1>1
<1>6. \A k \in 1 .. MaxFiles : Shifted[k] = IF k = 1 THEN log ELSE numbered[k - 1]
  BY DEF Shifted
<1>7. Shifted \in [1 .. MaxFiles -> Files]
  BY <1>2, <1>4 DEF Shifted
<1> QED BY <1>3, <1>4, <1>5, <1>6, <1>7

LEMMA FullLogExists ==
  ASSUME LogTypes, LogInv, NEW w \in Writers, FullLog(w)
  PROVE  log # 0 /\ dir
<1>1. MaxSize \in Nat /\ MaxSize # 0
  BY LogAssumption
<1>2. log = 0 => Len(Content(log)) = 0
  BY DEF Content
<1>3. log # 0
  BY <1>1, <1>2 DEF FullLog
<1> QED BY <1>3 DEF LogInv, FilesNamed

LEMMA WriteRotatesKeeps ==
  ASSUME LogTypes, LogInv, NEW w \in Writers, WriteRotates(w)
  PROVE  LogTypes' /\ LogInv'
<1> USE DEF LogTypes, LogInv
<1> DEFINE f == inodes + 1
           j == writers[w].job
<1>1. /\ WriteRest(w) /\ j # 0 /\ Room /\ FullLog(w)
      /\ UNCHANGED <<dated, dir, phase, live, deletion, printed, today, beside, errors>>
      /\ log' = f /\ inodes' = f
      /\ numbered' = Shifted /\ lost' = lost \cup Oldest
      /\ data' = [data EXCEPT ![f] = <<j>>]
      /\ writers' = [writers EXCEPT ![w].job = 0, ![w].written = 1, ![w].inode = f]
  BY DEF WriteRotates, WriteRest
<1>2. /\ writers[w] \in WriterRecords /\ j \in LineNumbers /\ j <= printed
  BY <1>1, AtWork
<1>3. /\ f \in Inodes /\ f # 0 /\ f \notin Named /\ inodes < f /\ data[f] = <<>>
      /\ f \in Nat /\ inodes \in Nat
  BY <1>1, NextFile DEF FileTypes
<1>4. log # 0 /\ dir
  BY <1>1, FullLogExists
<1>5. JobOver(w, f)
  <2> HIDE DEF f
  <2> DEFINE r == [writers[w] EXCEPT !.job = 0, !.written = 1, !.inode = f]
  <2>1. /\ r \in WriterRecords /\ r.inode = f /\ r.queue = writers[w].queue
        /\ r.job = 0 /\ r.turn = writers[w].turn
    BY <1>2, <1>3 DEF WriterRecords, Files
  <2>2. writers' = [writers EXCEPT ![w] = r]
    BY <1>1, <1>2 DEF WriterRecords
  <2> HIDE DEF r
  <2>3. Becomes(w, r.inode, r.queue, r.job, r.turn)
    BY <2>1, <2>2, WriterBecomes
  <2> QED BY <2>1, <2>3 DEF Becomes, JobOver
<1> HIDE DEF f, j
<1>6. /\ numbered' \in [1 .. MaxFiles -> Files]
      /\ \A k \in 1 .. MaxFiles : numbered'[k] \in Named
  <2>1. ASSUME NEW k \in 1 .. MaxFiles PROVE Shifted[k] \in Named
    BY ShiftedNames, NamesAreFiles
  <2> QED BY <2>1, <1>1, ShiftedNames
<1>7. \A x \in Named' : x \in Named \/ x = f
  BY <1>1, <1>6, NamesAreFiles DEF Named
<1>8. \A x \in Named \ {0} : x \in Named' \/ LinesOf(data[x]) \subseteq lost'
  <2>1. log \in Named'
    BY <1>1, ShiftedNames DEF Named
  <2>2. \A e \in 1 .. MaxDates : dated[e] \in Named'
    BY <1>1 DEF Named
  <2>3. \A k \in 1 .. MaxFiles : k # MaxFiles => numbered[k] \in Named'
    BY <1>1, ShiftedNames DEF Named
  <2>4. numbered[MaxFiles] # 0 => LinesOf(data[numbered[MaxFiles]]) \subseteq lost'
    BY <1>1 DEF Oldest, Content
  <2> QED BY <2>1, <2>2, <2>3, <2>4 DEF Named
<1>9. /\ data' \in [Inodes -> Seq(LineNumbers)]
      /\ \A x \in Inodes : x # f => data'[x] = data[x]
      /\ LinesOf(data'[f]) = {j} /\ Sorted(data'[f])
  <2>1. <<j>> \in Seq(LineNumbers) /\ LinesOf(<<j>>) = {j} /\ Sorted(<<j>>)
    BY <1>2, LinesOfOne
  <2> QED BY <2>1, <1>1, <1>3 DEF DataType
<1>10. Named \ {0} \subseteq Inodes
  BY NamesAreFiles
<1>11. \A x \in Named' \ {0} : \/ x \in Named \ {0} /\ x # f /\ data'[x] = data[x]
                               \/ x = f /\ LinesOf(data'[x]) = {j} /\ Sorted(data'[x])
  BY <1>3, <1>7, <1>9, <1>10
<1>12. f \in Named'
  BY <1>1 DEF Named
<1>13. LogTypes'
  BY <1>1, <1>3, <1>5, <1>6, <1>9 DEF JobOver, FileTypes, DataType, WriterType, StateTypes, Files
<1>14. FilesNamed'
  <2>1. \A x \in Named' : x <= inodes'
    <3>1. \A x \in Named : x \in Nat /\ x <= inodes
      BY NamesAreFiles DEF FilesNamed, Inodes
    <3> QED BY <3>1, <1>1, <1>3, <1>7
  <2>2. \A x \in Inodes : x > inodes' => data'[x] = <<>>
    <3>1. ASSUME NEW x \in Inodes, x > f PROVE data'[x] = <<>>
      <4>1. x > inodes /\ x # f
        BY <3>1, <1>3 DEF Inodes
      <4> QED BY <4>1, <1>9 DEF FilesNamed
    <3> QED BY <3>1, <1>1
  <2>3. /\ \A k \in 1 .. MaxFiles : numbered'[k] # log'
        /\ \A d \in 1 .. MaxDates : dated'[d] # log'
    BY <1>1, <1>3, <1>6, NamesAreFiles
  <2> QED BY <2>1, <2>2, <2>3, <1>1, <1>4 DEF FilesNamed
<1>15. inodes' \in Nat /\ inodes <= inodes' /\ f <= inodes'
  BY <1>1, <1>3
<1>16. /\ WritersInOrder' /\ QueuesSorted'
       /\ JobsOnce => JobsOnce'
       /\ \A m \in 1 .. printed : Pending(m) =>
            m = j \/ \E v \in Writers : \/ writers'[v].job = m
                                        \/ m \in LinesOf(writers'[v].queue)
       /\ \A v \in Writers : /\ writers'[v].job <= printed
                             /\ \A n \in LinesOf(writers'[v].queue) : n <= printed
       /\ \A v \in Writers : Last(v)' = Last(v)
  BY <1>1, <1>3, <1>5, <1>15, JobOverKeeps DEF j
<1>17. LinesNumbered'
  <2>1. \A x \in Inodes : \A n \in LinesOf(data'[x]) : n <= printed
    BY <1>2, <1>9 DEF LinesNumbered
  <2> QED BY <2>1, <1>1, <1>16 DEF LinesNumbered
<1>18. Accounted'
  <2>1. \A m \in 1 .. printed : m \in lost \/ Pending(m) \/ Holding(m) # {}
    BY DEF Accounted
  <2>2. ASSUME NEW m \in 1 .. printed
        PROVE  \/ m \in lost'
               \/ \E v \in Writers : \/ writers'[v].job = m
                                     \/ m \in LinesOf(writers'[v].queue)
               \/ \E x \in Named' \ {0} : m \in LinesOf(data'[x])
    <3>1. CASE m = j
      BY <3>1, <1>3, <1>9, <1>12
    <3>2. CASE Pending(m) /\ m # j
      BY <3>2, <1>16
    <3>3. CASE m \in lost
      BY <3>3, <1>1
    <3>4. CASE Holding(m) # {}
      <4>1. PICK x \in Named \ {0} : m \in LinesOf(data[x])
        BY <3>4 DEF Holding
      <4>2. data'[x] = data[x]
        BY <4>1, <1>3, <1>9, <1>10
      <4> QED BY <4>1, <4>2, <1>8
    <3> QED BY <2>1, <3>1, <3>2, <3>3, <3>4
  <2> QED BY <2>2, <1>1 DEF Accounted, Pending, Holding
<1>19. OnePlace'
  <2>1. ASSUME errors = 0
        PROVE  JobsUnwritten' /\ JobsOnce' /\ QueuesUnwritten' /\ FilesApart'
    <3>1. JobsUnwritten /\ JobsOnce /\ QueuesUnwritten /\ FilesApart
      BY <2>1 DEF OnePlace
    <3>2. \A v \in Writers : /\ v # w => writers[v].job # j
                             /\ j \notin LinesOf(writers[v].queue)
      BY <3>1, <1>1 DEF JobsOnce, j
    <3>3. JobsUnwritten'
      <4>1. ASSUME NEW v \in Writers, writers'[v].job # 0, NEW x \in Named' \ {0}
            PROVE  writers'[v].job \notin LinesOf(data'[x])
        <5>1. v # w /\ writers'[v].job = writers[v].job
          BY <4>1, <1>5 DEF JobOver
        <5>2. \A y \in Named \ {0} : writers[v].job \notin LinesOf(data[y])
          BY <4>1, <5>1, <3>1 DEF JobsUnwritten, Unwritten
        <5> QED BY <5>1, <5>2, <3>2, <1>11
      <4> QED BY <4>1 DEF JobsUnwritten, Unwritten
    <3>4. QueuesUnwritten'
      <4>1. ASSUME NEW v \in Writers, NEW n \in LinesOf(writers[v].queue),
                   NEW x \in Named' \ {0}
            PROVE  n \notin LinesOf(data'[x])
        BY <3>1, <3>2, <1>11 DEF QueuesUnwritten, Unwritten
      <4> QED BY <4>1, <1>5 DEF JobOver, QueuesUnwritten, Unwritten
    <3>5. FilesApart'
      <4>1. \A x \in Named \ {0} : j \notin LinesOf(data[x])
        BY <3>1, <1>1 DEF JobsUnwritten, Unwritten, j
      <4>2. ASSUME NEW x \in Named' \ {0}, NEW y \in Named' \ {0}, x # y,
                   NEW m \in LinesOf(data'[x]), m \in LinesOf(data'[y])
            PROVE  FALSE
        BY <4>1, <4>2, <3>1, <1>11 DEF FilesApart
      <4> QED BY <4>2 DEF FilesApart
    <3> QED BY <3>1, <3>3, <3>4, <3>5, <1>16
  <2> QED BY <2>1, <1>1 DEF OnePlace
<1>20. Alone'
  <2>1. ASSUME ~beside
        PROVE  /\ Last(w) /\ writers'[w].inode = log'
               /\ \A v \in Writers : v # w => /\ writers'[v].job = 0 /\ writers'[v].turn = 0
                                              /\ live # v /\ ~Last(v)
    BY <2>1, <1>1, <1>5, AtWork DEF JobOver, j
  <2>2. \A v \in Writers : Last(v)' = Last(v)
    BY <1>16
  <2>3. live' = live /\ beside' = beside
    BY <1>1
  <2> QED BY <2>1, <2>2, <2>3 DEF Alone
<1>21. InOrder'
  <2>1. ASSUME errors = 0, ~beside
        PROVE  FilesSorted' /\ FilesBeforeQueues' /\ JobsBetween' /\ DatesBeforeLog'
    <3>1. FilesSorted /\ FilesBeforeQueues /\ JobsBetween /\ DatesBeforeLog
      BY <2>1 DEF InOrder
    <3>2. /\ \A x \in Named \ {0} : Below(LinesOf(data[x]), {j})
          /\ Below({j}, LinesOf(writers[w].queue))
      BY <3>1, <1>1 DEF JobsBetween, j
    <3>3. FilesSorted'
      BY <3>1, <1>11 DEF FilesSorted
    <3>4. FilesBeforeQueues'
      <4>1. ASSUME NEW v \in Writers, NEW x \in Named' \ {0}
            PROVE  Below(LinesOf(data'[x]), LinesOf(writers[v].queue))
        <5>1. CASE v # w
          BY <5>1, <2>1, <1>1, AtWork, LinesOfNone DEF Below, j
        <5>2. CASE v = w
          BY <5>2, <3>1, <3>2, <1>11 DEF FilesBeforeQueues
        <5> QED BY <5>1, <5>2
      <4> QED BY <4>1, <1>5 DEF JobOver, FilesBeforeQueues
    <3>5. JobsBetween'
      <4>1. \A v \in Writers : writers'[v].job = 0
        BY <2>1, <1>1, <1>5, AtWork DEF JobOver, j
      <4> QED BY <4>1 DEF JobsBetween
    <3>6. DatesBeforeLog'
      <4>1. ASSUME NEW e \in 1 .. MaxDates, dated[e] # 0
            PROVE  Below(LinesOf(data'[dated[e]]), LinesOf(data'[f]))
        <5>1. dated[e] \in Named \ {0} /\ dated[e] # f
          BY <4>1, <1>3, NamesAreFiles
        <5>2. data'[dated[e]] = data[dated[e]]
          BY <5>1, <1>9, <1>10
        <5> QED BY <5>1, <5>2, <3>2, <1>9
      <4>2. log' = f /\ dated' = dated
        BY <1>1
      <4> QED BY <4>1, <4>2 DEF DatesBeforeLog
    <3> QED BY <3>3, <3>4, <3>5, <3>6
  <2> QED BY <2>1, <1>1, <1>16 DEF InOrder
<1> QED BY <1>13, <1>14, <1>16, <1>17, <1>18, <1>19, <1>20, <1>21

LEMMA WriteFailsKeeps ==
  ASSUME LogTypes, LogInv, NEW w \in Writers, WriteFails(w)
  PROVE  LogTypes' /\ LogInv'
<1> USE DEF LogTypes, LogInv
<1> DEFINE i == writers[w].inode
           j == writers[w].job
<1>1. /\ WriteRest(w) /\ j # 0 /\ errors' = errors + 1
      /\ UNCHANGED <<data, inodes, dated, dir, phase, live, deletion, printed, today, beside>>
      /\ writers' = [writers EXCEPT ![w].job = 0]
      /\ j \in lost' /\ lost \subseteq lost'
  BY DEF WriteFails, WriteRest
<1>2. errors' \in Nat /\ errors' # 0
  BY <1>1 DEF StateTypes
<1>3. /\ writers[w] \in WriterRecords /\ i \in Inodes /\ i # 0 /\ i <= inodes
  BY <1>1, AtWork
<1>4. JobOver(w, i)
  <2> DEFINE r == [writers[w] EXCEPT !.job = 0]
  <2>1. /\ r \in WriterRecords /\ r.inode = i /\ r.queue = writers[w].queue
        /\ r.job = 0 /\ r.turn = writers[w].turn
    BY <1>3 DEF WriterRecords
  <2>2. writers' = [writers EXCEPT ![w] = r]
    BY <1>1
  <2> HIDE DEF r
  <2>3. Becomes(w, r.inode, r.queue, r.job, r.turn)
    BY <2>1, <2>2, WriterBecomes
  <2> QED BY <2>1, <2>3 DEF Becomes, JobOver
<1> HIDE DEF i, j
(* The names: as they were, moved up but for out.log, or moved up.         *)
<1>5. \/ log' = log /\ numbered' = numbered
      \/ /\ log # 0 /\ LinesOf(Content(numbered[MaxFiles])) \subseteq lost'
         /\ \/ numbered' = [Shifted EXCEPT ![1] = 0] /\ log' = log
            \/ numbered' = Shifted /\ log' = 0
  BY FullLogExists DEF WriteFails, Oldest
<1>6. /\ numbered' \in [1 .. MaxFiles -> Files] /\ log' \in {0, log}
      /\ \A k \in 1 .. MaxFiles : \/ numbered'[k] \in Named \cup {0} /\ log' = 0
                                  \/ numbered'[k] = 0
                                  \/ \E l \in 1 .. MaxFiles : numbered'[k] = numbered[l]
  <2>1. CASE log' = log /\ numbered' = numbered
    BY <2>1 DEF FileTypes
  <2>2. CASE numbered' = [Shifted EXCEPT ![1] = 0] /\ log' = log
    BY <2>2, ShiftedNames DEF Files
  <2>3. CASE numbered' = Shifted /\ log' = 0
    <3>1. ASSUME NEW k \in 1 .. MaxFiles PROVE Shifted[k] \in Named
      BY ShiftedNames, NamesAreFiles
    <3> QED BY <2>3, <3>1, ShiftedNames
  <2> QED BY <1>5, <2>1, <2>2, <2>3
<1>7. Named' \subseteq Named \cup {0}
  <2>1. \A k \in 1 .. MaxFiles : numbered'[k] \in Named \cup {0}
    BY <1>6, NamesAreFiles
  <2>2. log' \in Named \cup {0}
    BY <1>6, NamesAreFiles
  <2> QED BY <2>1, <2>2, <1>1, NamesAreFiles DEF Named
<1>8. /\ \A x \in Named \ {0} : x \in Named' \/ LinesOf(data[x]) \subseteq lost'
      /\ log \in Named'
      /\ log = 0 => Named' = Named /\ log' = 0
  <2>1. \A e \in 1 .. MaxDates : dated[e] \in Named'
    BY <1>1 DEF Named
  <2>2. CASE log' = log /\ numbered' = numbered
    BY <2>2, <1>1 DEF Named
  <2>3. CASE /\ log # 0 /\ LinesOf(Content(numbered[MaxFiles])) \subseteq lost'
             /\ \/ numbered' = [Shifted EXCEPT ![1] = 0] /\ log' = log
                \/ numbered' = Shifted /\ log' = 0
    <3>1. \A k \in 1 .. MaxFiles : k # MaxFiles => numbered[k] \in Named'
      <4>1. ASSUME NEW k \in 1 .. MaxFiles, k # MaxFiles PROVE numbered'[k + 1] = numbered[k]
        BY <2>3, <4>1, ShiftedNames
      <4> QED BY <4>1, ShiftedNames DEF Named
    <3>2. log \in Named'
      BY <2>3, ShiftedNames DEF Named
    <3>3. numbered[MaxFiles] # 0 => LinesOf(data[numbered[MaxFiles]]) \subseteq lost'
      BY <2>3 DEF Content
    <3> QED BY <2>1, <2>3, <3>1, <3>2, <3>3 DEF Named
  <2> QED BY <1>5, <2>2, <2>3
<1>9. LogTypes'
  BY <1>1, <1>2, <1>4, <1>6 DEF JobOver, FileTypes, DataType, WriterType, StateTypes, Files
<1>10. FilesNamed'
  <2>1. \A x \in Named' : x <= inodes'
    BY <1>1, <1>7 DEF FilesNamed, FileTypes
  <2>2. log' # 0 => /\ \A k \in 1 .. MaxFiles : numbered'[k] # log'
                    /\ \A d \in 1 .. MaxDates : dated'[d] # log'
    BY <1>1, <1>6 DEF FilesNamed
  <2> QED BY <2>1, <2>2, <1>1, <1>6 DEF FilesNamed
<1>11. inodes' \in Nat /\ inodes <= inodes' /\ i <= inodes'
  BY <1>1, <1>3 DEF FileTypes
<1>12. /\ WritersInOrder' /\ QueuesSorted'
       /\ \A m \in 1 .. printed : Pending(m) =>
            m = j \/ \E v \in Writers : \/ writers'[v].job = m
                                        \/ m \in LinesOf(writers'[v].queue)
       /\ \A v \in Writers : /\ writers'[v].job <= printed
                             /\ \A n \in LinesOf(writers'[v].queue) : n <= printed
       /\ \A v \in Writers : Last(v)' = Last(v)
  BY <1>1, <1>3, <1>4, <1>11, JobOverKeeps DEF j
<1>13. LinesNumbered'
  BY <1>1, <1>12 DEF LinesNumbered
<1>14. Accounted'
  <2>1. \A m \in 1 .. printed : m \in lost \/ Pending(m) \/ Holding(m) # {}
    BY DEF Accounted
  <2>2. ASSUME NEW m \in 1 .. printed
        PROVE  \/ m \in lost'
               \/ \E v \in Writers : \/ writers'[v].job = m
                                     \/ m \in LinesOf(writers'[v].queue)
               \/ \E x \in Named' \ {0} : m \in LinesOf(data[x])
    <3>1. CASE Pending(m)
      BY <3>1, <1>1, <1>12
    <3>2. CASE m \in lost
      BY <3>2, <1>1
    <3>3. CASE Holding(m) # {}
      <4>1. PICK x \in Named \ {0} : m \in LinesOf(data[x])
        BY <3>3 DEF Holding
      <4> QED BY <4>1, <1>8
    <3> QED BY <2>1, <3>1, <3>2, <3>3
  <2> QED BY <2>2, <1>1 DEF Accounted, Pending, Holding
<1>15. OnePlace' /\ InOrder'
  BY <1>2, <1>12 DEF OnePlace, InOrder
<1>16. Alone'
  <2>1. ASSUME ~beside
        PROVE  /\ Last(w) /\ writers'[w].inode = i
               /\ \A v \in Writers : v # w => /\ writers'[v].job = 0 /\ writers'[v].turn = 0
                                              /\ live # v /\ ~Last(v)
    BY <2>1, <1>1, <1>4, AtWork DEF JobOver, j
  <2>2. \A v \in Writers : Last(v)' = Last(v)
    BY <1>12
  <2>3. live' = live /\ beside' = beside /\ deletion' = deletion
    BY <1>1
  <2>4. ASSUME ~beside
        PROVE  \/ i = log'
               \/ log' = 0 /\ i \in Named'
               \/ deletion # "none" /\ i \notin Named'
    <3>1. \/ i = log
          \/ log = 0 /\ i \in Named
          \/ deletion # "none" /\ i \notin Named
      BY <2>1, <2>4 DEF Alone, i
    <3>2. CASE i = log
      BY <3>2, <1>6, <1>8
    <3>3. CASE log = 0 /\ i \in Named
      BY <3>3, <1>8
    <3>4. CASE deletion # "none" /\ i \notin Named
      BY <3>4, <1>3, <1>7
    <3> QED BY <3>1, <3>2, <3>3, <3>4
  <2> QED BY <2>1, <2>2, <2>3, <2>4, <1>2 DEF Alone
<1> QED BY <1>9, <1>10, <1>12, <1>13, <1>14, <1>15, <1>16

-----------------------------------------------------------------------------
LEMMA LogInitKeeps ==
  ASSUME LogInit
  PROVE  LogTypes /\ LogInv
<1>1. /\ log = 0 /\ numbered = [i \in 1 .. MaxFiles |-> 0]
      /\ dated = [d \in 1 .. MaxDates |-> 0] /\ dir = FALSE
      /\ data = [i \in Inodes |-> <<>>] /\ inodes = 0
      /\ phase = "down" /\ writers = [w \in Writers |-> Closed] /\ live = 0
      /\ deletion = "none" /\ printed = 0 /\ today = 1 /\ lost = {} /\ beside = FALSE
      /\ errors = 0
  BY DEF LogInit
<1>2. Named = {0}
  BY <1>1 DEF Named
<1>3. <<>> \in Seq(LineNumbers) /\ MaxDates \in Nat /\ MaxDates # 0
  BY EmptySeq, LogAssumption
<1>4. LogTypes
  <2>1. FileTypes
    BY <1>1 DEF FileTypes, Files
  <2>2. DataType
    BY <1>1, <1>3 DEF DataType
  <2>3. Closed \in WriterRecords
    BY <1>3 DEF Closed, WriterRecords, Files
  <2>4. WriterType
    BY <2>3, <1>1 DEF WriterType
  <2>5. StateTypes
    <3>1. 1 \in 1 .. MaxDates
      BY <1>3
    <3> QED BY <1>1, <3>1 DEF StateTypes
  <2> QED BY <2>1, <2>2, <2>4, <2>5 DEF LogTypes
<1>5. \A w \in Writers : /\ writers[w] = Closed /\ writers[w].inode = 0
                         /\ writers[w].queue = <<>> /\ writers[w].job = 0
                         /\ writers[w].turn = 0
  BY <1>1 DEF Closed
<1>6. \A i \in Inodes : data[i] = <<>>
  BY <1>1
<1>7. FilesNamed
  BY <1>1, <1>2, <1>6 DEF FilesNamed
<1>8. WritersInOrder
  BY <1>1, <1>5 DEF WritersInOrder
<1>9. LinesNumbered
  BY <1>1, <1>5, <1>6, LinesOfNone DEF LinesNumbered
<1>10. Accounted
  BY <1>1 DEF Accounted
<1>11. OnePlace
  BY <1>2, <1>5, LinesOfNone DEF OnePlace, JobsUnwritten, JobsOnce, QueuesUnwritten, FilesApart
<1>12. Alone
  <2>1. \A w \in Writers : live # w
    BY <1>1 DEF Writers
  <2> QED BY <2>1, <1>5 DEF Alone, Last
<1>13. InOrder
  <2>1. QueuesSorted
    BY <1>5, LinesOfNone DEF QueuesSorted
  <2>2. FilesSorted /\ FilesBeforeQueues /\ JobsBetween
    BY <1>2, <1>5 DEF FilesSorted, FilesBeforeQueues, JobsBetween
  <2>3. DatesBeforeLog
    BY <1>1 DEF DatesBeforeLog
  <2> QED BY <2>1, <2>2, <2>3 DEF InOrder
<1> QED BY <1>4, <1>7, <1>8, <1>9, <1>10, <1>11, <1>12, <1>13 DEF LogInv

LEMMA LogStepKeeps ==
  ASSUME LogTypes, LogInv, [LogNext]_logVars
  PROVE  LogTypes' /\ LogInv'
<1>1. ASSUME NEW w \in Writers, WriteLine(w) PROVE LogTypes' /\ LogInv'
  BY <1>1, WriteLineCases, WriteAppendsKeeps, WriteRotatesKeeps, WriteFailsKeeps
<1>2. ASSUME NEW w \in Writers, NewWriter(w) \/ RotateByDate(w) PROVE LogTypes' /\ LogInv'
  BY <1>2, NewWriterKeeps, RotateByDateKeeps
<1>3. CASE DropWriter \/ Abandon \/ EmitLogLine \/ ReceiveLine \/ Midnight \/ AskDelete
           \/ DeleteLogs
  BY <1>3, DropWriterKeeps, AbandonKeeps, EmitLogLineKeeps, ReceiveLineKeeps,
     MidnightKeeps, AskDeleteKeeps, DeleteLogsKeeps
<1>4. CASE UNCHANGED logVars
  <2>1. /\ UNCHANGED fileVars
        /\ UNCHANGED <<phase, writers, live, deletion, printed, today, lost, beside, errors>>
    BY <1>4 DEF logVars, fileVars
  <2>2. /\ log' = log /\ numbered' = numbered /\ dated' = dated /\ dir' = dir
        /\ data' = data /\ inodes' = inodes
    BY <2>1 DEF fileVars
  <2>3. LogTypes'
    BY <2>1, <2>2 DEF LogTypes, FileTypes, DataType, WriterType, StateTypes
  <2>4. LogInv'
    BY <2>1, <2>2, NamesStay DEF LogInv, WritersInOrder, LinesNumbered, Accounted, Pending,
       Holding, OnePlace, JobsUnwritten, JobsOnce, QueuesUnwritten, FilesApart, Unwritten,
       Alone, Last, InOrder, QueuesSorted, FilesSorted, FilesBeforeQueues, JobsBetween,
       DatesBeforeLog
  <2> QED BY <2>3, <2>4
<1> QED BY <1>1, <1>2, <1>3, <1>4 DEF LogNext

(* The inductive invariant of the log files.                               *)
THEOREM LogInvariant == LogSpec => [](LogTypes /\ LogInv)
<1>1. LogInit => LogTypes /\ LogInv
  BY LogInitKeeps
<1>2. LogTypes /\ LogInv /\ [LogNext]_logVars => (LogTypes /\ LogInv)'
  BY LogStepKeeps
<1> QED BY <1>1, <1>2, PTL DEF LogSpec

(* Whatever is printed, received, written, rotated, deleted or fails, and  *)
(* however often the process restarts: no line is missing that nothing     *)
(* accounts for, none is in two files, each file is in the order of        *)
(* printing, and the writer's file can be read, up to the exceptions       *)
(* LinesKept names.  (LogWriter, rotate_if_needed, rotate_by_date,         *)
(* delete_logs.)                                                           *)
THEOREM LinesAreKept == LogSpec => []LinesKept
<1>1. ASSUME LogTypes, LogInv PROVE LinesKept
  <2> USE <1>1 DEF LogTypes, LogInv
  <2>1. \A n \in 1 .. printed : n \in lost \/ Pending(n) \/ Holding(n) # {}
    BY DEF Accounted
  <2>2. errors = 0 => \A i, j \in Named \ {0} :
          i # j => LinesOf(data[i]) \cap LinesOf(data[j]) = {}
    BY DEF OnePlace, FilesApart
  <2>3. ASSUME errors = 0, ~beside, NEW i \in Named \ {0} PROVE Rising(data[i])
    <3>1. data[i] \in Seq(LineNumbers)
      BY NamesAreFiles DEF DataType
    <3>2. Sorted(data[i])
      BY <2>3 DEF InOrder, FilesSorted
    <3> QED BY <3>1, <3>2, SortedRises
  <2>4. ASSUME deletion = "none", ~beside, live # 0 PROVE writers[live].inode \in Named
    <3>1. live \in Writers
      BY <2>4 DEF StateTypes
    <3>2. writers[live].inode = log \/ writers[live].inode \in Named
      BY <2>4, <3>1 DEF Alone
    <3> QED BY <3>2, NamesAreFiles
  <2> QED BY <2>1, <2>2, <2>3, <2>4 DEF LinesKept, LogsReachable
<1>2. LogTypes /\ LogInv => LinesKept
  BY <1>1
<1> QED BY <1>2, LogInvariant, PTL
=============================================================================
