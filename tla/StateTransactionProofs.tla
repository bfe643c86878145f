------------------------ MODULE StateTransactionProofs ------------------------
(***************************************************************************)
(* Proofs about StateTransaction: with at most one failing file operation, *)
(* any number of saves and crashes, and any changes the disk loses, the    *)
(* two documents behave as one cell.                                       *)
(*                                                                         *)
(* The inductive invariant speaks of the disk and of what was last synced  *)
(* alike, since a crash may leave any mixture of the two: for each marker  *)
(* a crash may leave there is one version in doubt that every mixture is   *)
(* read as, and each phase knows which files it has settled, so that both  *)
(* hold the same version, and which it is still going to write.            *)
(* The last part follows one version, that of a save that came to nothing, *)
(* until no file and no write left holds it.                               *)
(***************************************************************************)
EXTENDS StateTransaction, TLAPS

(* Both the disk and what was synced hold version v in file f.             *)
Settled(f, v) == disk[f] = v /\ synced[f] = v

Pending(f, v) == \E i \in 1 .. Len(todo) : todo[i] = Write(f, v)

Coming(f, v) == Settled(f, v) \/ Pending(f, v)

Primary(d) == File(d, "primary")
Backup(d) == File(d, "backup")

(* A load finds v for both documents, whatever a crash loses.              *)
Holds(v) ==
  \A d \in Documents :
    /\ disk[Primary(d)] \in {v, None}
    /\ synced[Primary(d)] \in {v, None}
    /\ None \in {disk[Primary(d)], synced[Primary(d)]} =>
         /\ v = 0
         /\ disk[Backup(d)] \in {None, 0}
         /\ synced[Backup(d)] \in {None, 0}

Kept(copy, v) == \A d \in Documents : Settled(File(d, copy), v)

(* The marker a crash may leave.                                           *)
Possible(m) == disk[Marker] = m \/ synced[Marker] = m

Recoverable ==
  /\ Possible(None) => \E v \in doubt : Holds(v)
  /\ Possible("RollBack") => \E v \in doubt : Kept("previous", v)
  /\ Possible("CommitNext") => \E v \in doubt : Kept("next", v)

Names == Files \cup {Marker}
Contents == Versions \cup {None, "RollBack", "CommitNext"}
Writes == [file : Names, version : Contents]
Markers == {None, "RollBack", "CommitNext"}

Types ==
  /\ disk \in [Names -> Contents] /\ synced \in [Names -> Contents]
  /\ disk[Marker] \in Markers /\ synced[Marker] \in Markers
  /\ todo \in Seq(Writes)
  /\ up \in BOOLEAN /\ refresh \in BOOLEAN /\ saving \in BOOLEAN
  /\ phase \in Phases /\ outcome \in {"ok", "err"}
  /\ doubt \subseteq Versions /\ next \in doubt
  /\ budget \in [saves : Nat, faults : Nat, crashes : Nat]

(* A marker that is not synced took the fault.                             *)
FaultSeen == disk[Marker] # synced[Marker] => budget.faults > 0

(* The stages of the save under way are on the disk for good.              *)
Staged ==
  /\ Kept("next", next)
  /\ \E v \in doubt : previous = Both(v) /\ Kept("previous", v)

(* The writes left go to the primaries, with v, and to the backups.        *)
Rewrites(v) ==
  \A i \in 1 .. Len(todo) : \E d \in Documents :
    todo[i].file = Backup(d) \/ todo[i] = Write(Primary(d), v)

Rewriting(v) == Rewrites(v) /\ \A d \in Documents : Coming(Primary(d), v)

OnlyBackups ==
  \A i \in 1 .. Len(todo) : \E d \in Documents : todo[i].file = Backup(d)

MarkedBoth == disk[Marker] # None /\ synced[Marker] # None

PrepareInv ==
  /\ saving /\ outcome = "ok"
  /\ \E v \in doubt : previous = Both(v) /\ Holds(v)
  /\ todo # <<>> => disk[Marker] = None
  /\ Coming(Marker, "RollBack")
  /\ \A d \in Documents : Coming(File(d, "previous"), previous[d])
  /\ \A d \in Documents : Coming(File(d, "next"), next)
  /\ \A i \in 1 .. Len(todo) :
       \/ todo[i] = Write(Marker, "RollBack") /\ i = Len(todo)
       \/ \E d \in Documents : todo[i] = Write(File(d, "previous"), previous[d])
       \/ \E d \in Documents : todo[i] = Write(File(d, "next"), next)

MarkInv ==
  /\ saving /\ outcome = "ok"
  /\ Staged /\ MarkedBoth /\ Kept("primary", next)
  /\ Coming(Marker, "CommitNext")
  /\ \A i \in 1 .. Len(todo) :
       i = Len(todo) /\ todo[i] = Write(Marker, "CommitNext")

RecoverInv ==
  /\ ~saving /\ outcome = "ok" /\ disk[Marker] # None
  /\ \E v \in doubt : /\ Kept(StageOf(disk[Marker]), v)
                      /\ Rewriting(v)

(* A failed save has had its fault.                                        *)
UndoneInv == saving /\ outcome = "err" /\ budget.faults > 0

RestoreInv ==
  /\ UndoneInv /\ Staged /\ MarkedBoth
  /\ \E v \in doubt : previous = Both(v) /\ Rewriting(v)

RepairInv ==
  /\ UndoneInv /\ Staged /\ MarkedBoth /\ OnlyBackups
  /\ \E v \in doubt : previous = Both(v) /\ Kept("primary", v)

CleanupInv ==
  /\ \E v \in doubt : Holds(v)
  /\ saving /\ outcome = "ok" => Kept("primary", next)
  /\ saving /\ outcome = "err" => budget.faults > 0
  /\ disk[Marker] = None => synced[Marker] = None
  /\ ~saving => outcome = "ok"

PhaseInv ==
  /\ phase \in {"idle", "check", "load", "rollback", "cleanup", "delete"} =>
       todo = <<>>
  /\ phase \in {"check", "load"} => ~saving /\ outcome = "ok"
  /\ phase = "load" => disk[Marker] = None
  /\ phase = "prepare" => PrepareInv
  /\ phase = "apply" => /\ saving /\ outcome = "ok"
                        /\ Staged /\ Settled(Marker, "RollBack")
                        /\ Rewriting(next)
  /\ phase = "mark" => MarkInv
  /\ phase = "recover" => RecoverInv
  /\ phase = "rollback" => UndoneInv /\ Staged /\ MarkedBoth
  /\ phase = "restore" => RestoreInv
  /\ phase = "repair" => RepairInv
  /\ phase = "cleanup" => CleanupInv
  /\ phase = "delete" => CleanupInv /\ Settled(Marker, None)
  /\ phase = "refresh" => /\ saving /\ outcome = "ok"
                          /\ Settled(Marker, None) /\ Kept("primary", next)
                          /\ OnlyBackups

IInv == Types /\ Recoverable /\ FaultSeen /\ PhaseInv

-----------------------------------------------------------------------------
(* Names, writes and sequences of writes.                                  *)

Copies == {"primary", "backup", "previous", "next"}

LEMMA FileNames ==
  /\ \A d \in Documents, c \in Copies :
       /\ File(d, c) \in Files /\ File(d, c) \in Names
       /\ File(d, c) # Marker
       /\ File(d, c) \in Stages <=> c \in {"previous", "next"}
  /\ \A d, e \in Documents, c, k \in Copies :
       File(d, c) = File(e, k) => d = e /\ c = k
  /\ Marker \in Names /\ Marker \notin Stages
BY DEF Files, Names, File, Marker, Stages, Copies, Documents

LEMMA WriteParts ==
  /\ \A f, v : Write(f, v).file = f /\ Write(f, v).version = v
  /\ \A f \in Names, v \in Contents : Write(f, v) \in Writes
BY DEF Write, Writes

LEMMA Distinct ==
  /\ Versions \subseteq Nat /\ 0 \in Versions
  /\ None \notin Versions
  /\ None # "RollBack" /\ None # "CommitNext"
BY NoneAssumption, BoundsAssumption DEF Versions

(* What u, s followed by t, consists of.                                   *)
Joins(u, s, t) ==
  /\ \A i \in 1 .. Len(u) :
       \/ \E j \in 1 .. Len(s) : u[i] = s[j]
       \/ \E j \in 1 .. Len(t) : u[i] = t[j]
  /\ \A j \in 1 .. Len(s) : \E i \in 1 .. Len(u) : u[i] = s[j]
  /\ \A j \in 1 .. Len(t) : \E i \in 1 .. Len(u) : u[i] = t[j]

LEMMA Concatenated ==
  ASSUME NEW s \in Seq(Writes), NEW t \in Seq(Writes)
  PROVE  s \o t \in Seq(Writes) /\ Joins(s \o t, s, t)
<1>1. /\ s \o t \in Seq(Writes) /\ Len(s \o t) = Len(s) + Len(t)
      /\ Len(s) \in Nat /\ Len(t) \in Nat
  OBVIOUS
<1>2. \A i \in 1 .. Len(s) + Len(t) :
        (s \o t)[i] = IF i <= Len(s) THEN s[i] ELSE t[i - Len(s)]
  OBVIOUS
<1>3. ASSUME NEW j \in 1 .. Len(s)
      PROVE  \E i \in 1 .. Len(s \o t) : (s \o t)[i] = s[j]
  <2>1. j \in 1 .. Len(s \o t) /\ (s \o t)[j] = s[j]
    BY <1>1, <1>2
  <2> QED BY <2>1
<1>4. ASSUME NEW j \in 1 .. Len(t)
      PROVE  \E i \in 1 .. Len(s \o t) : (s \o t)[i] = t[j]
  <2>1. /\ j + Len(s) \in 1 .. Len(s \o t)
        /\ (s \o t)[j + Len(s)] = t[j]
    BY <1>1, <1>2
  <2> QED BY <2>1
<1>5. ASSUME NEW i \in 1 .. Len(s \o t)
      PROVE  \/ \E j \in 1 .. Len(s) : (s \o t)[i] = s[j]
             \/ \E j \in 1 .. Len(t) : (s \o t)[i] = t[j]
  <2>1. CASE i <= Len(s)
    <3>1. i \in 1 .. Len(s) /\ (s \o t)[i] = s[i]
      BY <1>1, <1>2, <2>1
    <3> QED BY <3>1
  <2>2. CASE ~(i <= Len(s))
    <3>1. i - Len(s) \in 1 .. Len(t) /\ (s \o t)[i] = t[i - Len(s)]
      BY <1>1, <1>2, <2>2
    <3> QED BY <3>1
  <2> QED BY <2>1, <2>2
<1> QED BY <1>1, <1>3, <1>4, <1>5 DEF Joins

(* What one file, and what the pair, is replaced by.                       *)
RewritesTo(s, D, pair) ==
  /\ s \in Seq(Writes)
  /\ \A i \in 1 .. Len(s) : \E d \in D :
       s[i].file = Backup(d) \/ s[i] = Write(Primary(d), pair[d])
  /\ \A d \in D : \E i \in 1 .. Len(s) : s[i] = Write(Primary(d), pair[d])

LEMMA ReplaceRewrites ==
  ASSUME Types, NEW d \in Documents, NEW v \in Versions
  PROVE  /\ Replace(d, v) \in Seq(Writes)
         /\ \A i \in 1 .. Len(Replace(d, v)) :
              \/ Replace(d, v)[i].file = Backup(d)
              \/ Replace(d, v)[i] = Write(Primary(d), v)
         /\ \E i \in 1 .. Len(Replace(d, v)) :
              Replace(d, v)[i] = Write(Primary(d), v)
<1> DEFINE p == Primary(d)
           b == Backup(d)
<1>0. /\ p \in Names /\ b \in Names
      /\ p = File(d, "primary") /\ b = File(d, "backup")
  BY FileNames DEF Copies, Primary, Backup
<1>1. disk[p] \in Contents /\ disk[b] \in Contents /\ v \in Contents
  BY <1>0 DEF Types, Contents
<1>2. /\ Write(b, disk[p]) \in Writes /\ Write(b, disk[b]) \in Writes
      /\ Write(p, v) \in Writes /\ Write(b, v) \in Writes
      /\ Write(b, disk[p]).file = b /\ Write(b, disk[b]).file = b
      /\ Write(b, v).file = b
  BY <1>0, <1>1, WriteParts
<1>3. \/ Replace(d, v) = <<Write(b, disk[p]), Write(p, v)>>
      \/ Replace(d, v) = <<Write(b, disk[b]), Write(p, v), Write(b, v)>>
      \/ Replace(d, v) = <<Write(p, v)>>
  BY <1>0 DEF Replace
<1> HIDE DEF p, b
<1>4. CASE Replace(d, v) = <<Write(b, disk[p]), Write(p, v)>>
  <2> DEFINE s == <<Write(b, disk[p]), Write(p, v)>>
  <2>1. s \in Seq(Writes) /\ Len(s) = 2 /\ s[1].file = b /\ s[2] = Write(p, v)
    BY <1>2
  <2> HIDE DEF s
  <2>2. \A i \in 1 .. Len(s) : s[i].file = b \/ s[i] = Write(p, v)
    BY <2>1
  <2>3. \E i \in 1 .. Len(s) : s[i] = Write(p, v)
    BY <2>1
  <2> QED BY <1>4, <2>1, <2>2, <2>3 DEF s, p, b
<1>5. CASE Replace(d, v) = <<Write(b, disk[b]), Write(p, v), Write(b, v)>>
  <2> DEFINE s == <<Write(b, disk[b]), Write(p, v), Write(b, v)>>
  <2>1. /\ s \in Seq(Writes) /\ Len(s) = 3
        /\ s[1].file = b /\ s[2] = Write(p, v) /\ s[3].file = b
    BY <1>2
  <2> HIDE DEF s
  <2>2. \A i \in 1 .. Len(s) : s[i].file = b \/ s[i] = Write(p, v)
    BY <2>1
  <2>3. \E i \in 1 .. Len(s) : s[i] = Write(p, v)
    BY <2>1
  <2> QED BY <1>5, <2>1, <2>2, <2>3 DEF s, p, b
<1>6. CASE Replace(d, v) = <<Write(p, v)>>
  <2> DEFINE s == <<Write(p, v)>>
  <2>1. s \in Seq(Writes) /\ Len(s) = 1 /\ s[1] = Write(p, v)
    BY <1>2
  <2> HIDE DEF s
  <2>2. \A i \in 1 .. Len(s) : s[i].file = b \/ s[i] = Write(p, v)
    BY <2>1
  <2>3. \E i \in 1 .. Len(s) : s[i] = Write(p, v)
    BY <2>1
  <2> QED BY <1>6, <2>1, <2>2, <2>3 DEF s, p, b
<1> QED BY <1>3, <1>4, <1>5, <1>6

LEMMA ApplyPairRewrites ==
  ASSUME Types, NEW pair \in [Documents -> Versions]
  PROVE  RewritesTo(ApplyPair(pair), Documents, pair)
<1> DEFINE s == Replace("state", pair["state"])
           t == Replace("projects", pair["projects"])
<1>1. /\ "state" \in Documents /\ "projects" \in Documents
      /\ pair["state"] \in Versions /\ pair["projects"] \in Versions
      /\ \A d \in Documents : d = "state" \/ d = "projects"
  BY DEF Documents
<1>2. /\ s \in Seq(Writes)
      /\ \A i \in 1 .. Len(s) : \/ s[i].file = Backup("state")
                                \/ s[i] = Write(Primary("state"), pair["state"])
      /\ \E i \in 1 .. Len(s) : s[i] = Write(Primary("state"), pair["state"])
  BY <1>1, ReplaceRewrites
<1>3. /\ t \in Seq(Writes)
      /\ \A i \in 1 .. Len(t) :
           \/ t[i].file = Backup("projects")
           \/ t[i] = Write(Primary("projects"), pair["projects"])
      /\ \E i \in 1 .. Len(t) :
           t[i] = Write(Primary("projects"), pair["projects"])
  BY <1>1, ReplaceRewrites
<1>4. ApplyPair(pair) = s \o t
  BY DEF ApplyPair
<1> HIDE DEF s, t
<1>11. s \in Seq(Writes) /\ t \in Seq(Writes)
  BY <1>2, <1>3
<1>5. s \o t \in Seq(Writes) /\ Joins(s \o t, s, t)
  BY <1>11, Concatenated
<1> DEFINE u == s \o t
<1>6. u \in Seq(Writes) /\ Joins(u, s, t)
  BY <1>5
<1>7. ApplyPair(pair) = u
  BY <1>4
<1> HIDE DEF u
<1>8. ASSUME NEW i \in 1 .. Len(u)
      PROVE  \E d \in Documents : \/ u[i].file = Backup(d)
                                  \/ u[i] = Write(Primary(d), pair[d])
  <2>1. CASE \E j \in 1 .. Len(s) : u[i] = s[j]
    BY <2>1, <1>1, <1>2
  <2>2. CASE \E j \in 1 .. Len(t) : u[i] = t[j]
    BY <2>2, <1>1, <1>3
  <2> QED BY <1>6, <2>1, <2>2 DEF Joins
<1>9. /\ \E i \in 1 .. Len(u) : u[i] = Write(Primary("state"), pair["state"])
      /\ \E i \in 1 .. Len(u) :
           u[i] = Write(Primary("projects"), pair["projects"])
  <2>1. PICK j \in 1 .. Len(s) : s[j] = Write(Primary("state"), pair["state"])
    BY <1>2
  <2>2. PICK k \in 1 .. Len(t) :
          t[k] = Write(Primary("projects"), pair["projects"])
    BY <1>3
  <2> QED BY <1>6, <2>1, <2>2 DEF Joins
<1>10. \A d \in Documents : \E i \in 1 .. Len(u) :
         u[i] = Write(Primary(d), pair[d])
  <2> TAKE d \in Documents
  <2>1. CASE d = "state"
    BY <1>9, <2>1
  <2>2. CASE d = "projects"
    BY <1>9, <2>2
  <2> QED BY <1>1, <2>1, <2>2
<1> QED BY <1>6, <1>7, <1>8, <1>10 DEF RewritesTo

LEMMA BackupWrites ==
  ASSUME NEW pair \in [Documents -> Versions]
  PROVE  /\ RefreshBackups(pair) \in Seq(Writes)
         /\ Len(RefreshBackups(pair)) = 2
         /\ \A i \in 1 .. Len(RefreshBackups(pair)) : \E d \in Documents :
              RefreshBackups(pair)[i] = Write(Backup(d), pair[d])
         /\ RefreshBackups(pair)[1] = Write(Backup("state"), pair["state"])
         /\ RefreshBackups(pair)[2] = Write(Backup("projects"), pair["projects"])
<1> DEFINE x == Write(Backup("state"), pair["state"])
           y == Write(Backup("projects"), pair["projects"])
<1>1. /\ "state" \in Documents /\ "projects" \in Documents
      /\ pair["state"] \in Contents /\ pair["projects"] \in Contents
  BY DEF Documents, Contents
<1>2. Backup("state") \in Names /\ Backup("projects") \in Names
  BY <1>1, FileNames DEF Backup, Copies
<1>3. x \in Writes /\ y \in Writes
  BY <1>1, <1>2, WriteParts
<1>4. RefreshBackups(pair) = <<x, y>>
  BY DEF RefreshBackups, Backup
<1> DEFINE s == <<x, y>>
<1> HIDE DEF x, y
<1>5. s \in Seq(Writes) /\ Len(s) = 2 /\ s[1] = x /\ s[2] = y
  BY <1>3
<1> HIDE DEF s
<1>6. \A i \in 1 .. Len(s) : \E d \in Documents : s[i] = Write(Backup(d), pair[d])
  BY <1>1, <1>5 DEF x, y
<1> QED BY <1>4, <1>5, <1>6 DEF s, x, y

-----------------------------------------------------------------------------
(* What the actions do.                                                    *)

(* The disk after a successful write: it holds it, and so does the sync.   *)
Wrote(f, v) ==
  /\ disk' = [disk EXCEPT ![f] = v] /\ synced' = disk'

LEMMA WrittenFiles ==
  ASSUME Types, NEW f \in Names, NEW v \in Contents, Wrote(f, v),
         f = Marker => v \in Markers
  PROVE  /\ disk' \in [Names -> Contents] /\ synced' \in [Names -> Contents]
         /\ disk'[Marker] \in Markers /\ synced'[Marker] \in Markers
         /\ \A g \in Names : disk'[g] = IF g = f THEN v ELSE disk[g]
         /\ \A g \in Names : synced'[g] = disk'[g]
<1>1. Marker \in Names
  BY FileNames
<1> QED BY <1>1 DEF Types, Wrote

LEMMA Popped ==
  ASSUME NEW s \in Seq(Writes), s # <<>>
  PROVE  /\ Head(s) = s[1] /\ Head(s) \in Writes
         /\ Tail(s) \in Seq(Writes)
         /\ Len(s) \in Nat /\ Len(s) >= 1 /\ Len(Tail(s)) = Len(s) - 1
         /\ \A i \in 1 .. Len(Tail(s)) : i + 1 \in 1 .. Len(s) /\ Tail(s)[i] = s[i + 1]
         /\ Len(s) = 1 => Tail(s) = <<>>
<1>1. /\ Head(s) = s[1] /\ Tail(s) \in Seq(Writes)
      /\ Len(s) \in Nat /\ Len(s) >= 1 /\ Len(Tail(s)) = Len(s) - 1
  OBVIOUS
<1>2. Head(s) \in Writes
  BY <1>1
<1>3. \A i \in 1 .. Len(Tail(s)) : i + 1 \in 1 .. Len(s) /\ Tail(s)[i] = s[i + 1]
  BY <1>1
<1>4. Len(s) = 1 => Tail(s) = <<>>
  <2>1. \A t \in Seq(Writes) : Len(t) = 0 => t = <<>>
    OBVIOUS
  <2>2. Len(s) = 1 => Len(Tail(s)) = 0
    BY <1>1
  <2> QED BY <1>1, <2>1, <2>2
<1> QED BY <1>1, <1>2, <1>3, <1>4

(* The first of the writes left, and the step that makes it.               *)
First == todo[1]

LEMMA PutDoes ==
  ASSUME Types, Put
  PROVE  /\ First \in Writes /\ Wrote(First.file, First.version)
         /\ First.file \in Names /\ First.version \in Contents
         /\ todo' \in Seq(Writes) /\ Len(todo) \in Nat /\ Len(todo) >= 1
         /\ Len(todo') = Len(todo) - 1
         /\ Len(todo) = 1 => todo' = <<>>
         /\ \A i \in 1 .. Len(todo') :
              i + 1 \in 1 .. Len(todo) /\ todo'[i] = todo[i + 1]
         /\ UNCHANGED <<up, phase, save, doubt, budget>>
<1>1. todo \in Seq(Writes) /\ todo # <<>> /\ todo' = Tail(todo)
  BY DEF Types, Put
<1>2. /\ First \in Writes /\ Head(todo) = First
      /\ todo' \in Seq(Writes) /\ Len(todo) \in Nat /\ Len(todo) >= 1
      /\ Len(todo') = Len(todo) - 1
      /\ Len(todo) = 1 => todo' = <<>>
      /\ \A i \in 1 .. Len(todo') :
           i + 1 \in 1 .. Len(todo) /\ todo'[i] = todo[i + 1]
  BY <1>1, Popped DEF First
<1>3. First.file \in Names /\ First.version \in Contents
  BY <1>2 DEF Writes
<1> QED BY <1>2, <1>3 DEF Put, Wrote

(* A file stays settled, and a write stays coming, unless another version  *)
(* is written to the file.                                                 *)
LEMMA PutKeeps ==
  ASSUME Types, Put, First.file = Marker => First.version \in Markers,
         NEW f \in Names, NEW v, First.file = f => First.version = v
  PROVE  /\ disk[f] = v => Settled(f, v)'
         /\ Coming(f, v) => Coming(f, v)'
<1>1. \A g \in Names : /\ disk'[g] = IF g = First.file THEN First.version ELSE disk[g]
                       /\ synced'[g] = disk'[g]
  BY PutDoes, WrittenFiles
<1>2. disk[f] = v => Settled(f, v)'
  BY <1>1 DEF Settled
<1>3. ASSUME Pending(f, v) PROVE Coming(f, v)'
  <2>1. PICK i \in 1 .. Len(todo) : todo[i] = Write(f, v)
    BY <1>3 DEF Pending
  <2>2. CASE i = 1
    <3>1. First.file = f /\ First.version = v
      BY <2>1, <2>2, WriteParts DEF First
    <3> QED BY <1>1, <3>1 DEF Settled, Coming
  <2>3. CASE i # 1
    <3>1. i - 1 \in 1 .. Len(todo') /\ i - 1 + 1 = i
      BY <2>3, PutDoes
    <3>2. todo'[i - 1] = Write(f, v)
      BY <2>1, <3>1, PutDoes
    <3>3. Pending(f, v)'
      BY <3>1, <3>2 DEF Pending
    <3> QED BY <3>3 DEF Coming
  <2> QED BY <2>2, <2>3
<1>4. Settled(f, v) => disk[f] = v
  BY DEF Settled
<1> QED BY <1>2, <1>3, <1>4 DEF Coming

(* What holds of every write left holds of the rest.                       *)
LEMMA PutRest ==
  ASSUME Types, Put
  PROVE  /\ 1 \in 1 .. Len(todo)
         /\ \A i \in 1 .. Len(todo') :
              \E j \in 1 .. Len(todo) : j # 1 /\ todo'[i] = todo[j]
BY PutDoes

LEMMA NothingPending ==
  ASSUME todo = <<>>, NEW f, NEW v, Coming(f, v)
  PROVE  Settled(f, v)
BY DEF Coming, Pending

(* Steps that leave the files alone.                                       *)
LEMMA SameFiles ==
  ASSUME UNCHANGED files
  PROVE  /\ \A f, v : Settled(f, v)' <=> Settled(f, v)
         /\ \A v : Holds(v)' <=> Holds(v)
         /\ \A c, v : Kept(c, v)' <=> Kept(c, v)
         /\ \A m : Possible(m)' <=> Possible(m)
<1>1. disk' = disk /\ synced' = synced
  BY DEF files
<1>2. \A f, v : Settled(f, v)' <=> Settled(f, v)
  BY <1>1 DEF Settled
<1>3. \A v : Holds(v)' <=> Holds(v)
  BY <1>1 DEF Holds, Primary, Backup
<1>4. \A c, v : Kept(c, v)' <=> Kept(c, v)
  BY <1>1 DEF Kept, Settled
<1> QED BY <1>1, <1>2, <1>3, <1>4 DEF Possible

LEMMA RecoverableStays ==
  ASSUME Recoverable, UNCHANGED files, doubt \subseteq doubt'
  PROVE  Recoverable'
BY SameFiles DEF Recoverable

(* Versions a document has.                                                *)
LEMMA Found1 ==
  ASSUME Types, NEW v \in Versions, Holds(v), NEW d \in Documents
  PROVE  Load(d) = v
BY Distinct DEF Holds, Load, Primary, Backup

LEMMA Both1 ==
  ASSUME NEW v \in Versions
  PROVE  /\ Both(v) \in [Documents -> Versions]
         /\ \A d \in Documents : Both(v)[d] = v
BY DEF Both

(* A settled pair is what a load finds.                                    *)
LEMMA KeptHolds ==
  ASSUME Types, NEW v \in Versions, Kept("primary", v)
  PROVE  Holds(v)
BY Distinct DEF Kept, Settled, Holds, Primary

-----------------------------------------------------------------------------
(* Steps that write nothing.                                               *)

LEMMA RestInv ==
  ASSUME phase' = "idle", todo' = <<>>
  PROVE  PhaseInv'
BY DEF PhaseInv

LEMMA ReturnErr ==
  ASSUME Types, Return("err")
  PROVE  /\ phase' = "idle" /\ todo' = <<>> /\ outcome' = "err"
         /\ up' = up /\ next' = next /\ refresh' = refresh /\ saving' = saving
         /\ doubt' = doubt
<1>1. "err" # "ok"
  OBVIOUS
<1>2. up \in BOOLEAN
  BY DEF Types
<1> QED BY <1>1, <1>2 DEF Return, Enter

LEMMA ReturnOk ==
  ASSUME Types, Return("ok")
  PROVE  /\ phase' = "idle" /\ todo' = <<>> /\ outcome' = "ok"
         /\ up' = TRUE /\ next' = next /\ refresh' = refresh /\ saving' = saving
         /\ doubt' = IF up THEN {next} ELSE doubt
BY DEF Return, Enter

LEMMA EmptyTodo == <<>> \in Seq(Writes)
OBVIOUS

LEMMA StartupIInv ==
  ASSUME IInv, Startup
  PROVE  IInv'
<1>1. UNCHANGED files /\ doubt' = doubt /\ budget' = budget
  BY DEF Startup
<1>2. /\ phase' = "check" /\ todo' = <<>> /\ outcome' = "ok" /\ saving' = FALSE
      /\ up' = up /\ next' = next /\ refresh' = refresh
  BY DEF Startup, Enter
<1>3. Types'
  BY <1>1, <1>2, EmptyTodo DEF IInv, Types, files, Phases
<1>4. Recoverable'
  BY <1>1, RecoverableStays DEF IInv
<1>5. FaultSeen'
  BY <1>1 DEF IInv, FaultSeen, files
<1>6. PhaseInv'
  BY <1>2 DEF PhaseInv
<1> QED BY <1>3, <1>4, <1>5, <1>6 DEF IInv

LEMMA SpendFacts ==
  ASSUME Types, NEW k \in {"saves", "faults", "crashes"}, NEW bound \in Nat,
         Spend(k, bound)
  PROVE  /\ budget' \in [saves : Nat, faults : Nat, crashes : Nat]
         /\ budget[k] \in Nat /\ budget[k] < bound
         /\ budget'.faults = IF k = "faults" THEN budget.faults + 1
                                             ELSE budget.faults
         /\ budget.faults \in Nat
BY DEF Types, Spend

LEMMA SaveIInv ==
  ASSUME IInv, Save
  PROVE  IInv'
<1>0. Spend("saves", MaxSaves) /\ MaxSaves \in Nat
  BY BoundsAssumption DEF Save
<1>1. /\ UNCHANGED files /\ next' = budget.saves + 1
      /\ doubt' = doubt \cup {budget.saves + 1}
  BY DEF Save
<1>2. /\ phase' = "check" /\ todo' = <<>> /\ outcome' = "ok" /\ saving' = FALSE
      /\ up' = up /\ refresh' \in BOOLEAN
  BY DEF Save, Enter
<1>3. /\ budget' \in [saves : Nat, faults : Nat, crashes : Nat]
      /\ budget.saves \in Nat /\ budget.saves < MaxSaves
      /\ budget'.faults = budget.faults
  BY <1>0, SpendFacts DEF IInv
<1>4. budget.saves + 1 \in Versions
  BY <1>0, <1>3 DEF Versions
<1>5. Types'
  BY <1>1, <1>2, <1>3, <1>4, EmptyTodo DEF IInv, Types, files, Phases
<1>6. Recoverable'
  BY <1>1, RecoverableStays DEF IInv
<1>7. FaultSeen'
  BY <1>1, <1>3 DEF IInv, FaultSeen, files
<1>8. PhaseInv'
  BY <1>2 DEF PhaseInv
<1> QED BY <1>5, <1>6, <1>7, <1>8 DEF IInv

LEMMA RecoverImpossibleIInv ==
  ASSUME IInv, RecoverImpossible
  PROVE  IInv'
<1>1. /\ UNCHANGED files /\ Return("err")
      /\ (Spend("faults", MaxFaults) \/ UNCHANGED budget)
  BY DEF RecoverImpossible
<1>2. /\ phase' = "idle" /\ todo' = <<>> /\ outcome' = "err"
      /\ up' = up /\ next' = next /\ refresh' = refresh /\ saving' = saving
      /\ doubt' = doubt
  BY <1>1, ReturnErr DEF IInv
<1>3. /\ budget' \in [saves : Nat, faults : Nat, crashes : Nat]
      /\ budget.faults > 0 => budget'.faults > 0
  <2>1. CASE UNCHANGED budget
    BY <2>1 DEF IInv, Types
  <2>2. CASE Spend("faults", MaxFaults)
    <3>1. /\ budget' \in [saves : Nat, faults : Nat, crashes : Nat]
          /\ budget'.faults = budget.faults + 1 /\ budget.faults \in Nat
      BY <2>2, SpendFacts, BoundsAssumption DEF IInv
    <3> QED BY <3>1
  <2> QED BY <1>1, <2>1, <2>2
<1>4. Types'
  BY <1>1, <1>2, <1>3, EmptyTodo DEF IInv, Types, files, Phases
<1>5. Recoverable'
  BY <1>1, <1>2, RecoverableStays DEF IInv
<1>6. FaultSeen'
  BY <1>1, <1>3 DEF IInv, FaultSeen, files
<1>7. PhaseInv'
  BY <1>2, RestInv
<1> QED BY <1>4, <1>5, <1>6, <1>7 DEF IInv

(* Whatever a crash loses, the files are among those the invariant is      *)
(* about.                                                                  *)
LEMMA CrashIInv ==
  ASSUME IInv, Crash
  PROVE  IInv'
<1>0. DOMAIN disk = Names
  BY DEF IInv, Types
<1>1. /\ \A f \in Names : disk'[f] \in {disk[f], synced[f]}
      /\ disk' = [f \in Names |-> disk'[f]] /\ synced' = synced
  <2>1. PICK lost \in SUBSET {f \in DOMAIN disk : disk[f] # synced[f]} :
          disk' = [f \in DOMAIN disk |-> IF f \in lost THEN synced[f] ELSE disk[f]]
    BY DEF Crash
  <2>2. disk' = [f \in Names |-> IF f \in lost THEN synced[f] ELSE disk[f]]
    BY <1>0, <2>1
  <2>3. \A f \in Names : disk'[f] \in {disk[f], synced[f]}
    BY <2>2
  <2>4. disk' = [f \in Names |-> disk'[f]]
    BY <2>2
  <2> QED BY <2>3, <2>4 DEF Crash
<1>2. /\ phase' = "idle" /\ todo' = <<>> /\ up' = FALSE /\ outcome' = "err"
      /\ next' = next /\ refresh' = refresh /\ saving' = saving
      /\ doubt' = doubt
  BY DEF Crash, Enter
<1>3. /\ budget' \in [saves : Nat, faults : Nat, crashes : Nat]
      /\ budget'.faults = budget.faults
  BY SpendFacts, BoundsAssumption DEF IInv, Crash
<1>4. Marker \in Names /\ \A d \in Documents, c \in Copies : File(d, c) \in Names
  BY FileNames
<1>5. disk' \in [Names -> Contents] /\ disk'[Marker] \in Markers
  <2>1. \A f \in Names : disk'[f] \in Contents
    BY <1>1 DEF IInv, Types
  <2>2. disk'[Marker] \in Markers
    BY <1>1, <1>4 DEF IInv, Types
  <2>3. disk' \in [Names -> Contents]
    BY <1>1, <2>1
  <2> QED BY <2>2, <2>3
<1>6. Types'
  BY <1>1, <1>2, <1>3, <1>5, EmptyTodo DEF IInv, Types, Phases
<1>7. Recoverable'
  <2>1. \A m : Possible(m)' => Possible(m)
    BY <1>1, <1>4 DEF Possible
  <2>2. \A v : Holds(v) => Holds(v)'
    <3>1. \A d \in Documents : /\ disk'[Primary(d)] \in {disk[Primary(d)], synced[Primary(d)]}
                               /\ disk'[Backup(d)] \in {disk[Backup(d)], synced[Backup(d)]}
      BY <1>1, <1>4 DEF Primary, Backup, Copies
    <3>2. \A d : Primary(d)' = Primary(d) /\ Backup(d)' = Backup(d)
      BY DEF Primary, Backup, File
    <3> QED BY <1>1, <3>1 DEF Holds, Primary, Backup, File
  <2>3. \A v : \A c \in Copies : Kept(c, v) => Kept(c, v)'
    BY <1>1, <1>4 DEF Kept, Settled
  <2> QED BY <1>2, <2>1, <2>2, <2>3 DEF IInv, Recoverable, Copies
<1>8. FaultSeen'
  BY <1>1, <1>3, <1>4 DEF IInv, FaultSeen
<1>9. PhaseInv'
  BY <1>2, RestInv
<1> QED BY <1>6, <1>7, <1>8, <1>9 DEF IInv

LEMMA RefreshedIInv ==
  ASSUME IInv, Refreshed
  PROVE  IInv'
<1>1. /\ phase = "refresh" /\ UNCHANGED files /\ budget' = budget
      /\ Return("ok")
  BY DEF Refreshed
<1>2. Settled(Marker, None) /\ Kept("primary", next)
  BY <1>1 DEF IInv, PhaseInv
<1>3. /\ phase' = "idle" /\ todo' = <<>> /\ outcome' = "ok"
      /\ up' = TRUE /\ next' = next /\ refresh' = refresh /\ saving' = saving
      /\ doubt' = IF up THEN {next} ELSE doubt
  BY <1>1, ReturnOk DEF IInv
<1>4. next \in Versions /\ next \in doubt' /\ doubt' \subseteq Versions
  BY <1>3 DEF IInv, Types
<1>5. \A v : v = next => Holds(v)'
  <2>1. Holds(next)
    BY <1>2, <1>4, KeptHolds DEF IInv
  <2> QED BY <1>1, <2>1, SameFiles
<1>6. Types'
  BY <1>1, <1>3, <1>4, EmptyTodo DEF IInv, Types, files, Phases
<1>7. Recoverable'
  BY <1>1, <1>2, <1>4, <1>5, Distinct DEF Recoverable, Possible, Settled, files
<1>8. FaultSeen'
  BY <1>1 DEF IInv, FaultSeen, files
<1>9. PhaseInv'
  BY <1>3, RestInv
<1> QED BY <1>6, <1>7, <1>8, <1>9 DEF IInv

(* Beginning to rewrite the documents to one version.                      *)
LEMMA RewritingBegins ==
  ASSUME Types, NEW v \in Versions, UNCHANGED files,
         \/ todo' = ApplyPair(Both(v))
         \/ todo' = ApplyPair(Both(v)) \o <<>>
         \/ todo' = ApplyPair(Both(v)) \o RefreshBackups(Both(v))
  PROVE  todo' \in Seq(Writes) /\ Rewriting(v)'
<1> DEFINE s == ApplyPair(Both(v))
           t == RefreshBackups(Both(v))
<1>1. Both(v) \in [Documents -> Versions] /\ \A d \in Documents : Both(v)[d] = v
  BY Both1
<1>2. RewritesTo(s, Documents, Both(v))
  BY <1>1, ApplyPairRewrites
<1>3. /\ t \in Seq(Writes)
      /\ \A i \in 1 .. Len(t) : \E d \in Documents : t[i].file = Backup(d)
  BY <1>1, BackupWrites, WriteParts
<1> HIDE DEF s, t
<1>4. /\ s \in Seq(Writes)
      /\ \A i \in 1 .. Len(s) : \E d \in Documents :
           s[i].file = Backup(d) \/ s[i] = Write(Primary(d), v)
      /\ \A d \in Documents : \E i \in 1 .. Len(s) : s[i] = Write(Primary(d), v)
  BY <1>1, <1>2 DEF RewritesTo
<1>5. ASSUME NEW u \in Seq(Writes),
             \A i \in 1 .. Len(u) : \E d \in Documents :
               u[i].file = Backup(d) \/ u[i] = Write(Primary(d), v),
             \A d \in Documents : \E i \in 1 .. Len(u) : u[i] = Write(Primary(d), v),
             todo' = u
      PROVE  todo' \in Seq(Writes) /\ Rewriting(v)'
  <2>1. Rewrites(v)'
    BY <1>5 DEF Rewrites, Write, Primary, Backup, File
  <2>2. \A d \in Documents : Pending(Primary(d), v)'
    BY <1>5 DEF Pending, Write, Primary, File
  <2> QED BY <1>5, <2>1, <2>2 DEF Rewriting, Coming, Primary, File
<1>6. CASE todo' = s
  BY <1>4, <1>5, <1>6
<1>7. CASE todo' = s \o <<>>
  <2>1. s \o <<>> = s
    BY <1>4
  <2> QED BY <1>6, <1>7, <2>1
<1>8. CASE todo' = s \o t
  <2>1. s \in Seq(Writes) /\ t \in Seq(Writes)
    BY <1>3, <1>4
  <2>2. s \o t \in Seq(Writes) /\ Joins(s \o t, s, t)
    BY <2>1, Concatenated
  <2>3. PICK u : u = s \o t
    OBVIOUS
  <2>4. u \in Seq(Writes) /\ Joins(u, s, t)
    BY <2>2, <2>3
  <2>5. ASSUME NEW i \in 1 .. Len(u)
        PROVE  \E d \in Documents : u[i].file = Backup(d) \/ u[i] = Write(Primary(d), v)
    <3>1. CASE \E j \in 1 .. Len(s) : u[i] = s[j]
      BY <3>1, <1>4
    <3>2. CASE \E j \in 1 .. Len(t) : u[i] = t[j]
      BY <3>2, <1>3
    <3> QED BY <2>4, <3>1, <3>2 DEF Joins
  <2>6. \A d \in Documents : \E i \in 1 .. Len(u) : u[i] = Write(Primary(d), v)
    <3> TAKE d \in Documents
    <3>1. PICK j \in 1 .. Len(s) : s[j] = Write(Primary(d), v)
      BY <1>4
    <3> QED BY <2>4, <3>1 DEF Joins
  <2> QED BY <1>5, <1>8, <2>3, <2>4, <2>5, <2>6
<1> QED BY <1>6, <1>7, <1>8 DEF s, t

LEMMA RecoverIInv ==
  ASSUME IInv, Recover
  PROVE  IInv'
<1> DEFINE c == StageOf(disk[Marker])
           pair == [d \in Documents |-> disk[File(d, c)]]
<1>1. /\ phase = "check" /\ disk[Marker] # None /\ UNCHANGED files
      /\ phase' = "recover"
      /\ todo' = ApplyPair(pair) \o (IF disk[Marker] = "RollBack"
                                     THEN RefreshBackups(pair) ELSE <<>>)
      /\ up' = up /\ next' = next /\ outcome' = outcome /\ refresh' = refresh
      /\ saving' = saving /\ doubt' = doubt /\ budget' = budget
  BY DEF Recover, Enter, save
<1>2. ~saving /\ outcome = "ok"
  BY <1>1 DEF IInv, PhaseInv
<1>3. PICK v \in doubt : Kept(c, v)
  <2>1. disk[Marker] \in {"RollBack", "CommitNext"} /\ Possible(disk[Marker])
    BY <1>1 DEF IInv, Types, Markers, Possible
  <2> QED BY <2>1 DEF IInv, Recoverable, StageOf
<1>4. v \in Versions
  BY DEF IInv, Types
<1>5. pair = Both(v)
  BY <1>3 DEF Both, Kept, Settled
<1>6. todo' \in Seq(Writes) /\ Rewriting(v)'
  <2>1. \/ todo' = ApplyPair(Both(v)) \o <<>>
        \/ todo' = ApplyPair(Both(v)) \o RefreshBackups(Both(v))
    BY <1>1, <1>5
  <2> QED BY <1>1, <1>4, <2>1, RewritingBegins DEF IInv
<1>7. Types'
  BY <1>1, <1>6 DEF IInv, Types, files, Phases
<1>8. Recoverable'
  BY <1>1, RecoverableStays DEF IInv
<1>9. FaultSeen'
  BY <1>1 DEF IInv, FaultSeen, files
<1>10. RecoverInv'
  <2>1. \A k : k = c => Kept(k, v)'
    BY <1>1, <1>3, SameFiles
  <2>2. StageOf(disk[Marker])' = c /\ disk'[Marker] # None
    BY <1>1 DEF files
  <2>3. ~saving' /\ outcome' = "ok" /\ v \in doubt'
    BY <1>1, <1>2
  <2>4. Kept(StageOf(disk[Marker]), v)'
    BY <2>1, <2>2 DEF Kept, Settled, StageOf
  <2> QED BY <1>6, <2>2, <2>3, <2>4 DEF RecoverInv
<1>11. PhaseInv'
  BY <1>1, <1>10 DEF PhaseInv
<1> QED BY <1>7, <1>8, <1>9, <1>11 DEF IInv

LEMMA SameStaged ==
  ASSUME Staged, UNCHANGED files, next' = next, previous' = previous,
         doubt' = doubt
  PROVE  Staged'
<1>1. \A c, v : Kept(c, v)' <=> Kept(c, v)
  BY SameFiles
<1>2. PICK v \in doubt : previous = Both(v) /\ Kept("previous", v)
  BY DEF Staged
<1>3. Kept("next", next)'
  BY <1>1 DEF Staged, Kept, Settled, files
<1>4. previous' = Both(v) /\ Kept("previous", v)'
  BY <1>1, <1>2
<1> QED BY <1>2, <1>3, <1>4 DEF Staged, Both

LEMMA RollBackIInv ==
  ASSUME IInv, RollBack
  PROVE  IInv'
<1>1. /\ phase = "rollback" /\ UNCHANGED files
      /\ phase' = "restore" /\ todo' = ApplyPair(previous)
      /\ up' = up /\ next' = next /\ outcome' = outcome /\ refresh' = refresh
      /\ previous' = previous
      /\ saving' = saving /\ doubt' = doubt /\ budget' = budget
  BY DEF RollBack, Enter, save
<1>2. UndoneInv /\ Staged /\ MarkedBoth
  BY <1>1 DEF IInv, PhaseInv
<1>3. PICK v \in doubt : previous = Both(v)
  BY <1>2 DEF Staged
<1>4. v \in Versions
  BY DEF IInv, Types
<1>5. todo' \in Seq(Writes) /\ Rewriting(v)'
  BY <1>1, <1>3, <1>4, RewritingBegins DEF IInv
<1>6. Types'
  BY <1>1, <1>5 DEF IInv, Types, files, Phases
<1>7. Recoverable'
  BY <1>1, RecoverableStays DEF IInv
<1>8. FaultSeen'
  BY <1>1 DEF IInv, FaultSeen, files
<1>9. RestoreInv'
  <2>1. UndoneInv' /\ MarkedBoth'
    BY <1>1, <1>2 DEF UndoneInv, MarkedBoth, files
  <2>2. Staged'
    BY <1>1, <1>2, SameStaged
  <2>3. previous' = Both(v) /\ v \in doubt'
    BY <1>1, <1>3
  <2> QED BY <1>5, <2>1, <2>2, <2>3 DEF RestoreInv, Both
<1>10. PhaseInv'
  BY <1>1, <1>9 DEF PhaseInv
<1> QED BY <1>6, <1>7, <1>8, <1>10 DEF IInv

(* From one phase to the next.                                             *)
LEMMA AdvanceIInv ==
  ASSUME IInv, Advance
  PROVE  IInv'
<1>1. /\ todo = <<>> /\ UNCHANGED files
      /\ up' = up /\ next' = next /\ outcome' = outcome /\ refresh' = refresh
      /\ previous' = previous
      /\ saving' = saving /\ doubt' = doubt /\ budget' = budget
  BY DEF Advance, save
<1>2. Types /\ doubt \subseteq Versions /\ next \in doubt /\ next \in Versions
  BY DEF IInv, Types
<1>3. Recoverable' /\ FaultSeen'
  <2>1. Recoverable'
    BY <1>1, RecoverableStays DEF IInv
  <2>2. FaultSeen'
    BY <1>1 DEF IInv, FaultSeen, files
  <2> QED BY <2>1, <2>2
<1>4. ASSUME todo' \in Seq(Writes), phase' \in Phases PROVE Types'
  BY <1>1, <1>4 DEF IInv, Types, files
<1>5. \A f, v : Coming(f, v) => Settled(f, v)
  BY <1>1, NothingPending
<1>6. /\ \A f, v : Settled(f, v)' <=> Settled(f, v)
      /\ \A v : Holds(v)' <=> Holds(v)
      /\ \A c, v : Kept(c, v)' <=> Kept(c, v)
  BY <1>1, SameFiles
<1>7. CASE phase = "prepare" /\ Enter("apply", ApplyPair(Both(next)))
  <2>1. PrepareInv
    BY <1>7 DEF IInv, PhaseInv
  <2>2. PICK v \in doubt : previous = Both(v)
    BY <2>1 DEF PrepareInv
  <2>3. Settled(Marker, "RollBack") /\ Kept("next", next)
    BY <1>5, <2>1 DEF PrepareInv, Kept
  <2>4. Kept("previous", v)
    BY <1>2, <1>5, <2>1, <2>2, Both1 DEF PrepareInv, Kept
  <2>5. phase' = "apply" /\ todo' = ApplyPair(Both(next))
    BY <1>7 DEF Enter
  <2>6. \A w : w = next => todo' \in Seq(Writes) /\ Rewriting(w)'
    BY <1>1, <1>2, <2>5, RewritingBegins
  <2>7. Rewriting(next)'
    BY <1>1, <2>6
  <2>8. Staged /\ Staged'
    <3>1. Staged
      BY <2>2, <2>3, <2>4 DEF Staged
    <3> QED BY <1>1, <3>1, SameStaged
  <2>9. Settled(Marker, "RollBack")' /\ saving' /\ outcome' = "ok"
    BY <1>1, <2>1, <2>3 DEF PrepareInv, Settled, files
  <2>10. PhaseInv'
    BY <2>5, <2>7, <2>8, <2>9 DEF PhaseInv
  <2>11. Types'
    BY <1>4, <2>5, <2>6 DEF Phases
  <2> QED BY <1>3, <2>10, <2>11 DEF IInv
<1>8. CASE phase = "apply" /\ Enter("mark", <<Write(Marker, "CommitNext")>>)
  <2>1. /\ saving /\ outcome = "ok" /\ Staged /\ Settled(Marker, "RollBack")
        /\ Rewriting(next)
    BY <1>8 DEF IInv, PhaseInv
  <2>2. Kept("primary", next)
    BY <1>5, <2>1 DEF Rewriting, Kept, Primary
  <2>3. phase' = "mark" /\ todo' = <<Write(Marker, "CommitNext")>>
    BY <1>8 DEF Enter
  <2>4. Write(Marker, "CommitNext") \in Writes
    BY FileNames, WriteParts DEF Contents
  <2>5. /\ todo' \in Seq(Writes) /\ Len(todo') = 1
        /\ todo'[1] = Write(Marker, "CommitNext")
    BY <2>3, <2>4
  <2>6. Staged'
    BY <1>1, <2>1, SameStaged
  <2>7. saving' /\ outcome' = "ok" /\ MarkedBoth' /\ Kept("primary", next)'
    <3>1. MarkedBoth'
      BY <1>1, <2>1, Distinct DEF Settled, MarkedBoth, files
    <3>2. Kept("primary", next)'
      BY <1>1, <2>2 DEF Kept, Settled, files
    <3> QED BY <1>1, <2>1, <3>1, <3>2
  <2>8. Coming(Marker, "CommitNext")'
    BY <2>5 DEF Coming, Pending, Write, Marker
  <2>9. \A i \in 1 .. Len(todo') :
          i = Len(todo') /\ todo'[i] = Write(Marker, "CommitNext")
    BY <2>5
  <2>10. MarkInv'
    BY <2>6, <2>7, <2>8, <2>9 DEF MarkInv, Write, Marker
  <2>11. PhaseInv'
    BY <2>3, <2>10 DEF PhaseInv
  <2>12. Types'
    BY <1>4, <2>3, <2>5 DEF Phases
  <2> QED BY <1>3, <2>11, <2>12 DEF IInv
<1>9. CASE phase = "restore" /\ Enter("repair", RefreshBackups(previous))
  <2>1. RestoreInv
    BY <1>9 DEF IInv, PhaseInv
  <2>2. PICK v \in doubt : previous = Both(v) /\ Rewriting(v)
    BY <2>1 DEF RestoreInv
  <2>3. Kept("primary", v)
    BY <1>5, <2>2 DEF Rewriting, Kept, Primary
  <2>4. phase' = "repair" /\ todo' = RefreshBackups(previous)
    BY <1>9 DEF Enter
  <2>5. /\ todo' \in Seq(Writes)
        /\ \A i \in 1 .. Len(todo') : \E d \in Documents :
             todo'[i] = Write(Backup(d), previous[d])
    BY <1>2, <2>2, <2>4, Both1, BackupWrites
  <2>6. OnlyBackups'
    <3>1. \A i \in 1 .. Len(todo') : \E d \in Documents : todo'[i].file = Backup(d)
      BY <2>5, WriteParts
    <3> QED BY <3>1 DEF OnlyBackups, Backup, File
  <2>7. UndoneInv' /\ MarkedBoth' /\ Staged'
    <3>1. UndoneInv' /\ MarkedBoth'
      BY <1>1, <2>1 DEF RestoreInv, UndoneInv, MarkedBoth, files
    <3>2. Staged'
      BY <1>1, <2>1, SameStaged DEF RestoreInv
    <3> QED BY <3>1, <3>2
  <2>8. previous' = Both(v) /\ Kept("primary", v)' /\ v \in doubt'
    BY <1>1, <1>6, <2>2, <2>3
  <2>9. RepairInv'
    BY <2>6, <2>7, <2>8 DEF RepairInv, Both
  <2>10. PhaseInv'
    BY <2>4, <2>9 DEF PhaseInv
  <2>11. Types'
    BY <1>4, <2>4, <2>5 DEF Phases
  <2> QED BY <1>3, <2>10, <2>11 DEF IInv
<1>10. ASSUME phase' = "cleanup", todo' = <<>>, CleanupInv PROVE IInv'
  <2>1. PICK v \in doubt : Holds(v)
    BY <1>10 DEF CleanupInv
  <2>2. \E w \in doubt' : Holds(w)'
    BY <1>1, <1>6, <2>1
  <2>3. saving' /\ outcome' = "ok" => Kept("primary", next)'
    BY <1>1, <1>10 DEF CleanupInv, Kept, Settled, files
  <2>4. /\ saving' /\ outcome' = "err" => budget'.faults > 0
        /\ disk'[Marker] = None => synced'[Marker] = None
        /\ ~saving' => outcome' = "ok"
    BY <1>1, <1>10 DEF CleanupInv, files
  <2>5. CleanupInv'
    BY <2>2, <2>3, <2>4 DEF CleanupInv
  <2>6. PhaseInv'
    BY <1>10, <2>5 DEF PhaseInv
  <2>7. Types'
    BY <1>4, <1>10, EmptyTodo DEF Phases
  <2> QED BY <1>3, <2>6, <2>7 DEF IInv
<1>11. CASE /\ phase \in {"mark", "repair", "recover"}
            /\ Enter("cleanup", <<>>)
  <2>1. phase' = "cleanup" /\ todo' = <<>>
    BY <1>11 DEF Enter
  <2>2. CASE phase = "mark"
    <3>1. MarkInv
      BY <2>2 DEF IInv, PhaseInv
    <3>2. Holds(next)
      BY <1>2, <3>1, KeptHolds DEF MarkInv
    <3>3. CleanupInv
      BY <1>2, <3>1, <3>2 DEF CleanupInv, MarkInv, MarkedBoth
    <3> QED BY <1>10, <2>1, <3>3
  <2>3. CASE phase = "repair"
    <3>1. RepairInv
      BY <2>3 DEF IInv, PhaseInv
    <3>2. PICK v \in doubt : Kept("primary", v)
      BY <3>1 DEF RepairInv
    <3>3. Holds(v)
      BY <1>2, <3>2, KeptHolds
    <3>4. CleanupInv
      BY <3>1, <3>3 DEF CleanupInv, RepairInv, UndoneInv, MarkedBoth
    <3> QED BY <1>10, <2>1, <3>4
  <2>4. CASE phase = "recover"
    <3>1. RecoverInv
      BY <2>4 DEF IInv, PhaseInv
    <3>2. PICK v \in doubt : Rewriting(v)
      BY <3>1 DEF RecoverInv
    <3>3. Kept("primary", v)
      BY <1>5, <3>2 DEF Rewriting, Kept, Primary
    <3>4. Holds(v)
      BY <1>2, <3>3, KeptHolds
    <3>5. CleanupInv
      BY <3>1, <3>4 DEF CleanupInv, RecoverInv
    <3> QED BY <1>10, <2>1, <3>5
  <2> QED BY <1>11, <2>2, <2>3, <2>4
<1> QED BY <1>7, <1>8, <1>9, <1>11 DEF Advance

(* Steps that change no primary and no backup, and sync them at most.      *)
DocumentsStay ==
  \A d \in Documents :
    /\ disk'[Primary(d)] = disk[Primary(d)]
    /\ synced'[Primary(d)] \in {disk[Primary(d)], synced[Primary(d)]}
    /\ disk'[Backup(d)] = disk[Backup(d)]
    /\ synced'[Backup(d)] \in {disk[Backup(d)], synced[Backup(d)]}

LEMMA HoldsStays ==
  ASSUME DocumentsStay
  PROVE  /\ \A v : Holds(v) => Holds(v)'
         /\ \A v : Kept("primary", v) => Kept("primary", v)'
<1>1. \A v : Holds(v) => Holds(v)'
  BY DEF DocumentsStay, Holds, Primary, Backup, File
<1>2. \A v : Kept("primary", v) => Kept("primary", v)'
  BY DEF DocumentsStay, Kept, Settled, Primary, File
<1> QED BY <1>1, <1>2

(* With no marker left, only the documents count.                          *)
LEMMA UnmarkedRecoverable ==
  ASSUME Settled(Marker, None)', NEW v \in doubt', Holds(v)'
  PROVE  Recoverable' /\ FaultSeen'
BY Distinct DEF Settled, Recoverable, Possible, FaultSeen

LEMMA MoveMarkerIInv ==
  ASSUME IInv, MoveMarker
  PROVE  IInv'
<1>1. /\ phase = "cleanup" /\ phase' = "delete" /\ todo' = <<>>
      /\ up' = up /\ next' = next /\ outcome' = outcome /\ refresh' = refresh
      /\ saving' = saving /\ doubt' = doubt /\ budget' = budget
  BY DEF MoveMarker, Enter, save
<1>2. CleanupInv /\ Types
  BY <1>1 DEF IInv, PhaseInv
<1>3. PICK v \in doubt : Holds(v)
  BY <1>2 DEF CleanupInv
<1>4. /\ Marker \in Names
      /\ \A d \in Documents : /\ Primary(d) \in Names /\ Primary(d) # Marker
                              /\ Backup(d) \in Names /\ Backup(d) # Marker
  BY FileNames DEF Primary, Backup, Copies
<1>5. /\ disk' \in [Names -> Contents] /\ synced' \in [Names -> Contents]
      /\ Settled(Marker, None)' /\ DocumentsStay
  <2>1. CASE disk[Marker] = None
    <3>1. disk' = disk /\ synced' = synced
      BY <2>1 DEF MoveMarker, files
    <3> QED BY <1>2, <2>1, <3>1
         DEF Types, CleanupInv, Settled, DocumentsStay, Primary, Backup
  <2>2. CASE disk[Marker] # None
    <3>1. Wrote(Marker, None)
      BY <2>2 DEF MoveMarker, Wrote
    <3>2. /\ disk' \in [Names -> Contents] /\ synced' \in [Names -> Contents]
          /\ \A g \in Names : disk'[g] = IF g = Marker THEN None ELSE disk[g]
          /\ \A g \in Names : synced'[g] = disk'[g]
      BY <1>2, <1>4, <3>1, WrittenFiles DEF Contents, Markers
    <3> QED BY <1>4, <3>2 DEF Settled, DocumentsStay, Primary, Backup
  <2> QED BY <2>1, <2>2
<1>6. Holds(v)' /\ v \in doubt'
  BY <1>1, <1>3, <1>5, HoldsStays
<1>7. Types'
  BY <1>1, <1>5, EmptyTodo DEF IInv, Types, Phases, Settled, Markers
<1>8. Recoverable' /\ FaultSeen'
  BY <1>5, <1>6, UnmarkedRecoverable
<1>9. CleanupInv'
  <2>1. saving' /\ outcome' = "ok" => Kept("primary", next)'
    <3>1. \A w : w = next /\ saving /\ outcome = "ok" => Kept("primary", w)'
      BY <1>2, <1>5, HoldsStays DEF CleanupInv
    <3> QED BY <1>1, <3>1
  <2>2. /\ saving' /\ outcome' = "err" => budget'.faults > 0
        /\ ~saving' => outcome' = "ok"
    BY <1>1, <1>2 DEF CleanupInv
  <2> QED BY <1>5, <1>6, <2>1, <2>2 DEF CleanupInv, Settled
<1>10. PhaseInv'
  BY <1>1, <1>5, <1>9 DEF PhaseInv
<1> QED BY <1>7, <1>8, <1>10 DEF IInv

LEMMA FaultFacts ==
  ASSUME Types, Spend("faults", MaxFaults)
  PROVE  /\ budget' \in [saves : Nat, faults : Nat, crashes : Nat]
         /\ budget'.faults > 0
         /\ MaxFaults <= 1 => budget.faults = 0
<1>1. /\ budget' \in [saves : Nat, faults : Nat, crashes : Nat]
      /\ budget.faults \in Nat /\ budget.faults < MaxFaults
      /\ budget'.faults = budget.faults + 1
  BY SpendFacts, BoundsAssumption
<1> QED BY <1>1, BoundsAssumption

(* The marker was moved away, or not, and the directory is not synced.     *)
LEMMA MoveMarkerFailsIInv ==
  ASSUME IInv, MoveMarkerFails
  PROVE  IInv'
<1>1. /\ phase = "cleanup" /\ Return("err") /\ synced' = synced
      /\ Spend("faults", MaxFaults)
      /\ disk' = disk \/ disk' = [disk EXCEPT ![Marker] = None]
  BY DEF MoveMarkerFails
<1>2. CleanupInv /\ Types
  BY <1>1 DEF IInv, PhaseInv
<1>3. PICK v \in doubt : Holds(v)
  BY <1>2 DEF CleanupInv
<1>4. /\ phase' = "idle" /\ todo' = <<>> /\ outcome' = "err"
      /\ up' = up /\ next' = next /\ refresh' = refresh /\ saving' = saving
      /\ doubt' = doubt
  BY <1>1, <1>2, ReturnErr
<1>5. /\ Marker \in Names
      /\ \A d \in Documents, c \in Copies : /\ File(d, c) \in Names
                                            /\ File(d, c) # Marker
  BY FileNames
<1>6. /\ disk' \in [Names -> Contents]
      /\ \A f \in Names : f # Marker => disk'[f] = disk[f]
      /\ disk'[Marker] \in {disk[Marker], None}
  BY <1>1, <1>2, <1>5 DEF Types, Contents
<1>7. Holds(v)'
  <2>1. DocumentsStay
    BY <1>1, <1>5, <1>6 DEF DocumentsStay, Primary, Backup, Copies
  <2> QED BY <1>3, <2>1, HoldsStays
<1>8. \A c \in Copies : \A w : Kept(c, w) => Kept(c, w)'
  BY <1>1, <1>5, <1>6 DEF Kept, Settled
<1>9. Types'
  BY <1>1, <1>4, <1>6, FaultFacts, EmptyTodo DEF IInv, Types, Phases, Markers
<1>10. Recoverable'
  <2>1. Possible(None)' => \E w \in doubt' : Holds(w)'
    BY <1>4, <1>7
  <2>2. /\ Possible("RollBack")' => Possible("RollBack")
        /\ Possible("CommitNext")' => Possible("CommitNext")
    BY <1>1, <1>6, Distinct DEF Possible
  <2> QED BY <1>4, <1>8, <2>1, <2>2 DEF IInv, Recoverable, Copies
<1>11. FaultSeen'
  BY <1>1, <1>2, FaultFacts DEF FaultSeen
<1>12. PhaseInv'
  BY <1>4, RestInv
<1> QED BY <1>9, <1>10, <1>11, <1>12 DEF IInv

LEMMA DeleteStagesIInv ==
  ASSUME IInv, DeleteStages
  PROVE  IInv'
<1>1. /\ phase = "delete" /\ synced' = synced /\ budget' = budget
      /\ disk' = [f \in DOMAIN disk |-> IF f \in Stages THEN None ELSE disk[f]]
  BY DEF DeleteStages
<1>2. CleanupInv /\ Settled(Marker, None) /\ Types
  BY <1>1 DEF IInv, PhaseInv
<1>3. PICK v \in doubt : Holds(v)
  BY <1>2 DEF CleanupInv
<1>4. /\ Marker \in Names /\ Marker \notin Stages
      /\ \A d \in Documents : /\ Primary(d) \in Names /\ Primary(d) \notin Stages
                              /\ Backup(d) \in Names /\ Backup(d) \notin Stages
  BY FileNames DEF Primary, Backup, Copies
<1>5. /\ disk' \in [Names -> Contents]
      /\ \A f \in Names : disk'[f] = IF f \in Stages THEN None ELSE disk[f]
  BY <1>1, <1>2 DEF Types, Contents
<1>6. Settled(Marker, None)' /\ DocumentsStay
  BY <1>1, <1>2, <1>4, <1>5 DEF Settled, DocumentsStay
<1>7. /\ \A w : Holds(w) => Holds(w)'
      /\ \A w : Kept("primary", w) => Kept("primary", w)'
  BY <1>6, HoldsStays
<1>8. next \in doubt /\ next \in Versions /\ saving \in BOOLEAN /\ outcome \in {"ok", "err"}
  BY <1>2 DEF Types
<1>9. CASE saving /\ outcome = "ok" /\ Return("ok")
  <2>1. /\ phase' = "idle" /\ todo' = <<>> /\ outcome' = "ok"
        /\ up' = TRUE /\ next' = next /\ refresh' = refresh /\ saving' = saving
        /\ doubt' = IF up THEN {next} ELSE doubt
    BY <1>2, <1>9, ReturnOk
  <2>2. Holds(next)
    BY <1>2, <1>8, <1>9, KeptHolds DEF CleanupInv
  <2>3. \A w : w = next => w \in doubt' /\ Holds(w)'
    BY <1>7, <1>8, <2>1, <2>2
  <2>4. Types'
    BY <1>1, <1>2, <1>5, <1>6, <1>8, <2>1, EmptyTodo
       DEF Types, Phases, Settled, Markers
  <2>5. Recoverable' /\ FaultSeen'
    BY <1>6, <2>3, UnmarkedRecoverable
  <2>6. PhaseInv'
    BY <2>1, RestInv
  <2> QED BY <2>4, <2>5, <2>6 DEF IInv
<1>10. CASE saving /\ outcome = "err" /\ Return("err")
  <2>1. /\ phase' = "idle" /\ todo' = <<>> /\ outcome' = "err"
        /\ up' = up /\ next' = next /\ refresh' = refresh /\ saving' = saving
        /\ doubt' = doubt
    BY <1>2, <1>10, ReturnErr
  <2>2. Types'
    BY <1>1, <1>2, <1>5, <1>6, <2>1, EmptyTodo
       DEF Types, Phases, Settled, Markers
  <2>3. Recoverable' /\ FaultSeen'
    BY <1>3, <1>6, <1>7, <2>1, UnmarkedRecoverable
  <2>4. PhaseInv'
    BY <2>1, RestInv
  <2> QED BY <2>2, <2>3, <2>4 DEF IInv
<1>11. CASE /\ saving /\ outcome = "ok"
            /\ Enter("refresh", RefreshBackups(Both(next)))
            /\ UNCHANGED <<up, save, doubt>>
  <2>1. /\ phase' = "refresh" /\ todo' = RefreshBackups(Both(next))
        /\ up' = up /\ next' = next /\ refresh' = refresh /\ saving' = saving
        /\ outcome' = outcome /\ doubt' = doubt
    BY <1>11 DEF Enter, save
  <2>2. /\ todo' \in Seq(Writes)
        /\ \A i \in 1 .. Len(todo') : \E d \in Documents : todo'[i].file = Backup(d)
    BY <1>8, <2>1, Both1, BackupWrites, WriteParts
  <2>3. OnlyBackups'
    BY <2>2 DEF OnlyBackups, Backup, File
  <2>4. Kept("primary", next)'
    <3>1. \A w : w = next => Kept("primary", w)'
      BY <1>2, <1>7, <1>11 DEF CleanupInv
    <3> QED BY <2>1, <3>1
  <2>5. Types'
    BY <1>1, <1>2, <1>5, <1>6, <2>1, <2>2
       DEF Types, Phases, Settled, Markers
  <2>6. Recoverable' /\ FaultSeen'
    BY <1>3, <1>6, <1>7, <2>1, UnmarkedRecoverable
  <2>7. PhaseInv'
    BY <1>6, <1>11, <2>1, <2>3, <2>4 DEF PhaseInv
  <2> QED BY <2>5, <2>6, <2>7 DEF IInv
<1>12. CASE ~saving /\ Enter("load", <<>>) /\ UNCHANGED <<up, save, doubt>>
  <2>1. /\ phase' = "load" /\ todo' = <<>>
        /\ up' = up /\ next' = next /\ refresh' = refresh /\ saving' = saving
        /\ outcome' = outcome /\ doubt' = doubt
    BY <1>12 DEF Enter, save
  <2>2. Types'
    BY <1>1, <1>2, <1>5, <1>6, <2>1, EmptyTodo
       DEF Types, Phases, Settled, Markers
  <2>3. Recoverable' /\ FaultSeen'
    BY <1>3, <1>6, <1>7, <2>1, UnmarkedRecoverable
  <2>4. PhaseInv'
    BY <1>2, <1>6, <1>12, <2>1 DEF PhaseInv, CleanupInv, Settled
  <2> QED BY <2>2, <2>3, <2>4 DEF IInv
<1>13. \/ saving /\ Return(outcome)
       \/ /\ saving /\ outcome # "err"
          /\ Enter("refresh", RefreshBackups(Both(next)))
          /\ UNCHANGED <<up, save, doubt>>
       \/ ~saving /\ Enter("load", <<>>) /\ UNCHANGED <<up, save, doubt>>
  BY DEF DeleteStages
<1> QED BY <1>8, <1>9, <1>10, <1>11, <1>12, <1>13

(* The recovery is complete or was not needed: the documents are loaded,   *)
(* and a save goes on to stage them.                                       *)
LEMMA PrepareBegins ==
  ASSUME Types, NEW v \in Versions, next' = next, todo' = Prepare(Both(v), next),
         previous' = Both(v)
  PROVE  /\ todo' \in Seq(Writes)
         /\ Coming(Marker, "RollBack")'
         /\ \A d \in Documents : Coming(File(d, "previous"), previous[d])'
         /\ \A d \in Documents : Coming(File(d, "next"), next)'
         /\ \A i \in 1 .. Len(todo') :
              \/ todo'[i] = Write(Marker, "RollBack") /\ i = Len(todo')
              \/ \E d \in Documents :
                   todo'[i] = Write(File(d, "previous"), previous'[d])
              \/ \E d \in Documents : todo'[i] = Write(File(d, "next"), next')
<1>1. /\ next \in Contents /\ v \in Contents /\ "RollBack" \in Contents
      /\ "state" \in Documents /\ "projects" \in Documents
      /\ \A d \in Documents : d = "state" \/ d = "projects"
      /\ \A d \in Documents : Both(v)[d] = v
  BY Both1 DEF Types, Contents, Documents
<1> DEFINE w1 == Write(File("state", "previous"), v)
           w2 == Write(File("projects", "previous"), v)
           w3 == Write(File("state", "next"), next)
           w4 == Write(File("projects", "next"), next)
           w5 == Write(Marker, "RollBack")
<1>2. /\ File("state", "previous") \in Names /\ File("projects", "previous") \in Names
      /\ File("state", "next") \in Names /\ File("projects", "next") \in Names
      /\ Marker \in Names
  BY <1>1, FileNames DEF Copies
<1>3. w1 \in Writes /\ w2 \in Writes /\ w3 \in Writes /\ w4 \in Writes /\ w5 \in Writes
  BY <1>1, <1>2, WriteParts
<1>4. todo' = <<w1, w2, w3, w4, w5>>
  BY <1>1 DEF Prepare
<1>5. /\ w1 = Write(File("state", "previous"), previous'["state"])
      /\ w2 = Write(File("projects", "previous"), previous'["projects"])
      /\ w3 = Write(File("state", "next"), next')
      /\ w4 = Write(File("projects", "next"), next')
  BY <1>1
<1> HIDE DEF w1, w2, w3, w4
<1>6. /\ todo' \in Seq(Writes) /\ Len(todo') = 5 /\ todo'[1] = w1 /\ todo'[2] = w2
      /\ todo'[3] = w3 /\ todo'[4] = w4 /\ todo'[5] = w5
  BY <1>3, <1>4
<1>7. Coming(Marker, "RollBack")'
  BY <1>6 DEF Coming, Pending, Write, Marker
<1>8. \A d \in Documents : Coming(File(d, "previous"), previous[d])'
  <2> TAKE d \in Documents
  <2>1. \E i \in 1 .. Len(todo') :
          todo'[i] = Write(File(d, "previous"), previous'[d])
    <3>1. CASE d = "state"
      BY <1>5, <1>6, <3>1
    <3>2. CASE d = "projects"
      BY <1>5, <1>6, <3>2
    <3> QED BY <1>1, <3>1, <3>2
  <2> QED BY <2>1 DEF Coming, Pending, Write, File
<1>9. \A d \in Documents : Coming(File(d, "next"), next)'
  <2> TAKE d \in Documents
  <2>1. \E i \in 1 .. Len(todo') : todo'[i] = Write(File(d, "next"), next')
    <3>1. CASE d = "state"
      BY <1>5, <1>6, <3>1
    <3>2. CASE d = "projects"
      BY <1>5, <1>6, <3>2
    <3> QED BY <1>1, <3>1, <3>2
  <2> QED BY <2>1 DEF Coming, Pending, Write, File
<1>10. ASSUME NEW i \in 1 .. Len(todo')
       PROVE  \/ todo'[i] = Write(Marker, "RollBack") /\ i = Len(todo')
              \/ \E d \in Documents :
                   todo'[i] = Write(File(d, "previous"), previous'[d])
              \/ \E d \in Documents : todo'[i] = Write(File(d, "next"), next')
  <2>1. i = 1 \/ i = 2 \/ i = 3 \/ i = 4 \/ i = 5
    BY <1>6
  <2>2. CASE i \in {1, 2}
    BY <1>1, <1>5, <1>6, <2>2
  <2>3. CASE i \in {3, 4}
    BY <1>1, <1>5, <1>6, <2>3
  <2>4. CASE i = 5
    BY <1>6, <2>4
  <2> QED BY <2>1, <2>2, <2>3, <2>4
<1> QED BY <1>6, <1>7, <1>8, <1>9, <1>10

LEMMA LoadPreviousIInv ==
  ASSUME IInv, LoadPrevious
  PROVE  IInv'
<1> DEFINE old == [d \in Documents |-> Load(d)]
<1>1. /\ disk[Marker] = None /\ ~saving /\ outcome = "ok"
  BY DEF LoadPrevious, IInv, PhaseInv
<1>2. Types /\ Recoverable /\ FaultSeen
  BY DEF IInv
<1>3. PICK v \in doubt : Holds(v)
  BY <1>1, <1>2 DEF Recoverable, Possible
<1>4. v \in Versions /\ next \in doubt /\ doubt \subseteq Versions
  BY <1>2 DEF Types
<1>5. old = Both(v)
  BY <1>2, <1>3, <1>4, Found1 DEF Both
<1>6. /\ Marker \in Names
      /\ \A d \in Documents, c \in Copies : /\ File(d, c) \in Names
                                            /\ File(d, c) # Marker
      /\ \A d, e \in Documents, c, k \in Copies :
           File(d, c) = File(e, k) => d = e /\ c = k
  BY FileNames
<1>7. /\ disk' \in [Names -> Contents] /\ synced' \in [Names -> Contents]
      /\ disk'[Marker] = None /\ synced'[Marker] \in {None, synced[Marker]}
      /\ Holds(v)'
      /\ \A c \in {"previous", "next"} : \A w : Kept(c, w) => Kept(c, w)'
      /\ budget' \in [saves : Nat, faults : Nat, crashes : Nat]
      /\ synced'[Marker] # None => budget'.faults > 0
  <2>1. CASE UNCHANGED files
    <3>1. budget' \in [saves : Nat, faults : Nat, crashes : Nat]
      BY <1>2, FaultFacts DEF LoadPrevious, Types
    <3>2. synced[Marker] # None => budget'.faults > 0
      BY <1>1, <1>2, FaultFacts DEF LoadPrevious, FaultSeen
    <3>3. Holds(v)' /\ \A c, w : Kept(c, w)' <=> Kept(c, w)
      BY <1>3, <2>1, SameFiles
    <3> QED BY <1>1, <1>2, <2>1, <3>1, <3>2, <3>3 DEF Types, files
  <2>2. CASE /\ disk' = Repaired
             /\ synced' = (IF Repaired = disk THEN synced ELSE disk')
             /\ Repaired # disk
             /\ budget' = budget
    <3>1. /\ DOMAIN disk = Names
          /\ \A f \in Names : disk[f] \in Contents
      BY <1>2 DEF Types
    <3>2. \A f \in Names :
            Repaired[f] = IF \E d \in Documents : f = File(d, "backup") /\ disk[f] = None
                          THEN disk[File(f.doc, "primary")] ELSE disk[f]
      BY <3>1 DEF Repaired
    <3>3. \A d \in Documents :
            Repaired[File(d, "backup")] = IF disk[File(d, "backup")] = None
                                          THEN disk[File(d, "primary")]
                                          ELSE disk[File(d, "backup")]
      <4>1. \A d \in Documents : File(d, "backup").doc = d /\ File(d, "backup") \in Names
        BY <1>6 DEF File, Copies
      <4> QED BY <3>2, <4>1
    <3>4. /\ Repaired[Marker] = None
          /\ \A d \in Documents, c \in {"primary", "previous", "next"} :
               Repaired[File(d, c)] = disk[File(d, c)]
      <4>1. \A d \in Documents : Marker # File(d, "backup")
        BY <1>6 DEF Copies
      <4>2. \A d, e \in Documents, c \in {"primary", "previous", "next"} :
              File(d, c) # File(e, "backup") /\ File(d, c) \in Names
        BY <1>6 DEF Copies
      <4> QED BY <1>1, <1>6, <3>2, <4>1, <4>2
    <3>5. Repaired \in [Names -> Contents]
      <4>1. \A d \in Documents : disk[File(d, "primary")] \in Contents
        BY <1>6, <3>1 DEF Copies
      <4>2. \A f \in Names : Repaired[f] \in Contents
        <5> TAKE f \in Names
        <5>1. CASE \E d \in Documents : f = File(d, "backup") /\ disk[f] = None
          <6>1. PICK d \in Documents : f = File(d, "backup")
            BY <5>1
          <6> QED BY <3>1, <3>3, <4>1, <6>1
        <5>2. CASE ~\E d \in Documents : f = File(d, "backup") /\ disk[f] = None
          BY <3>1, <3>2, <5>2
        <5> QED BY <5>1, <5>2
      <4>3. Repaired = [f \in Names |-> Repaired[f]]
        BY <3>1 DEF Repaired
      <4> QED BY <4>2, <4>3
    <3>6. disk' = Repaired /\ synced' = Repaired
      BY <2>2
    <3> HIDE DEF Repaired
    <3>7. Holds(v)'
      <4>1. \A d \in Documents :
              /\ disk'[Primary(d)] = disk[Primary(d)]
              /\ synced'[Primary(d)] = disk[Primary(d)]
              /\ disk'[Backup(d)] = IF disk[Backup(d)] = None
                                    THEN disk[Primary(d)] ELSE disk[Backup(d)]
              /\ synced'[Backup(d)] = disk'[Backup(d)]
        BY <3>3, <3>4, <3>6 DEF Primary, Backup
      <4> QED BY <1>3, <4>1 DEF Holds, Primary, Backup, File
    <3>8. \A c \in {"previous", "next"} : \A w : Kept(c, w) => Kept(c, w)'
      BY <3>4, <3>6 DEF Kept, Settled
    <3> QED BY <1>2, <2>2, <3>4, <3>5, <3>6, <3>7, <3>8 DEF Types
  <2>3. CASE /\ disk' = Repaired
             /\ synced' = (IF Repaired = disk THEN synced ELSE disk')
             /\ Repaired = disk
             /\ UNCHANGED budget
    <3>1. UNCHANGED files
      BY <2>3 DEF files
    <3> QED BY <2>1, <3>1
  <2> QED BY <2>1, <2>2, <2>3 DEF LoadPrevious
<1> HIDE DEF old
<1>8. disk'[Marker] \in Markers /\ synced'[Marker] \in Markers
  BY <1>2, <1>7 DEF Types, Markers
<1>9. FaultSeen'
  BY <1>7 DEF FaultSeen
<1>10. ASSUME doubt' = doubt PROVE Recoverable'
  <2>1. Possible(None)' => \E w \in doubt' : Holds(w)'
    BY <1>7, <1>10
  <2>2. /\ Possible("RollBack")' => Possible("RollBack")
        /\ Possible("CommitNext")' => Possible("CommitNext")
    BY <1>7, Distinct DEF Possible
  <2> QED BY <1>2, <1>7, <1>10, <2>1, <2>2 DEF Recoverable
<1>11. CASE /\ up /\ previous' = old /\ saving' = TRUE
            /\ Enter("prepare", Prepare(old, next))
            /\ UNCHANGED <<up, next, outcome, refresh, doubt>>
  <2>1. /\ phase' = "prepare" /\ todo' = Prepare(Both(v), next)
        /\ previous' = Both(v) /\ saving' = TRUE
        /\ up' = up /\ next' = next /\ outcome' = outcome /\ refresh' = refresh
        /\ doubt' = doubt
    BY <1>5, <1>11 DEF Enter
  <2>2. /\ todo' \in Seq(Writes)
        /\ Coming(Marker, "RollBack")'
        /\ \A d \in Documents : Coming(File(d, "previous"), previous[d])'
        /\ \A d \in Documents : Coming(File(d, "next"), next)'
        /\ \A i \in 1 .. Len(todo') :
             \/ todo'[i] = Write(Marker, "RollBack") /\ i = Len(todo')
             \/ \E d \in Documents :
                  todo'[i] = Write(File(d, "previous"), previous'[d])
             \/ \E d \in Documents : todo'[i] = Write(File(d, "next"), next')
    BY <1>2, <1>4, <2>1, PrepareBegins
  <2>3. Types'
    BY <1>2, <1>7, <1>8, <2>1, <2>2 DEF Types, Phases
  <2>4. PrepareInv'
    <3>1. \A i \in 1 .. Len(todo)' :
            \/ (todo[i] = Write(Marker, "RollBack") /\ i = Len(todo))'
            \/ \E d \in Documents : (todo[i] = Write(File(d, "previous"), previous[d]))'
            \/ \E d \in Documents : (todo[i] = Write(File(d, "next"), next))'
      BY <2>2 DEF Write, File, Marker
    <3>2. v \in doubt' /\ previous' = Both(v) /\ Holds(v)'
      BY <1>7, <2>1
    <3> QED BY <1>1, <1>7, <2>1, <2>2, <3>1, <3>2 DEF PrepareInv, Both
  <2>5. PhaseInv'
    BY <2>1, <2>4 DEF PhaseInv
  <2>6. Recoverable'
    BY <1>10, <2>1
  <2> QED BY <1>9, <2>3, <2>5, <2>6 DEF IInv
<1>12. CASE ~up /\ Return("ok")
  <2>1. /\ phase' = "idle" /\ todo' = <<>> /\ outcome' = "ok"
        /\ up' = TRUE /\ next' = next /\ refresh' = refresh /\ saving' = saving
        /\ doubt' = doubt
    BY <1>2, <1>12, ReturnOk
  <2>2. Types'
    BY <1>2, <1>7, <1>8, <2>1, EmptyTodo DEF Types, Phases
  <2>3. Recoverable'
    BY <1>10, <2>1
  <2>4. PhaseInv'
    BY <2>1, RestInv
  <2> QED BY <1>9, <2>2, <2>3, <2>4 DEF IInv
<1> QED BY <1>11, <1>12 DEF LoadPrevious, old

-----------------------------------------------------------------------------
(* A write that succeeds.                                                  *)

LEMMA PutTypes ==
  ASSUME Types, Put, First.file = Marker => First.version \in Markers
  PROVE  Types' /\ FaultSeen'
<1>1. /\ disk' \in [Names -> Contents] /\ synced' \in [Names -> Contents]
      /\ disk'[Marker] \in Markers /\ synced'[Marker] \in Markers
      /\ synced'[Marker] = disk'[Marker]
  BY PutDoes, WrittenFiles, FileNames
<1>2. todo' \in Seq(Writes) /\ UNCHANGED <<up, phase, save, doubt, budget>>
  BY PutDoes
<1> QED BY <1>1, <1>2 DEF Types, FaultSeen, save

(* A write to a primary or a backup leaves the marker and the stages.      *)
OffStages ==
  /\ First.file # Marker
  /\ \A d \in Documents, c \in {"previous", "next"} : First.file # File(d, c)

LEMMA StagesStay ==
  ASSUME Types, Put, OffStages
  PROVE  /\ disk'[Marker] = disk[Marker] /\ synced'[Marker] = disk[Marker]
         /\ \A c \in {"previous", "next"} : \A v : Kept(c, v) => Kept(c, v)'
         /\ Types' /\ FaultSeen'
         /\ Staged => Staged'
<1>1. \A g \in Names : /\ g # First.file => disk'[g] = disk[g]
                       /\ synced'[g] = disk'[g]
  BY PutDoes, WrittenFiles DEF OffStages
<1>2. disk'[Marker] = disk[Marker] /\ synced'[Marker] = disk[Marker]
  BY <1>1, FileNames DEF OffStages
<1>3. \A c \in {"previous", "next"} : \A v : Kept(c, v) => Kept(c, v)'
  BY <1>1, FileNames DEF Kept, Settled, OffStages, Copies
<1>4. Types' /\ FaultSeen'
  BY PutTypes DEF OffStages
<1>5. ASSUME Staged PROVE Staged'
  <2>1. PICK v \in doubt : previous = Both(v) /\ Kept("previous", v)
    BY <1>5 DEF Staged
  <2>2. next' = next /\ previous' = previous /\ doubt' = doubt
    BY PutDoes DEF save
  <2>3. Kept("previous", v)' /\ previous' = Both(v) /\ v \in doubt'
    BY <1>3, <2>1, <2>2
  <2>4. \A w : w = next => Kept("next", w)'
    BY <1>3, <1>5 DEF Staged
  <2>5. Kept("next", next)'
    BY <2>2, <2>4
  <2> QED BY <2>3, <2>5 DEF Staged, Both
<1> QED BY <1>2, <1>3, <1>4, <1>5

LEMMA MarkedRecoverable ==
  ASSUME IInv, Put, OffStages, disk[Marker] # None
  PROVE  Recoverable'
<1>1. Types /\ Recoverable
  BY DEF IInv
<1>2. /\ disk'[Marker] = disk[Marker] /\ synced'[Marker] = disk[Marker]
      /\ \A c \in {"previous", "next"} : \A v : Kept(c, v) => Kept(c, v)'
  BY <1>1, StagesStay
<1>3. doubt' = doubt
  BY <1>1, PutDoes
<1>4. \A m : Possible(m)' => Possible(m) /\ m = disk[Marker]
  BY <1>2 DEF Possible
<1> QED BY <1>1, <1>2, <1>3, <1>4 DEF Recoverable

LEMMA RewritePut ==
  ASSUME Types, Put, NEW v \in Versions, Rewriting(v)
  PROVE  Rewriting(v)' /\ OffStages
<1>1. 1 \in 1 .. Len(todo)
  BY PutRest
<1>2. PICK e \in Documents : First.file = Backup(e) \/ First = Write(Primary(e), v)
  BY <1>1 DEF Rewriting, Rewrites, First
<1>3. First.file = Backup(e) \/ (First.file = Primary(e) /\ First.version = v)
  BY <1>2, WriteParts
<1>4. OffStages
  <2>1. Backup(e) # Marker /\ Primary(e) # Marker
    BY FileNames DEF Backup, Primary, Copies
  <2>2. \A d \in Documents, c \in {"previous", "next"} :
          Backup(e) # File(d, c) /\ Primary(e) # File(d, c)
    BY FileNames DEF Backup, Primary, Copies
  <2> QED BY <1>3, <2>1, <2>2 DEF OffStages
<1>5. ASSUME NEW d \in Documents PROVE Coming(Primary(d), v)'
  <2>1. Primary(d) \in Names /\ Primary(d) # Backup(e)
    BY FileNames DEF Primary, Backup, Copies
  <2>2. First.file = Primary(d) => First.version = v
    BY <1>3, <2>1
  <2>3. Coming(Primary(d), v)
    BY DEF Rewriting
  <2>4. \A f \in Names : f = Primary(d) => Coming(f, v)'
    BY <1>4, <2>2, <2>3, PutKeeps DEF OffStages
  <2> QED BY <2>1, <2>4 DEF Primary, File
<1>6. Rewrites(v)'
  <2>1. \A i \in 1 .. Len(todo') : \E d \in Documents :
          todo'[i].file = Backup(d) \/ todo'[i] = Write(Primary(d), v)
    BY PutRest DEF Rewriting, Rewrites
  <2> QED BY <2>1 DEF Rewrites, Write, Primary, Backup, File
<1> QED BY <1>4, <1>5, <1>6 DEF Rewriting

LEMMA BackupPut ==
  ASSUME Types, Put, OnlyBackups
  PROVE  /\ OnlyBackups' /\ OffStages
         /\ \A v : Kept("primary", v) => Kept("primary", v)'
<1>1. PICK e \in Documents : First.file = Backup(e)
  BY PutRest DEF OnlyBackups, First
<1>2. OffStages
  BY <1>1, FileNames DEF OffStages, Backup, Copies
<1>3. OnlyBackups'
  <2>1. \A i \in 1 .. Len(todo') : \E d \in Documents : todo'[i].file = Backup(d)
    BY PutRest DEF OnlyBackups
  <2> QED BY <2>1 DEF OnlyBackups, Backup, File
<1>4. \A v : Kept("primary", v) => Kept("primary", v)'
  <2>1. \A g \in Names : /\ g # First.file => disk'[g] = disk[g]
                         /\ synced'[g] = disk'[g]
    BY <1>2, PutDoes, WrittenFiles DEF OffStages
  <2>2. \A d \in Documents : /\ File(d, "primary") \in Names
                             /\ File(d, "primary") # First.file
    BY <1>1, FileNames DEF Backup, Copies
  <2> QED BY <2>1, <2>2 DEF Kept, Settled
<1> QED BY <1>2, <1>3, <1>4

LEMMA PutApply ==
  ASSUME IInv, Put, phase = "apply"
  PROVE  IInv'
<1>1. /\ saving /\ outcome = "ok" /\ Staged /\ Settled(Marker, "RollBack")
      /\ Rewriting(next) /\ Types /\ next \in Versions
  BY DEF IInv, PhaseInv, Types
<1>2. \A v : v = next => Rewriting(v)' /\ OffStages
  BY <1>1, RewritePut
<1>3. /\ phase' = "apply" /\ saving' /\ outcome' = "ok" /\ next' = next
  BY <1>1, PutDoes DEF save
<1>4. /\ disk'[Marker] = disk[Marker] /\ synced'[Marker] = disk[Marker]
      /\ Types' /\ FaultSeen' /\ Staged'
  BY <1>1, <1>2, StagesStay
<1>5. Settled(Marker, "RollBack")'
  BY <1>1, <1>4 DEF Settled
<1>6. Recoverable'
  BY <1>1, <1>2, MarkedRecoverable, Distinct DEF Settled
<1>7. Rewriting(next)'
  BY <1>2, <1>3
<1>8. PhaseInv'
  BY <1>3, <1>4, <1>5, <1>7 DEF PhaseInv
<1> QED BY <1>4, <1>6, <1>8 DEF IInv

LEMMA PutRecover ==
  ASSUME IInv, Put, phase = "recover"
  PROVE  IInv'
<1>1. RecoverInv /\ Types
  BY DEF IInv, PhaseInv
<1>2. PICK v \in doubt : Kept(StageOf(disk[Marker]), v) /\ Rewriting(v)
  BY <1>1 DEF RecoverInv
<1>3. v \in Versions
  BY <1>1 DEF Types
<1>4. Rewriting(v)' /\ OffStages
  BY <1>1, <1>2, <1>3, RewritePut
<1>5. /\ phase' = "recover" /\ saving' = saving /\ outcome' = outcome
      /\ doubt' = doubt
  BY <1>1, PutDoes DEF save
<1>6. /\ disk'[Marker] = disk[Marker]
      /\ \A c \in {"previous", "next"} : \A w : Kept(c, w) => Kept(c, w)'
      /\ Types' /\ FaultSeen'
  BY <1>1, <1>4, StagesStay
<1>7. Recoverable'
  BY <1>1, <1>4, MarkedRecoverable DEF RecoverInv
<1>8. Kept(StageOf(disk[Marker]), v)'
  <2>1. \A c : c = StageOf(disk[Marker]) => Kept(c, v)'
    BY <1>2, <1>6 DEF StageOf
  <2>2. StageOf(disk[Marker])' = StageOf(disk[Marker])
    BY <1>6 DEF StageOf
  <2> QED BY <2>1, <2>2
<1>9. RecoverInv'
  BY <1>1, <1>4, <1>5, <1>6, <1>8 DEF RecoverInv
<1>10. PhaseInv'
  BY <1>5, <1>9 DEF PhaseInv
<1> QED BY <1>6, <1>7, <1>10 DEF IInv

LEMMA PutRestore ==
  ASSUME IInv, Put, phase = "restore"
  PROVE  IInv'
<1>1. RestoreInv /\ Types
  BY DEF IInv, PhaseInv
<1>2. PICK v \in doubt : previous = Both(v) /\ Rewriting(v)
  BY <1>1 DEF RestoreInv
<1>3. v \in Versions
  BY <1>1 DEF Types
<1>4. Rewriting(v)' /\ OffStages
  BY <1>1, <1>2, <1>3, RewritePut
<1>5. /\ phase' = "restore" /\ saving' = saving /\ outcome' = outcome
      /\ doubt' = doubt /\ previous' = previous /\ budget' = budget
  BY <1>1, PutDoes DEF save
<1>6. /\ disk'[Marker] = disk[Marker] /\ synced'[Marker] = disk[Marker]
      /\ Types' /\ FaultSeen' /\ Staged'
  BY <1>1, <1>4, StagesStay DEF RestoreInv
<1>7. Recoverable'
  BY <1>1, <1>4, MarkedRecoverable DEF RestoreInv, MarkedBoth
<1>8. UndoneInv' /\ MarkedBoth'
  BY <1>1, <1>5, <1>6 DEF RestoreInv, UndoneInv, MarkedBoth
<1>9. previous' = Both(v) /\ v \in doubt'
  BY <1>2, <1>5
<1>10. RestoreInv'
  BY <1>4, <1>6, <1>8, <1>9 DEF RestoreInv, Both
<1>11. PhaseInv'
  BY <1>5, <1>10 DEF PhaseInv
<1> QED BY <1>6, <1>7, <1>11 DEF IInv

LEMMA PutRepair ==
  ASSUME IInv, Put, phase = "repair"
  PROVE  IInv'
<1>1. RepairInv /\ Types
  BY DEF IInv, PhaseInv
<1>2. PICK v \in doubt : previous = Both(v) /\ Kept("primary", v)
  BY <1>1 DEF RepairInv
<1>3. OnlyBackups' /\ OffStages /\ Kept("primary", v)'
  BY <1>1, <1>2, BackupPut DEF RepairInv
<1>4. /\ phase' = "repair" /\ saving' = saving /\ outcome' = outcome
      /\ doubt' = doubt /\ previous' = previous /\ budget' = budget
  BY <1>1, PutDoes DEF save
<1>5. /\ disk'[Marker] = disk[Marker] /\ synced'[Marker] = disk[Marker]
      /\ Types' /\ FaultSeen' /\ Staged'
  BY <1>1, <1>3, StagesStay DEF RepairInv
<1>6. Recoverable'
  BY <1>1, <1>3, MarkedRecoverable DEF RepairInv, MarkedBoth
<1>7. UndoneInv' /\ MarkedBoth'
  BY <1>1, <1>4, <1>5 DEF RepairInv, UndoneInv, MarkedBoth
<1>8. previous' = Both(v) /\ v \in doubt'
  BY <1>2, <1>4
<1>9. RepairInv'
  BY <1>3, <1>5, <1>7, <1>8 DEF RepairInv, Both
<1>10. PhaseInv'
  BY <1>4, <1>9 DEF PhaseInv
<1> QED BY <1>5, <1>6, <1>10 DEF IInv

LEMMA PutRefresh ==
  ASSUME IInv, Put, phase = "refresh"
  PROVE  IInv'
<1>1. /\ saving /\ outcome = "ok" /\ Settled(Marker, None)
      /\ Kept("primary", next) /\ OnlyBackups
      /\ Types /\ next \in Versions /\ next \in doubt
  BY DEF IInv, PhaseInv, Types
<1>2. /\ OnlyBackups' /\ OffStages
      /\ \A v : v = next => Kept("primary", v)'
  BY <1>1, BackupPut
<1>3. /\ phase' = "refresh" /\ saving' /\ outcome' = "ok" /\ next' = next
      /\ doubt' = doubt
  BY <1>1, PutDoes DEF save
<1>4. /\ disk'[Marker] = disk[Marker] /\ synced'[Marker] = disk[Marker]
      /\ Types' /\ FaultSeen'
  BY <1>1, <1>2, StagesStay
<1>5. Settled(Marker, None)'
  BY <1>1, <1>4 DEF Settled
<1>6. Kept("primary", next)'
  BY <1>2, <1>3
<1>7. Recoverable'
  <2>1. \A v \in Versions : Types' /\ Kept("primary", v)' => Holds(v)'
    BY Distinct DEF Kept, Settled, Holds, Primary, File
  <2>2. \E v \in doubt' : Holds(v)'
    BY <1>1, <1>2, <1>3, <1>4, <2>1
  <2> QED BY <1>5, <2>2, UnmarkedRecoverable
<1>8. PhaseInv'
  BY <1>2, <1>3, <1>5, <1>6 DEF PhaseInv
<1> QED BY <1>4, <1>7, <1>8 DEF IInv

LEMMA PutPrepare ==
  ASSUME IInv, Put, phase = "prepare"
  PROVE  IInv'
<1>1. PrepareInv /\ Types /\ doubt \subseteq Versions /\ next \in doubt
  BY DEF IInv, PhaseInv, Types
<1>2. PICK v \in doubt : previous = Both(v) /\ Holds(v)
  BY <1>1 DEF PrepareInv
<1>3. /\ phase' = "prepare" /\ saving' = saving /\ outcome' = outcome
      /\ doubt' = doubt /\ previous' = previous /\ next' = next
      /\ 1 \in 1 .. Len(todo) /\ disk[Marker] = None
      /\ Len(todo) = 1 => todo' = <<>>
  BY <1>1, PutDoes, PutRest DEF save, PrepareInv, Put
<1>4. /\ \A d \in Documents, c \in Copies : /\ File(d, c) \in Names
                                            /\ File(d, c) # Marker
      /\ \A d, e \in Documents, c, k \in Copies :
           File(d, c) = File(e, k) => d = e /\ c = k
      /\ Marker \in Names
  BY FileNames
<1>5. \/ First.file = Marker /\ First.version = "RollBack" /\ Len(todo) = 1
      \/ \E d \in Documents : /\ First.file = File(d, "previous")
                              /\ First.version = previous[d]
      \/ \E d \in Documents : First.file = File(d, "next") /\ First.version = next
  <2>1. \/ First = Write(Marker, "RollBack") /\ 1 = Len(todo)
        \/ \E d \in Documents : First = Write(File(d, "previous"), previous[d])
        \/ \E d \in Documents : First = Write(File(d, "next"), next)
    BY <1>1, <1>3 DEF PrepareInv, First
  <2> QED BY <2>1, WriteParts
<1>6. /\ First.file = Marker => First.version = "RollBack"
      /\ \A d \in Documents : /\ First.file = File(d, "previous")
                                   => First.version = previous[d]
                              /\ First.file = File(d, "next")
                                   => First.version = next
      /\ \A d \in Documents : /\ First.file # Primary(d)
                              /\ First.file # Backup(d)
  BY <1>4, <1>5 DEF Copies, Primary, Backup
<1>7. First.file = Marker => First.version \in Markers
  BY <1>6 DEF Markers
<1>8. Types' /\ FaultSeen'
  BY <1>1, <1>7, PutTypes
<1>9. \A g \in Names : /\ disk'[g] = IF g = First.file THEN First.version ELSE disk[g]
                       /\ synced'[g] = disk'[g]
  BY <1>1, <1>7, PutDoes, WrittenFiles
<1>10. Holds(v)'
  <2>1. DocumentsStay
    BY <1>4, <1>6, <1>9 DEF DocumentsStay, Primary, Backup, Copies
  <2> QED BY <1>2, <2>1, HoldsStays
<1>11. /\ \A d \in Documents : Coming(File(d, "previous"), previous[d])'
       /\ \A d \in Documents : Coming(File(d, "next"), next)'
       /\ Coming(Marker, "RollBack")'
  <2>1. ASSUME NEW f \in Names, NEW w, Coming(f, w),
               First.file = f => First.version = w
        PROVE  Coming(f, w)'
    BY <1>1, <1>7, <2>1, PutKeeps
  <2>2. \A f \in Names : \A w : (First.file = f => First.version = w) =>
          (Coming(f, w) => Coming(f, w)')
    BY <2>1
  <2>3. \A d \in Documents : \A w : w = previous[d] => Coming(File(d, "previous"), w)'
    <3> SUFFICES ASSUME NEW d \in Documents, NEW w, w = previous[d]
                 PROVE  Coming(File(d, "previous"), w)'
      OBVIOUS
    <3>1. PICK f \in Names : f = File(d, "previous")
      BY <1>4 DEF Copies
    <3>2. Coming(f, w)'
      BY <1>1, <1>6, <2>2, <3>1 DEF PrepareInv
    <3> QED BY <3>1, <3>2 DEF File
  <2>4. \A d \in Documents : \A w : w = next => Coming(File(d, "next"), w)'
    <3> SUFFICES ASSUME NEW d \in Documents, NEW w, w = next
                 PROVE  Coming(File(d, "next"), w)'
      OBVIOUS
    <3>1. PICK f \in Names : f = File(d, "next")
      BY <1>4 DEF Copies
    <3>2. Coming(f, w)'
      BY <1>1, <1>6, <2>2, <3>1 DEF PrepareInv
    <3> QED BY <3>1, <3>2 DEF File
  <2>5. Coming(Marker, "RollBack")'
    <3>1. PICK f \in Names : f = Marker
      BY <1>4
    <3>2. Coming(f, "RollBack")'
      BY <1>1, <1>6, <2>2, <3>1 DEF PrepareInv
    <3> QED BY <3>1, <3>2 DEF Marker
  <2>6. \A d \in Documents : Coming(File(d, "previous"), previous[d])'
    BY <1>3, <2>3
  <2>7. \A d \in Documents : Coming(File(d, "next"), next)'
    BY <1>3, <2>4
  <2> QED BY <2>5, <2>6, <2>7
<1>12. todo' # <<>> => disk'[Marker] = None
  BY <1>3, <1>4, <1>5, <1>9 DEF Copies
<1>13. \A i \in 1 .. Len(todo') :
         \/ todo'[i] = Write(Marker, "RollBack") /\ i = Len(todo')
         \/ \E d \in Documents : todo'[i] = Write(File(d, "previous"), previous'[d])
         \/ \E d \in Documents : todo'[i] = Write(File(d, "next"), next')
  <2> TAKE i \in 1 .. Len(todo')
  <2>1. /\ i + 1 \in 1 .. Len(todo) /\ todo'[i] = todo[i + 1]
        /\ Len(todo) \in Nat /\ Len(todo') = Len(todo) - 1
    BY <1>1, PutDoes
  <2>2. \/ todo[i + 1] = Write(Marker, "RollBack") /\ i + 1 = Len(todo)
        \/ \E d \in Documents : todo[i + 1] = Write(File(d, "previous"), previous[d])
        \/ \E d \in Documents : todo[i + 1] = Write(File(d, "next"), next)
    BY <1>1, <2>1 DEF PrepareInv
  <2>3. i + 1 = Len(todo) => i = Len(todo')
    BY <2>1
  <2> QED BY <1>3, <2>1, <2>2, <2>3
<1>14. PrepareInv'
  <2>1. saving' /\ outcome' = "ok" /\ v \in doubt' /\ previous' = Both(v)
    BY <1>1, <1>2, <1>3 DEF PrepareInv
  <2>2. \A i \in 1 .. Len(todo)' :
          \/ (todo[i] = Write(Marker, "RollBack") /\ i = Len(todo))'
          \/ \E d \in Documents : (todo[i] = Write(File(d, "previous"), previous[d]))'
          \/ \E d \in Documents : (todo[i] = Write(File(d, "next"), next))'
    BY <1>13 DEF Write, File, Marker
  <2> QED BY <1>10, <1>11, <1>12, <2>1, <2>2 DEF PrepareInv, Both
<1>15. Recoverable'
  <2>1. CASE First.file = Marker
    <3>1. Len(todo) = 1 /\ First.version = "RollBack"
      BY <1>4, <1>5, <2>1 DEF Copies
    <3>2. disk'[Marker] = "RollBack" /\ synced'[Marker] = "RollBack"
      BY <1>4, <1>9, <2>1, <3>1
    <3>3. todo' = <<>> /\ Len(todo') = 0
      BY <1>3, <3>1
    <3>4. \A d \in Documents : disk'[File(d, "previous")] = previous'[d]
                               /\ synced'[File(d, "previous")] = previous'[d]
      <4>1. \A f, w : Coming(f, w)' => disk'[f] = w /\ synced'[f] = w
        BY <3>3 DEF Coming, Pending, Settled
      <4> SUFFICES ASSUME NEW d \in Documents
                   PROVE  disk'[File(d, "previous")] = previous'[d]
                          /\ synced'[File(d, "previous")] = previous'[d]
        OBVIOUS
      <4>2. PICK f, w : f = File(d, "previous") /\ w = previous'[d]
        OBVIOUS
      <4>3. Coming(File(d, "previous"), previous[d])'
        BY <1>11
      <4>4. Coming(f, w)'
        BY <4>2, <4>3 DEF File
      <4> QED BY <4>1, <4>2, <4>4
    <3>5. Kept("previous", v)'
      <4>1. \A d \in Documents : previous'[d] = v
        BY <1>2, <1>3 DEF Both
      <4> QED BY <3>4, <4>1 DEF Kept, Settled, File
    <3> QED BY <1>3, <3>2, <3>5, Distinct DEF Recoverable, Possible
  <2>2. CASE First.file # Marker
    <3>1. disk'[Marker] = None /\ synced'[Marker] = None
      BY <1>3, <1>4, <1>9, <2>2
    <3>2. Settled(Marker, None)'
      BY <3>1 DEF Settled
    <3> QED BY <1>3, <1>10, <3>2, UnmarkedRecoverable
  <2> QED BY <2>1, <2>2
<1>16. PhaseInv'
  BY <1>3, <1>14 DEF PhaseInv
<1> QED BY <1>8, <1>15, <1>16 DEF IInv

LEMMA PutMark ==
  ASSUME IInv, Put, phase = "mark"
  PROVE  IInv'
<1>1. MarkInv /\ Types /\ next \in doubt
  BY DEF IInv, PhaseInv, Types
<1>2. /\ phase' = "mark" /\ saving' = saving /\ outcome' = outcome
      /\ doubt' = doubt /\ previous' = previous /\ next' = next
      /\ 1 \in 1 .. Len(todo)
      /\ Len(todo) = 1 => todo' = <<>>
  BY <1>1, PutDoes, PutRest DEF save
<1>3. First.file = Marker /\ First.version = "CommitNext" /\ Len(todo) = 1
  <2>1. First = Write(Marker, "CommitNext") /\ 1 = Len(todo)
    BY <1>1, <1>2 DEF MarkInv, First
  <2> QED BY <2>1, WriteParts
<1>4. Types' /\ FaultSeen'
  BY <1>1, <1>3, PutTypes DEF Markers
<1>5. \A g \in Names : /\ disk'[g] = IF g = Marker THEN "CommitNext" ELSE disk[g]
                       /\ synced'[g] = disk'[g]
  BY <1>1, <1>3, PutDoes, WrittenFiles DEF Markers
<1>6. \A c \in Copies : \A v : Kept(c, v) => Kept(c, v)'
  BY <1>5, FileNames DEF Kept, Settled
<1>7. Settled(Marker, "CommitNext")'
  BY <1>5, FileNames DEF Settled
<1>8. Staged' /\ Kept("primary", next)'
  <2>1. PICK v \in doubt : previous = Both(v) /\ Kept("previous", v)
    BY <1>1 DEF MarkInv, Staged
  <2>2. Kept("previous", v)' /\ v \in doubt' /\ previous' = Both(v)
    BY <1>2, <1>6, <2>1 DEF Copies
  <2>3. \A w : w = next => Kept("next", w)' /\ Kept("primary", w)'
    BY <1>1, <1>6 DEF MarkInv, Staged, Copies
  <2>4. Kept("next", next)' /\ Kept("primary", next)'
    BY <1>2, <2>3
  <2> QED BY <2>2, <2>4 DEF Staged, Both
<1>9. Recoverable'
  <2>1. \A m : Possible(m)' => m = "CommitNext"
    BY <1>7 DEF Possible, Settled
  <2>2. Kept("next", next)' /\ next' \in doubt'
    BY <1>1, <1>2, <1>8 DEF Staged
  <2>3. \E v \in doubt' : Kept("next", v)'
    <3>1. \A v : v = next' => Kept("next", v)'
      BY <2>2 DEF Kept, Settled
    <3> QED BY <2>2, <3>1
  <2> QED BY <2>1, <2>3, Distinct DEF Recoverable
<1>10. MarkInv'
  <2>1. MarkedBoth' /\ Coming(Marker, "CommitNext")'
    BY <1>7, Distinct DEF MarkedBoth, Settled, Coming
  <2>2. todo' = <<>> /\ Len(todo') = 0
    BY <1>2, <1>3
  <2> QED BY <1>1, <1>2, <1>8, <2>1, <2>2 DEF MarkInv
<1>11. PhaseInv'
  BY <1>2, <1>10 DEF PhaseInv
<1> QED BY <1>4, <1>9, <1>11 DEF IInv

LEMMA PutIInv ==
  ASSUME IInv, Put
  PROVE  IInv'
<1>1. phase \in {"prepare", "apply", "mark", "recover", "restore", "repair", "refresh"}
  BY DEF IInv, Types, PhaseInv, Phases, Put
<1> QED BY <1>1, PutPrepare, PutApply, PutMark, PutRecover, PutRestore, PutRepair,
           PutRefresh

-----------------------------------------------------------------------------
(* A write that fails, before its rename or after it.                      *)

LEMMA PutFailsDoes ==
  ASSUME Types, PutFails
  PROVE  /\ First \in Writes /\ First.file \in Names /\ First.version \in Contents
         /\ disk' \in [Names -> Contents] /\ synced' = synced
         /\ \A g \in Names : g # First.file => disk'[g] = disk[g]
         /\ disk'[First.file] \in {disk[First.file], First.version}
         /\ 1 \in 1 .. Len(todo)
         /\ Spend("faults", MaxFaults) /\ Failed
<1>1. todo \in Seq(Writes) /\ todo # <<>>
  BY DEF Types, PutFails
<1>2. First \in Writes /\ Head(todo) = First /\ 1 \in 1 .. Len(todo)
  BY <1>1, Popped DEF First
<1>3. First.file \in Names /\ First.version \in Contents
  BY <1>2 DEF Writes
<1>4. disk' = disk \/ disk' = [disk EXCEPT ![First.file] = First.version]
  BY <1>2 DEF PutFails
<1>5. /\ disk' \in [Names -> Contents]
      /\ \A g \in Names : g # First.file => disk'[g] = disk[g]
      /\ disk'[First.file] \in {disk[First.file], First.version}
  BY <1>3, <1>4 DEF Types
<1> QED BY <1>2, <1>3, <1>5 DEF PutFails

LEMMA FailedOffStages ==
  ASSUME Types, PutFails, OffStages
  PROVE  /\ disk'[Marker] = disk[Marker]
         /\ \A c \in {"previous", "next"} : \A v : Kept(c, v) => Kept(c, v)'
<1>1. synced' = synced /\ \A g \in Names : g # First.file => disk'[g] = disk[g]
  BY PutFailsDoes
<1> QED BY <1>1, FileNames DEF OffStages, Kept, Settled, Copies

LEMMA StagedKept ==
  ASSUME Staged, next' = next, previous' = previous, doubt' = doubt,
         \A c \in {"previous", "next"} : \A v : Kept(c, v) => Kept(c, v)'
  PROVE  Staged'
<1>1. PICK v \in doubt : previous = Both(v) /\ Kept("previous", v)
  BY DEF Staged
<1>2. Kept("previous", v)' /\ v \in doubt' /\ previous' = Both(v)
  BY <1>1
<1>3. \A w : w = next => Kept("next", w)'
  BY DEF Staged
<1>4. Kept("next", next)'
  BY <1>3
<1> QED BY <1>2, <1>4 DEF Staged, Both

LEMMA RewriteOffStages ==
  ASSUME Types, PutFails, NEW v \in Versions, Rewriting(v)
  PROVE  OffStages
<1>1. PICK e \in Documents : First.file = Backup(e) \/ First = Write(Primary(e), v)
  BY PutFailsDoes DEF Rewriting, Rewrites, First
<1>2. First.file = Backup(e) \/ First.file = Primary(e)
  BY <1>1, WriteParts
<1> QED BY <1>2, FileNames DEF OffStages, Backup, Primary, Copies

LEMMA PutFailsIInv ==
  ASSUME MaxFaults <= 1, IInv, PutFails
  PROVE  IInv'
<1>1. Types /\ Recoverable /\ doubt \subseteq Versions /\ next \in doubt
  BY DEF IInv, Types
<1>2. /\ budget' \in [saves : Nat, faults : Nat, crashes : Nat]
      /\ budget'.faults > 0 /\ budget.faults = 0 /\ ~(budget.faults > 0)
  BY <1>1, PutFailsDoes, FaultFacts
<1>3. disk[Marker] = synced[Marker]
  BY <1>2 DEF IInv, FaultSeen
<1>4. /\ First \in Writes /\ First.file \in Names
      /\ disk' \in [Names -> Contents] /\ synced' = synced
      /\ \A g \in Names : g # First.file => disk'[g] = disk[g]
      /\ disk'[First.file] \in {disk[First.file], First.version}
      /\ 1 \in 1 .. Len(todo) /\ Failed
  BY <1>1, PutFailsDoes
<1>5. FaultSeen'
  BY <1>2 DEF FaultSeen
<1>6. /\ \A d \in Documents, c \in Copies : /\ File(d, c) \in Names
                                            /\ File(d, c) # Marker
      /\ \A d, e \in Documents, c, k \in Copies :
           File(d, c) = File(e, k) => d = e /\ c = k
      /\ Marker \in Names
  BY FileNames
<1>7. ASSUME phase' \in Phases, todo' = <<>>, outcome' = "err",
             up' = up, next' = next, refresh' = refresh, saving' = saving,
             doubt' = doubt, disk'[Marker] \in Markers
      PROVE  Types'
  BY <1>1, <1>2, <1>4, <1>7, EmptyTodo DEF Types
<1>8. CASE phase = "prepare"
  <2>1. PrepareInv
    BY <1>8 DEF IInv, PhaseInv
  <2>2. PICK v \in doubt : previous = Both(v) /\ Holds(v)
    BY <2>1 DEF PrepareInv
  <2>3. /\ phase' = "cleanup" /\ todo' = <<>> /\ outcome' = "err"
        /\ up' = up /\ next' = next /\ refresh' = refresh /\ saving' = saving
        /\ doubt' = doubt
    BY <1>4, <1>8 DEF Failed, Enter
  <2>4. disk[Marker] = None /\ synced[Marker] = None
    BY <1>3, <2>1 DEF PrepareInv, PutFails
  <2>5. \/ First.file = Marker /\ First.version = "RollBack" /\ Len(todo) = 1
        \/ \E d \in Documents, c \in {"previous", "next"} : First.file = File(d, c)
    <3>1. \/ First = Write(Marker, "RollBack") /\ 1 = Len(todo)
          \/ \E d \in Documents : First = Write(File(d, "previous"), previous[d])
          \/ \E d \in Documents : First = Write(File(d, "next"), next)
      BY <1>4, <2>1 DEF PrepareInv, First
    <3> QED BY <3>1, WriteParts
  <2>6. \A d \in Documents : First.file # Primary(d) /\ First.file # Backup(d)
    BY <1>6, <2>5 DEF Primary, Backup, Copies
  <2>7. Holds(v)'
    <3>1. DocumentsStay
      BY <1>4, <1>6, <2>6 DEF DocumentsStay, Primary, Backup, Copies
    <3> QED BY <2>2, <3>1, HoldsStays
  <2>8. \/ disk'[Marker] = None
        \/ disk'[Marker] = "RollBack" /\ First.file = Marker /\ Len(todo) = 1
    BY <1>4, <1>6, <2>4, <2>5 DEF Copies
  <2>9. Types'
    BY <1>7, <2>3, <2>8 DEF Phases, Markers
  <2>10. Recoverable'
    <3>1. CASE disk'[Marker] = None
      <4>1. \A m : Possible(m)' => m = None
        BY <1>4, <2>4, <3>1 DEF Possible
      <4> QED BY <2>3, <2>7, <4>1, Distinct DEF Recoverable
    <3>2. CASE disk'[Marker] = "RollBack" /\ First.file = Marker /\ Len(todo) = 1
      <4>1. \A m : Possible(m)' => m = None \/ m = "RollBack"
        BY <1>4, <2>4, <3>2 DEF Possible
      <4>2. \A d \in Documents : Coming(File(d, "previous"), previous[d])
        BY <2>1 DEF PrepareInv
      <4>3. \A d \in Documents : ~Pending(File(d, "previous"), previous[d])
        BY <1>6, <3>2, WriteParts DEF Pending, First, Copies
      <4>4. Kept("previous", v)
        BY <2>2, <4>2, <4>3 DEF Coming, Kept, Both
      <4>5. Kept("previous", v)'
        BY <1>4, <1>6, <3>2, <4>4 DEF Kept, Settled, Copies
      <4> QED BY <2>3, <2>7, <4>1, <4>5, Distinct DEF Recoverable
    <3> QED BY <2>8, <3>1, <3>2
  <2>11. CleanupInv'
    <3>1. \E w \in doubt' : Holds(w)'
      BY <2>3, <2>7
    <3> QED BY <1>2, <1>4, <2>1, <2>3, <2>4, <3>1 DEF CleanupInv, PrepareInv
  <2>12. PhaseInv'
    BY <2>3, <2>11 DEF PhaseInv
  <2> QED BY <1>5, <2>9, <2>10, <2>12 DEF IInv
<1>9. ASSUME Staged, saving, disk'[Marker] \in {"RollBack", "CommitNext"},
             synced[Marker] \in {"RollBack", "CommitNext"},
             \A c \in {"previous", "next"} : \A v : Kept(c, v) => Kept(c, v)',
             phase \in {"apply", "mark"}
      PROVE  IInv'
  <2>1. /\ phase' = "rollback" /\ todo' = <<>> /\ outcome' = "err"
        /\ up' = up /\ next' = next /\ refresh' = refresh /\ saving' = saving
        /\ doubt' = doubt /\ previous' = previous
    BY <1>4, <1>9 DEF Failed
  <2>2. Staged'
    BY <1>9, <2>1, StagedKept
  <2>3. Types'
    BY <1>7, <1>9, <2>1 DEF Phases, Markers
  <2>4. MarkedBoth' /\ \A m : Possible(m)' => m \in {"RollBack", "CommitNext"}
    BY <1>4, <1>9, Distinct DEF MarkedBoth, Possible
  <2>5. Recoverable'
    <3>1. \E v \in doubt' : Kept("previous", v)'
      BY <2>2 DEF Staged
    <3>2. \A w : w = next' => w \in doubt' /\ Kept("next", w)'
      BY <1>1, <1>9, <2>1 DEF Staged
    <3>3. \E v \in doubt' : Kept("next", v)'
      BY <3>2
    <3> QED BY <2>4, <3>1, <3>3, Distinct DEF Recoverable
  <2>6. UndoneInv'
    BY <1>2, <1>9, <2>1 DEF UndoneInv
  <2>7. PhaseInv'
    BY <2>1, <2>2, <2>4, <2>6 DEF PhaseInv
  <2> QED BY <1>5, <2>3, <2>5, <2>7 DEF IInv
<1>10. CASE phase = "apply"
  <2>1. saving /\ Staged /\ Settled(Marker, "RollBack") /\ Rewriting(next)
    BY <1>10 DEF IInv, PhaseInv
  <2>2. OffStages
    BY <1>1, <2>1, RewriteOffStages
  <2>3. /\ disk'[Marker] = disk[Marker]
        /\ \A c \in {"previous", "next"} : \A v : Kept(c, v) => Kept(c, v)'
    BY <1>1, <2>2, FailedOffStages
  <2> QED BY <1>9, <1>10, <2>1, <2>3 DEF Settled
<1>11. CASE phase = "mark"
  <2>1. MarkInv
    BY <1>11 DEF IInv, PhaseInv
  <2>2. First.file = Marker /\ First.version = "CommitNext"
    <3>1. First = Write(Marker, "CommitNext")
      BY <1>4, <2>1 DEF MarkInv, First
    <3> QED BY <3>1, WriteParts
  <2>3. disk[Marker] \in {"RollBack", "CommitNext"}
    BY <1>1, <2>1 DEF MarkInv, MarkedBoth, Types, Markers
  <2>4. \A c \in {"previous", "next"} : \A v : Kept(c, v) => Kept(c, v)'
    BY <1>4, <1>6, <2>2 DEF Kept, Settled, Copies
  <2> QED BY <1>3, <1>4, <1>9, <1>11, <2>1, <2>2, <2>3, <2>4 DEF MarkInv
<1>12. CASE phase = "recover"
  <2>1. RecoverInv
    BY <1>12 DEF IInv, PhaseInv
  <2>2. PICK v \in doubt : Rewriting(v)
    BY <2>1 DEF RecoverInv
  <2>3. OffStages
    BY <1>1, <2>2, RewriteOffStages
  <2>4. /\ disk'[Marker] = disk[Marker]
        /\ \A c \in {"previous", "next"} : \A w : Kept(c, w) => Kept(c, w)'
    BY <1>1, <2>3, FailedOffStages
  <2>5. Return("err")
    BY <1>4, <1>12 DEF Failed
  <2>6. /\ phase' = "idle" /\ todo' = <<>> /\ outcome' = "err"
        /\ up' = up /\ next' = next /\ refresh' = refresh /\ saving' = saving
        /\ doubt' = doubt
    BY <1>1, <2>5, ReturnErr
  <2>7. Types'
    BY <1>1, <1>7, <2>4, <2>6 DEF Phases, Types
  <2>8. \A m : Possible(m)' => Possible(m) /\ m # None
    BY <1>3, <1>4, <2>1, <2>4 DEF Possible, RecoverInv
  <2>9. Recoverable'
    BY <1>1, <2>4, <2>6, <2>8 DEF Recoverable
  <2>10. PhaseInv'
    BY <2>6, RestInv
  <2> QED BY <1>5, <2>7, <2>9, <2>10 DEF IInv
<1>13. CASE phase = "refresh"
  <2>1. Settled(Marker, None) /\ Kept("primary", next) /\ OnlyBackups
    BY <1>13 DEF IInv, PhaseInv
  <2>2. PICK e \in Documents : First.file = Backup(e)
    BY <1>4, <2>1 DEF OnlyBackups, First
  <2>3. Return("err")
    BY <1>4, <1>13 DEF Failed
  <2>4. /\ phase' = "idle" /\ todo' = <<>> /\ outcome' = "err"
        /\ up' = up /\ next' = next /\ refresh' = refresh /\ saving' = saving
        /\ doubt' = doubt
    BY <1>1, <2>3, ReturnErr
  <2>5. disk'[Marker] = None /\ synced'[Marker] = None
    BY <1>4, <1>6, <2>1, <2>2 DEF Settled, Backup, Copies
  <2>6. Types'
    BY <1>7, <2>4, <2>5 DEF Phases, Markers
  <2>7. \A w : w = next => Kept("primary", w)'
    BY <1>4, <1>6, <2>1, <2>2 DEF Kept, Settled, Backup, Copies
  <2>8. \E v \in doubt' : Holds(v)'
    <3>1. \A v \in Versions : Types' /\ Kept("primary", v)' => Holds(v)'
      BY Distinct DEF Kept, Settled, Holds, Primary, File
    <3> QED BY <1>1, <2>4, <2>6, <2>7, <3>1
  <2>9. Recoverable'
    BY <2>5, <2>8, UnmarkedRecoverable DEF Settled
  <2>10. PhaseInv'
    BY <2>4, RestInv
  <2> QED BY <1>5, <2>6, <2>9, <2>10 DEF IInv
<1>14. phase # "restore" /\ phase # "repair"
  BY <1>2 DEF IInv, PhaseInv, RestoreInv, RepairInv, UndoneInv
<1>15. phase \in {"prepare", "apply", "mark", "recover", "restore", "repair", "refresh"}
  BY DEF IInv, Types, PhaseInv, Phases, PutFails
<1> QED BY <1>8, <1>10, <1>11, <1>12, <1>13, <1>14, <1>15

-----------------------------------------------------------------------------
(* The invariant, and what follows from it.                                *)

LEMMA InitIInv ==
  ASSUME Init
  PROVE  IInv
<1>1. /\ disk \in [Names -> {None, 0}] /\ disk[Marker] = None
      /\ \A f \in Stages : disk[f] = None
      /\ synced = disk /\ up = FALSE /\ phase = "idle" /\ todo = <<>>
      /\ next = 0 /\ outcome = "ok" /\ refresh = FALSE /\ saving = FALSE
      /\ doubt = {0} /\ budget = [saves |-> 0, faults |-> 0, crashes |-> 0]
  BY DEF Init, Names
<1>2. {None, 0} \subseteq Contents
  BY Distinct DEF Contents
<1>3. Types
  BY <1>1, <1>2, Distinct, EmptyTodo DEF Types, Phases, Markers
<1>4. Holds(0)
  <2>1. \A d \in Documents : Primary(d) \in Names /\ Backup(d) \in Names
    BY FileNames DEF Primary, Backup, Copies
  <2> QED BY <1>1, <2>1 DEF Holds
<1>5. Recoverable
  BY <1>1, <1>4, Distinct DEF Recoverable, Possible
<1>6. FaultSeen
  BY <1>1 DEF FaultSeen
<1>7. PhaseInv
  BY <1>1 DEF PhaseInv
<1> QED BY <1>3, <1>5, <1>6, <1>7 DEF IInv

LEMMA StutterIInv ==
  ASSUME IInv, UNCHANGED vars
  PROVE  IInv'
<1>1. /\ UNCHANGED <<files, up, phase, todo, save, doubt, budget>>
  BY DEF vars, files, save
<1> QED BY <1>1 DEF IInv, Types, Recoverable, FaultSeen, PhaseInv, Possible,
         Holds, Kept, Settled, Pending, Coming, Staged, Rewrites, Rewriting,
         OnlyBackups, MarkedBoth, PrepareInv, MarkInv, RecoverInv, UndoneInv,
         RestoreInv, RepairInv, CleanupInv, files, save, vars

LEMMA NextIInv ==
  ASSUME MaxFaults <= 1, IInv, [Next]_vars
  PROVE  IInv'
BY StartupIInv, SaveIInv, RecoverIInv, RecoverImpossibleIInv, LoadPreviousIInv,
   PutIInv, PutFailsIInv, RollBackIInv, AdvanceIInv, MoveMarkerIInv,
   MoveMarkerFailsIInv, DeleteStagesIInv, RefreshedIInv, CrashIInv, StutterIInv
   DEF Next

(* With at most one failing file operation the inductive invariant holds   *)
(* in every reachable state.                                               *)
THEOREM TransactionInvariantHolds ==
  ASSUME MaxFaults <= 1
  PROVE  Spec => []IInv
<1>1. Init => IInv
  BY InitIInv
<1>2. IInv /\ [Next]_vars => IInv'
  BY NextIInv
<1> QED BY <1>1, <1>2, PTL DEF Spec

LEMMA FoundVersion ==
  ASSUME IInv
  PROVE  \E v \in doubt : \A d \in Documents : Found(d) = v
<1>1. Types /\ Recoverable /\ doubt \subseteq Versions
  BY DEF IInv, Types
<1>2. CASE disk[Marker] = None
  <2>1. PICK v \in doubt : Holds(v)
    BY <1>1, <1>2 DEF Recoverable, Possible
  <2>2. \A d \in Documents : Load(d) = v
    BY <1>1, <2>1, Found1
  <2> QED BY <1>2, <2>2 DEF Found
<1>3. CASE disk[Marker] # None
  <2>1. disk[Marker] \in {"RollBack", "CommitNext"} /\ Possible(disk[Marker])
    BY <1>1, <1>3 DEF Types, Markers, Possible
  <2>2. PICK v \in doubt : Kept(StageOf(disk[Marker]), v)
    BY <1>1, <2>1 DEF Recoverable, StageOf
  <2>3. \A d \in Documents : disk[File(d, StageOf(disk[Marker]))] = v
    BY <2>2 DEF Kept, Settled
  <2> QED BY <1>3, <2>3 DEF Found
<1> QED BY <1>2, <1>3

(* state.json and projects.json are read as one version: in every state,   *)
(* whatever a crash or a failing write did, a load, or the recovery it     *)
(* runs first, takes both documents from the same save.                    *)
THEOREM DocumentsAgree ==
  ASSUME MaxFaults <= 1
  PROVE  Spec => []SameVersion
<1>1. IInv => SameVersion
  BY FoundVersion DEF SameVersion, Documents
<1> QED BY <1>1, TransactionInvariantHolds, PTL

(* Recovery always finds the stages the marker names, so the daemon can    *)
(* always start.                                                           *)
THEOREM MarkerHasStages ==
  ASSUME MaxFaults <= 1
  PROVE  Spec => []NeverStuck
<1>1. IInv => NeverStuck
  <2> SUFFICES ASSUME IInv, disk[Marker] # None, NEW d \in Documents
               PROVE  disk[File(d, StageOf(disk[Marker]))] # None
    BY DEF NeverStuck, StagesReadable
  <2>1. Types /\ Recoverable /\ doubt \subseteq Versions
    BY DEF IInv, Types
  <2>2. disk[Marker] \in {"RollBack", "CommitNext"} /\ Possible(disk[Marker])
    BY <2>1 DEF Types, Markers, Possible
  <2>3. PICK v \in doubt : Kept(StageOf(disk[Marker]), v)
    BY <2>1, <2>2 DEF Recoverable, StageOf
  <2> QED BY <2>1, <2>3, Distinct DEF Kept, Settled
<1> QED BY <1>1, TransactionInvariantHolds, PTL

-----------------------------------------------------------------------------
(* The refinement.                                                         *)

(* What is found is in doubt.                                              *)
FoundInDoubt == Found("state") \in doubt /\ next \in doubt /\ doubt \subseteq Versions

LEMMA FoundIsInDoubt ==
  ASSUME IInv
  PROVE  FoundInDoubt
BY FoundVersion DEF FoundInDoubt, IInv, Types, Documents

(* A step leaves the versions in doubt alone, adds the one a save begins   *)
(* with, or settles on the one a save returns with.                        *)
LEMMA DoubtMoves ==
  ASSUME Next
  PROVE  \/ doubt' = doubt
         \/ Save
         \/ doubt' = {next} /\ next' = next
<1>1. CASE Startup
  BY <1>1 DEF Startup
<1>2. CASE Save
  BY <1>2
<1>3. CASE Recover
  BY <1>3 DEF Recover
<1>4. CASE RecoverImpossible
  BY <1>4 DEF RecoverImpossible, Return
<1>5. CASE LoadPrevious
  BY <1>5 DEF LoadPrevious, Return
<1>6. CASE Put
  BY <1>6 DEF Put
<1>7. CASE PutFails
  BY <1>7 DEF PutFails, Failed, Return
<1>8. CASE RollBack
  BY <1>8 DEF RollBack
<1>9. CASE Advance
  BY <1>9 DEF Advance
<1>10. CASE MoveMarker
  BY <1>10 DEF MoveMarker
<1>11. CASE MoveMarkerFails
  BY <1>11 DEF MoveMarkerFails, Return
<1>12. CASE DeleteStages
  BY <1>12 DEF DeleteStages, Return
<1>13. CASE Refreshed
  BY <1>13 DEF Refreshed, Return
<1>14. CASE Crash
  BY <1>14 DEF Crash
<1> QED BY <1>1, <1>2, <1>3, <1>4, <1>5, <1>6, <1>7, <1>8, <1>9, <1>10, <1>11,
           <1>12, <1>13, <1>14 DEF Next

LEMMA SaveBegins ==
  ASSUME IInv, Save
  PROVE  /\ Found("state")' = Found("state")
         /\ \E v \in Versions : doubt' = doubt \cup {v}
<1>1. UNCHANGED files /\ doubt' = doubt \cup {budget.saves + 1}
      /\ Spend("saves", MaxSaves)
  BY DEF Save
<1>2. Found("state")' = Found("state")
  BY <1>1 DEF Found, Load, StageOf, files, File
<1>3. budget.saves \in Nat /\ budget.saves < MaxSaves
  BY <1>1, SpendFacts, BoundsAssumption DEF IInv
<1>4. budget.saves + 1 \in Versions
  BY <1>3, BoundsAssumption DEF Versions
<1> QED BY <1>1, <1>2, <1>4

LEMMA CellSteps ==
  ASSUME IInv, FoundInDoubt, FoundInDoubt', [Next]_vars
  PROVE  [Cell!Next]_<<Found("state"), doubt>>
<1>1. CASE UNCHANGED vars
  <2>1. Found("state")' = Found("state") /\ doubt' = doubt
    BY <1>1 DEF vars, Found, Load, StageOf, File
  <2> QED BY <2>1
<1>2. CASE Next /\ doubt' = doubt
  <2>1. Found("state")' \in doubt
    BY <1>2 DEF FoundInDoubt
  <2>2. Cell!Turn
    BY <1>2, <2>1 DEF Cell!Turn
  <2> QED BY <2>2 DEF Cell!Next
<1>3. CASE Save
  <2>1. PICK v \in Versions : doubt' = doubt \cup {v}
    BY <1>3, SaveBegins
  <2>2. Cell!Begin(v)
    BY <1>3, <2>1, SaveBegins DEF Cell!Begin
  <2> QED BY <2>2 DEF Cell!Next
<1>4. CASE Next /\ doubt' = {next} /\ next' = next
  <2>1. next \in Versions /\ next \in doubt /\ Found("state")' = next
    BY <1>4 DEF FoundInDoubt
  <2>2. Cell!Succeed(next)
    BY <1>4, <2>1 DEF Cell!Succeed
  <2> QED BY <2>1, <2>2 DEF Cell!Next
<1> QED BY <1>1, <1>2, <1>3, <1>4, DoubtMoves

(* The transaction implements the one cell: what is found changes only to  *)
(* a version in doubt, a save that returns Ok settles what every later     *)
(* load finds, and a failing one leaves no more than itself in doubt.      *)
THEOREM TransactionIsOneCell ==
  ASSUME MaxFaults <= 1
  PROVE  Spec => OneCell
<1>1. Init => Cell!Init
  <2> SUFFICES ASSUME Init PROVE Cell!Init
    OBVIOUS
  <2>1. IInv /\ doubt = {0}
    BY InitIInv DEF Init
  <2>2. Found("state") = 0
    BY <2>1, FoundIsInDoubt DEF FoundInDoubt
  <2> QED BY <2>1, <2>2 DEF Cell!Init
<1>2. IInv => FoundInDoubt
  BY FoundIsInDoubt
<1>3. IInv /\ FoundInDoubt /\ FoundInDoubt' /\ [Next]_vars
        => [Cell!Next]_<<Found("state"), doubt>>
  BY CellSteps
<1>4. Spec => []IInv
  BY TransactionInvariantHolds
<1> QED BY <1>1, <1>2, <1>3, <1>4, PTL DEF Spec, OneCell, Cell!Spec

-----------------------------------------------------------------------------
(* What becomes of the version a failed save wrote.                        *)

(* No document, copy or stage holds version n, and none will be written.   *)
Absent(f, n) == disk[f] # n /\ synced[f] # n
Clean(n) == \A d \in Documents : Absent(Backup(d), n)
Unwritten(n) == \A f \in Files : Absent(f, n)
NoneLeft(n) ==
  \A i \in 1 .. Len(todo) : todo[i].file # Marker => todo[i].version # n
Away(n) == Unwritten(n) /\ NoneLeft(n)

(* Once the writes left are made, file f holds v.                          *)
OnlyWith(f, v, k) ==
  \A i \in 1 .. Len(todo) : i > k /\ todo[i].file = f => todo[i].version = v

Lands(f, v) ==
  \/ Settled(f, v) /\ OnlyWith(f, v, 0)
  \/ \E i \in 1 .. Len(todo) : todo[i] = Write(f, v) /\ OnlyWith(f, v, i)

(* A save's version is new.                                                *)
FreshInv ==
  \A n \in Nat : n > budget.saves => n # next /\ Away(n)

(* Until it has recovered what was pending, a save has written nothing.    *)
EarlyInv ==
  up /\ ~saving /\ phase # "idle" => next # 0 /\ Away(next)

OlderInv ==
  phase \in {"prepare", "apply", "mark", "rollback", "restore", "repair"} =>
    \A d \in Documents : previous[d] # next

(* With no transaction pending, or one about to be forgotten, the backups  *)
(* are free of the last save's version, unless it is the one to be found.  *)
CleanInv ==
  Possible(None) \/ phase = "cleanup" => Clean(next) \/ Holds(next)

CommitInv == Possible("CommitNext") => Kept("next", next) \/ Unwritten(next)

RecoveryInv ==
  phase = "recover" =>
    /\ disk[Marker] = "RollBack" =>
         \E v \in doubt : /\ Kept("previous", v)
                          /\ \A d \in Documents : Lands(Backup(d), v)
    /\ disk[Marker] = "CommitNext" => Kept("next", next) \/ Away(next)

RefreshedInv ==
  phase = "repair" => \A d \in Documents : Lands(Backup(d), previous[d])

ForgetInv ==
  /\ FreshInv /\ EarlyInv /\ OlderInv /\ CleanInv /\ CommitInv
  /\ RecoveryInv /\ RefreshedInv

(* The writes of a pair carry the versions of the pair and of the files.   *)
LEMMA ReplaceVersions ==
  ASSUME NEW d \in Documents, NEW v, NEW n, v # n, Unwritten(n)
  PROVE  \A i \in 1 .. Len(Replace(d, v)) : Replace(d, v)[i].version # n
<1> DEFINE p == Primary(d)
           b == Backup(d)
<1>1. /\ p \in Files /\ b \in Files
      /\ p = File(d, "primary") /\ b = File(d, "backup")
  BY FileNames DEF Copies, Primary, Backup
<1>2. disk[p] # n /\ disk[b] # n
  BY <1>1 DEF Unwritten, Absent
<1>3. \/ Replace(d, v) = <<Write(b, disk[p]), Write(p, v)>>
      \/ Replace(d, v) = <<Write(b, disk[b]), Write(p, v), Write(b, v)>>
      \/ Replace(d, v) = <<Write(p, v)>>
  BY <1>1 DEF Replace
<1>4. /\ Write(b, disk[p]).version = disk[p] /\ Write(b, disk[b]).version = disk[b]
      /\ Write(p, v).version = v /\ Write(b, v).version = v
  BY WriteParts
<1> DEFINE w1 == Write(b, disk[p])
           w2 == Write(b, disk[b])
           w3 == Write(p, v)
           w4 == Write(b, v)
<1>5. w1.version # n /\ w2.version # n /\ w3.version # n /\ w4.version # n
  BY <1>2, <1>4
<1>6. \/ Replace(d, v) = <<w1, w3>>
      \/ Replace(d, v) = <<w2, w3, w4>>
      \/ Replace(d, v) = <<w3>>
  BY <1>3
<1> HIDE DEF w1, w2, w3, w4
<1>7. CASE Replace(d, v) = <<w1, w3>>
  BY <1>5, <1>7
<1>8. CASE Replace(d, v) = <<w2, w3, w4>>
  BY <1>5, <1>8
<1>9. CASE Replace(d, v) = <<w3>>
  BY <1>5, <1>9
<1> QED BY <1>6, <1>7, <1>8, <1>9

LEMMA JoinedVersions ==
  ASSUME NEW s \in Seq(Writes), NEW t \in Seq(Writes), NEW n,
         \A i \in 1 .. Len(s) : s[i].version # n,
         \A i \in 1 .. Len(t) : t[i].version # n
  PROVE  /\ s \o t \in Seq(Writes)
         /\ \A i \in 1 .. Len(s \o t) : (s \o t)[i].version # n
<1>1. s \o t \in Seq(Writes) /\ Joins(s \o t, s, t)
  BY Concatenated
<1>2. PICK u : u = s \o t
  OBVIOUS
<1>3. ASSUME NEW i \in 1 .. Len(u) PROVE u[i].version # n
  BY <1>1, <1>2 DEF Joins
<1> QED BY <1>1, <1>2, <1>3

LEMMA ApplyPairVersions ==
  ASSUME Types, NEW v \in Versions, NEW n, v # n, Unwritten(n)
  PROVE  /\ ApplyPair(Both(v)) \in Seq(Writes)
         /\ \A i \in 1 .. Len(ApplyPair(Both(v))) :
              ApplyPair(Both(v))[i].version # n
<1>1. "state" \in Documents /\ "projects" \in Documents
  BY DEF Documents
<1>2. Both(v)["state"] = v /\ Both(v)["projects"] = v
  BY <1>1, Both1
<1> DEFINE s == Replace("state", v)
           t == Replace("projects", v)
<1>3. ApplyPair(Both(v)) = s \o t
  BY <1>2 DEF ApplyPair
<1>4. s \in Seq(Writes) /\ t \in Seq(Writes)
  BY <1>1, ReplaceRewrites
<1>5. /\ \A i \in 1 .. Len(s) : s[i].version # n
      /\ \A i \in 1 .. Len(t) : t[i].version # n
  BY <1>1, ReplaceVersions
<1> HIDE DEF s, t
<1> QED BY <1>3, <1>4, <1>5, JoinedVersions

LEMMA RefreshVersions ==
  ASSUME NEW v \in Versions, NEW n, v # n
  PROVE  /\ RefreshBackups(Both(v)) \in Seq(Writes)
         /\ \A i \in 1 .. Len(RefreshBackups(Both(v))) :
              RefreshBackups(Both(v))[i].version # n
<1>1. Both(v) \in [Documents -> Versions] /\ \A d \in Documents : Both(v)[d] = v
  BY Both1
<1>2. /\ RefreshBackups(Both(v)) \in Seq(Writes)
      /\ \A i \in 1 .. Len(RefreshBackups(Both(v))) : \E d \in Documents :
           RefreshBackups(Both(v))[i] = Write(Backup(d), Both(v)[d])
  BY <1>1, BackupWrites
<1> QED BY <1>1, <1>2, WriteParts

(* The writes a recovery, or a rollback, makes.                            *)
LEMMA PairAway ==
  ASSUME Types, NEW v \in Versions, NEW n, v # n, Unwritten(n), UNCHANGED files,
         \/ todo' = ApplyPair(Both(v))
         \/ todo' = ApplyPair(Both(v)) \o <<>>
         \/ todo' = RefreshBackups(Both(v))
         \/ todo' = ApplyPair(Both(v)) \o RefreshBackups(Both(v))
  PROVE  Away(n)'
<1> DEFINE s == ApplyPair(Both(v))
           t == RefreshBackups(Both(v))
<1>1. /\ s \in Seq(Writes) /\ \A i \in 1 .. Len(s) : s[i].version # n
      /\ t \in Seq(Writes) /\ \A i \in 1 .. Len(t) : t[i].version # n
  BY ApplyPairVersions, RefreshVersions
<1> HIDE DEF s, t
<1>2. \A i \in 1 .. Len(s \o t) : (s \o t)[i].version # n
  BY <1>1, JoinedVersions
<1>3. s \o <<>> = s
  BY <1>1
<1>4. \/ todo' = s \/ todo' = s \o <<>> \/ todo' = t \/ todo' = s \o t
  BY DEF s, t
<1>5. \A i \in 1 .. Len(todo') : todo'[i].version # n
  BY <1>1, <1>2, <1>3, <1>4
<1>6. NoneLeft(n)'
  BY <1>5 DEF NoneLeft
<1>7. Unwritten(n)'
  BY DEF Unwritten, Absent, files
<1> QED BY <1>6, <1>7 DEF Away

LEMMA ConcatenatedAt ==
  ASSUME NEW s \in Seq(Writes), NEW t \in Seq(Writes)
  PROVE  /\ Len(s) \in Nat /\ Len(s \o t) = Len(s) + Len(t)
         /\ \A i \in 1 .. Len(s) + Len(t) :
              (s \o t)[i] = IF i <= Len(s) THEN s[i] ELSE t[i - Len(s)]
<1>1. Len(s) \in Nat /\ Len(s \o t) = Len(s) + Len(t)
  OBVIOUS
<1>2. \A i \in 1 .. Len(s) + Len(t) :
        (s \o t)[i] = IF i <= Len(s) THEN s[i] ELSE t[i - Len(s)]
  OBVIOUS
<1> QED BY <1>1, <1>2

(* A refresh of the backups comes last.                                    *)
LEMMA RefreshLands ==
  ASSUME NEW s \in Seq(Writes), NEW v \in Versions,
         todo' = s \o RefreshBackups(Both(v))
  PROVE  \A d \in Documents : Lands(Backup(d), v)'
<1> DEFINE t == RefreshBackups(Both(v))
<1>1. Both(v) \in [Documents -> Versions] /\ \A d \in Documents : Both(v)[d] = v
  BY Both1
<1>2. "state" \in Documents /\ "projects" \in Documents
      /\ \A d \in Documents : d = "state" \/ d = "projects"
  BY DEF Documents
<1>3. /\ t \in Seq(Writes) /\ Len(t) = 2
      /\ t[1] = Write(Backup("state"), v) /\ t[2] = Write(Backup("projects"), v)
  BY <1>1, <1>2, BackupWrites
<1>4. todo' = s \o t
  OBVIOUS
<1> HIDE DEF t
<1>5. /\ Len(s) \in Nat /\ Len(todo') = Len(s) + 2
      /\ \A i \in 1 .. Len(s) + 2 :
           todo'[i] = IF i <= Len(s) THEN s[i] ELSE t[i - Len(s)]
  <2>1. /\ Len(s) \in Nat /\ Len(s \o t) = Len(s) + Len(t)
        /\ \A i \in 1 .. Len(s) + Len(t) :
             (s \o t)[i] = IF i <= Len(s) THEN s[i] ELSE t[i - Len(s)]
    BY <1>3, ConcatenatedAt
  <2>2. Len(t) = 2
    BY <1>3
  <2>3. Len(s) + Len(t) = Len(s) + 2
    BY <2>2
  <2> QED BY <1>4, <2>1, <2>3
<1>6. /\ todo'[Len(s) + 1] = t[1] /\ todo'[Len(s) + 2] = t[2]
      /\ Len(s) + 1 \in 1 .. Len(todo') /\ Len(s) + 2 \in 1 .. Len(todo')
  BY <1>5
<1>7. t[1].version = v /\ t[2].version = v
  BY <1>3, WriteParts
<1>8. \A i \in 1 .. Len(todo') : i > Len(s) => todo'[i].version = v
  <2> SUFFICES ASSUME NEW i \in 1 .. Len(todo'), i > Len(s)
               PROVE  todo'[i].version = v
    OBVIOUS
  <2>1. i = Len(s) + 1 \/ i = Len(s) + 2
    BY <1>5
  <2> QED BY <1>6, <1>7, <2>1
<1>9. \A f : \A k \in Nat : k > Len(s) => OnlyWith(f, v, k)'
  <2>1. ASSUME NEW k \in Nat, k > Len(s), NEW i \in 1 .. Len(todo'), i > k
        PROVE  todo'[i].version = v
    <3>1. i > Len(s)
      BY <1>5, <2>1
    <3> QED BY <1>8, <3>1
  <2> QED BY <2>1 DEF OnlyWith
<1>10. \A f : (\E i \in 1 .. Len(todo') : i > Len(s) /\ todo'[i] = Write(f, v))
                => Lands(f, v)'
  <2> SUFFICES ASSUME NEW f, NEW i \in 1 .. Len(todo'), i > Len(s),
                      todo'[i] = Write(f, v)
               PROVE  Lands(f, v)'
    OBVIOUS
  <2>1. i \in Nat
    BY <1>5
  <2>2. OnlyWith(f, v, i)'
    BY <1>9, <2>1
  <2> QED BY <2>2 DEF Lands, Write
<1>11. Len(s) + 1 > Len(s) /\ Len(s) + 2 > Len(s)
  BY <1>5
<1>12. /\ \A f : f = Backup("state") => Lands(f, v)'
       /\ \A f : f = Backup("projects") => Lands(f, v)'
  BY <1>3, <1>6, <1>10, <1>11
<1>13. \A d \in Documents : \A f : f = Backup(d) => Lands(f, v)'
  BY <1>2, <1>12
<1> QED BY <1>13 DEF Backup, File

(* Steps that leave a file as it is on one of the disks, or delete it.     *)
Kin(f) == /\ disk'[f] \in {disk[f], synced[f], None}
          /\ synced'[f] \in {disk[f], synced[f], None}

LEMMA KinStays ==
  ASSUME NEW n \in Nat
  PROVE  /\ (\A d \in Documents : Kin(Backup(d))) /\ Clean(n) => Clean(n)'
         /\ (\A f \in Files : Kin(f)) /\ Unwritten(n) => Unwritten(n)'
<1>1. n # None
  BY NoneAssumption
<1>2. ASSUME \A d \in Documents : Kin(Backup(d)), Clean(n) PROVE Clean(n)'
  <2>1. \A d \in Documents : disk'[Backup(d)] # n /\ synced'[Backup(d)] # n
    BY <1>1, <1>2 DEF Kin, Clean, Absent
  <2> QED BY <2>1 DEF Clean, Absent, Backup, File
<1>3. ASSUME \A f \in Files : Kin(f), Unwritten(n) PROVE Unwritten(n)'
  BY <1>1, <1>3 DEF Kin, Unwritten, Absent, Files
<1> QED BY <1>2, <1>3

LEMMA UnwrittenClean ==
  ASSUME NEW n, Unwritten(n)
  PROVE  Clean(n)
BY FileNames DEF Unwritten, Clean, Backup, Copies

(* A step that leaves nothing to write and starts nothing.                 *)
LEMMA QuietForgets ==
  ASSUME ForgetInv, todo' = <<>>, next' = next, budget'.saves = budget.saves,
         phase' \in {"idle", "check", "load", "cleanup", "delete"},
         up' /\ ~saving' /\ phase' # "idle" => up /\ ~saving /\ phase # "idle",
         next \in Nat, \A n \in Nat : Unwritten(n) => Unwritten(n)',
         CleanInv', CommitInv'
  PROVE  ForgetInv'
<1>1. \A n : NoneLeft(n)'
  BY DEF NoneLeft
<1>2. \A n \in Nat : Away(n) => Away(n)'
  BY <1>1 DEF Away
<1>3. FreshInv'
  BY <1>2 DEF ForgetInv, FreshInv
<1>4. EarlyInv'
  <2>1. \A n \in Nat : n = next /\ EarlyInv /\ up' /\ ~saving' /\ phase' # "idle"
                         => n # 0 /\ Away(n)'
    BY <1>2 DEF EarlyInv
  <2>2. up' /\ ~saving' /\ phase' # "idle" => next # 0 /\ Away(next)'
    <3>1. \A n : n = next /\ Away(n)' => Away(next)'
      BY DEF Away, Unwritten, NoneLeft, Absent
    <3> QED BY <2>1, <3>1 DEF ForgetInv
  <2> QED BY <2>2 DEF EarlyInv
<1> QED BY <1>3, <1>4 DEF ForgetInv, OlderInv, RecoveryInv, RefreshedInv

LEMMA CleanStays ==
  ASSUME CleanInv, next' = next, next \in Nat,
         Possible(None)' \/ phase' = "cleanup" => Possible(None) \/ phase = "cleanup",
         \A n \in Nat : Clean(n) => Clean(n)', \A v : Holds(v) => Holds(v)'
  PROVE  CleanInv'
<1>1. \A n : n = next' /\ (Clean(n)' \/ Holds(n)') => (Clean(next) \/ Holds(next))'
  BY DEF Clean, Absent, Holds
<1> QED BY <1>1 DEF CleanInv

LEMMA CommitStays ==
  ASSUME CommitInv, next' = next, next \in Nat,
         Possible("CommitNext")' => Possible("CommitNext"),
         \A n \in Nat : Unwritten(n) => Unwritten(n)',
         \A v : Kept("next", v) => Kept("next", v)'
  PROVE  CommitInv'
<1>1. \A n : n = next' /\ (Kept("next", n)' \/ Unwritten(n)')
               => (Kept("next", next) \/ Unwritten(next))'
  BY DEF Kept, Settled, Unwritten, Absent
<1> QED BY <1>1 DEF CommitInv

LEMMA NextVersion ==
  ASSUME Types
  PROVE  next \in Nat /\ next \in Versions /\ next \in doubt
BY Distinct DEF Types

(* Steps that touch no file.                                               *)
LEMMA SameForgets ==
  ASSUME UNCHANGED files
  PROVE  /\ \A n : Clean(n) => Clean(n)'
         /\ \A n : Unwritten(n) => Unwritten(n)'
BY DEF files, Clean, Unwritten, Absent, Backup, File

LEMMA UntouchedForgets ==
  ASSUME Types, ForgetInv, UNCHANGED files, todo' = <<>>, next' = next,
         budget'.saves = budget.saves,
         phase' \in {"idle", "check", "load", "delete"},
         up' /\ ~saving' /\ phase' # "idle" => up /\ ~saving /\ phase # "idle"
  PROVE  ForgetInv'
<1>1. next \in Nat
  BY NextVersion
<1>2. CleanInv'
  BY <1>1, SameFiles, SameForgets, CleanStays DEF ForgetInv
<1>3. CommitInv'
  BY <1>1, SameFiles, SameForgets, CommitStays DEF ForgetInv
<1> QED BY <1>1, <1>2, <1>3, SameForgets, QuietForgets

LEMMA StartupForgets ==
  ASSUME Types, ForgetInv, Startup
  PROVE  ForgetInv'
BY UntouchedForgets DEF Startup, Enter

LEMMA RecoverImpossibleForgets ==
  ASSUME Types, ForgetInv, RecoverImpossible
  PROVE  ForgetInv'
<1>1. UNCHANGED files /\ Return("err")
      /\ (Spend("faults", MaxFaults) \/ UNCHANGED budget)
  BY DEF RecoverImpossible
<1>2. budget'.saves = budget.saves
  BY <1>1 DEF Spend, Types
<1> QED BY <1>1, <1>2, ReturnErr, UntouchedForgets

LEMMA RefreshedForgets ==
  ASSUME Types, ForgetInv, Refreshed
  PROVE  ForgetInv'
<1>1. UNCHANGED files /\ Return("ok") /\ budget' = budget
  BY DEF Refreshed
<1> QED BY <1>1, ReturnOk, UntouchedForgets

LEMMA SaveForgets ==
  ASSUME Types, ForgetInv, Save
  PROVE  ForgetInv'
<1>1. /\ UNCHANGED files /\ next' = budget.saves + 1
      /\ phase' = "check" /\ todo' = <<>> /\ up' = up
      /\ budget' = [budget EXCEPT !.saves = @ + 1]
  BY DEF Save, Enter, Spend
<1>2. budget.saves \in Nat /\ budget'.saves = budget.saves + 1
  BY <1>1 DEF Types
<1>3. \A n : NoneLeft(n)'
  BY <1>1 DEF NoneLeft
<1>4. \A n \in Nat : n > budget.saves => Away(n)'
  BY <1>1, <1>3, SameForgets DEF ForgetInv, FreshInv, Away
<1>5. FreshInv'
  BY <1>1, <1>2, <1>4 DEF FreshInv
<1>6. PICK m \in Nat : m = budget.saves + 1 /\ m > budget.saves /\ m # 0
  BY <1>2
<1>7. Away(m)'
  BY <1>4, <1>6
<1>8. Unwritten(m)' /\ Clean(m)'
  <2>1. Unwritten(m)
    BY <1>6 DEF ForgetInv, FreshInv, Away
  <2> QED BY <1>1, <2>1, UnwrittenClean, SameForgets
<1>9. next' = m
  BY <1>1, <1>6
<1>10. EarlyInv'
  <2>1. Away(next)'
    BY <1>7, <1>9 DEF Away, Unwritten, NoneLeft, Absent
  <2> QED BY <1>6, <1>9, <2>1 DEF EarlyInv
<1>11. CleanInv' /\ CommitInv'
  <2>1. Clean(next)' /\ Unwritten(next)'
    BY <1>8, <1>9 DEF Clean, Unwritten, Absent
  <2> QED BY <2>1 DEF CleanInv, CommitInv
<1> QED BY <1>1, <1>5, <1>10, <1>11
     DEF ForgetInv, OlderInv, RecoveryInv, RefreshedInv

LEMMA CrashForgets ==
  ASSUME Types, ForgetInv, Crash
  PROVE  ForgetInv'
<1>0. DOMAIN disk = Names
  BY DEF Types
<1>1. (\A f \in Names : disk'[f] \in {disk[f], synced[f]}) /\ synced' = synced
  BY <1>0 DEF Crash
<1>2. /\ phase' = "idle" /\ todo' = <<>> /\ up' = FALSE /\ next' = next
      /\ budget'.saves = budget.saves
  BY DEF Crash, Enter, Spend, Types
<1>3. /\ Marker \in Names /\ Files \subseteq Names
      /\ \A d \in Documents, c \in Copies : File(d, c) \in Names
      /\ \A d \in Documents : Primary(d) \in Names /\ Backup(d) \in Names
      /\ \A d \in Documents : Backup(d) \in Files
  BY FileNames DEF Names, Primary, Backup, Copies
<1>4. next \in Nat
  BY NextVersion
<1>5. \A f \in Files : Kin(f)
  BY <1>1, <1>3 DEF Kin
<1>6. \A n \in Nat : (Unwritten(n) => Unwritten(n)') /\ (Clean(n) => Clean(n)')
  BY <1>3, <1>5, KinStays
<1>7. \A m : Possible(m)' => Possible(m)
  BY <1>1, <1>3 DEF Possible
<1>8. \A v : Holds(v) => Holds(v)'
  <2>1. \A d \in Documents :
          /\ disk'[Primary(d)] \in {disk[Primary(d)], synced[Primary(d)]}
          /\ disk'[Backup(d)] \in {disk[Backup(d)], synced[Backup(d)]}
    BY <1>1, <1>3
  <2> QED BY <1>1, <2>1 DEF Holds, Primary, Backup, File
<1>9. \A v : Kept("next", v) => Kept("next", v)'
  BY <1>1, <1>3 DEF Kept, Settled, Copies
<1>10. CleanInv'
  BY <1>2, <1>4, <1>6, <1>7, <1>8, CleanStays DEF ForgetInv
<1>11. CommitInv'
  BY <1>2, <1>4, <1>6, <1>7, <1>9, CommitStays DEF ForgetInv
<1> QED BY <1>2, <1>4, <1>6, <1>10, <1>11, QuietForgets

(* Only the marker changes.                                                *)
OnlyMarker ==
  \A f \in Names : f # Marker => /\ disk'[f] = disk[f]
                                 /\ synced'[f] \in {disk[f], synced[f]}

LEMMA OnlyMarkerStays ==
  ASSUME OnlyMarker
  PROVE  /\ \A n \in Nat : Unwritten(n) => Unwritten(n)'
         /\ \A n \in Nat : Clean(n) => Clean(n)'
         /\ \A v : Holds(v) => Holds(v)'
         /\ \A c \in Copies : \A v : Kept(c, v) => Kept(c, v)'
<1>1. /\ \A f \in Files : f \in Names /\ f # Marker
      /\ \A d \in Documents, c \in Copies : File(d, c) \in Names /\ File(d, c) # Marker
      /\ \A d \in Documents : /\ Primary(d) \in Names /\ Primary(d) # Marker
                              /\ Backup(d) \in Names /\ Backup(d) # Marker
                              /\ Backup(d) \in Files
  <2>1. \A f \in Files : f \in Names /\ f # Marker
    BY DEF Names, Files, Marker, Documents
  <2> QED BY <2>1, FileNames DEF Primary, Backup, Copies
<1>2. \A f \in Files : Kin(f)
  BY <1>1 DEF OnlyMarker, Kin
<1>3. \A n \in Nat : (Unwritten(n) => Unwritten(n)') /\ (Clean(n) => Clean(n)')
  BY <1>1, <1>2, KinStays
<1>4. \A v : Holds(v) => Holds(v)'
  <2>1. DocumentsStay
    BY <1>1 DEF DocumentsStay, OnlyMarker
  <2> QED BY <2>1, HoldsStays
<1>5. \A c \in Copies : \A v : Kept(c, v) => Kept(c, v)'
  BY <1>1 DEF OnlyMarker, Kept, Settled
<1> QED BY <1>3, <1>4, <1>5

LEMMA MoveMarkerForgets ==
  ASSUME Types, ForgetInv, MoveMarker, disk[Marker] = None => synced[Marker] = None
  PROVE  ForgetInv'
<1>1. /\ phase = "cleanup" /\ phase' = "delete" /\ todo' = <<>> /\ up' = up
      /\ next' = next /\ saving' = saving /\ budget' = budget
  BY DEF MoveMarker, Enter, save
<1>2. next \in Nat /\ None # "CommitNext"
  BY NextVersion, Distinct
<1>3. OnlyMarker /\ disk'[Marker] = None /\ synced'[Marker] = None
  <2>1. CASE disk[Marker] = None
    <3>1. disk' = disk /\ synced' = synced
      BY <2>1 DEF MoveMarker, files
    <3> QED BY <2>1, <3>1 DEF OnlyMarker
  <2>2. CASE disk[Marker] # None
    <3>1. disk' = [disk EXCEPT ![Marker] = None] /\ synced' = disk'
      BY <2>2 DEF MoveMarker
    <3> QED BY <3>1, FileNames DEF OnlyMarker, Types
  <2> QED BY <2>1, <2>2
<1>4. CleanInv'
  BY <1>1, <1>2, <1>3, OnlyMarkerStays, CleanStays DEF ForgetInv
<1>5. CommitInv'
  BY <1>2, <1>3 DEF CommitInv, Possible
<1> QED BY <1>1, <1>2, <1>3, <1>4, <1>5, OnlyMarkerStays, QuietForgets

LEMMA MoveMarkerFailsForgets ==
  ASSUME Types, ForgetInv, MoveMarkerFails
  PROVE  ForgetInv'
<1>1. /\ phase = "cleanup" /\ Return("err") /\ synced' = synced
      /\ Spend("faults", MaxFaults)
      /\ disk' = disk \/ disk' = [disk EXCEPT ![Marker] = None]
  BY DEF MoveMarkerFails
<1>2. budget'.saves = budget.saves
  BY <1>1 DEF Spend, Types
<1>3. phase' = "idle" /\ todo' = <<>> /\ next' = next
  BY <1>1, ReturnErr
<1>4. next \in Nat /\ None # "CommitNext"
  BY NextVersion, Distinct
<1>5. OnlyMarker /\ disk'[Marker] \in {disk[Marker], None}
  BY <1>1, FileNames DEF OnlyMarker, Types
<1>6. CleanInv'
  BY <1>1, <1>3, <1>4, <1>5, OnlyMarkerStays, CleanStays DEF ForgetInv
<1>7. CommitInv'
  <2>1. Possible("CommitNext")' => Possible("CommitNext")
    BY <1>1, <1>4, <1>5 DEF Possible
  <2>2. \A v : Kept("next", v) => Kept("next", v)'
    BY <1>5, OnlyMarkerStays DEF Copies
  <2> QED BY <1>3, <1>4, <1>5, <2>1, <2>2, OnlyMarkerStays, CommitStays
          DEF ForgetInv
<1> QED BY <1>2, <1>3, <1>4, <1>5, <1>6, <1>7, OnlyMarkerStays, QuietForgets

LEMMA DeleteStagesForgets ==
  ASSUME IInv, ForgetInv, DeleteStages
  PROVE  ForgetInv'
<1>1. /\ phase = "delete" /\ synced' = synced /\ budget' = budget
      /\ disk' = [f \in DOMAIN disk |-> IF f \in Stages THEN None ELSE disk[f]]
  BY DEF DeleteStages
<1>2. CleanupInv /\ Settled(Marker, None) /\ Types
  BY <1>1 DEF IInv, PhaseInv
<1>3. /\ Marker \in Names /\ Marker \notin Stages /\ Files \subseteq Names
      /\ \A d \in Documents : /\ Primary(d) \in Names /\ Primary(d) \notin Stages
                              /\ Backup(d) \in Names /\ Backup(d) \notin Stages
                              /\ Backup(d) \in Files
  BY FileNames DEF Names, Primary, Backup, Copies
<1>4. \A f \in Names : disk'[f] = IF f \in Stages THEN None ELSE disk[f]
  BY <1>1, <1>2 DEF Types
<1>5. /\ disk'[Marker] = None /\ synced'[Marker] = None /\ DocumentsStay
  BY <1>1, <1>2, <1>3, <1>4 DEF Settled, DocumentsStay
<1>6. \A n \in Nat : (Unwritten(n) => Unwritten(n)') /\ (Clean(n) => Clean(n)')
  <2>1. \A f \in Files : Kin(f)
    BY <1>1, <1>3, <1>4 DEF Kin
  <2> QED BY <1>3, <2>1, KinStays
<1>7. /\ \A w : Holds(w) => Holds(w)'
      /\ \A w : Kept("primary", w) => Kept("primary", w)'
  BY <1>5, HoldsStays
<1>8. next \in Nat /\ next \in Versions /\ None # "CommitNext"
  BY <1>2, NextVersion, Distinct
<1>9. next' = next
  BY <1>2, ReturnOk, ReturnErr DEF DeleteStages, save, Types
<1>10. CommitInv'
  BY <1>5, <1>8 DEF CommitInv, Possible
<1>11. CleanInv'
  <2>1. Possible(None)
    BY <1>2 DEF Possible, Settled
  <2> QED BY <1>6, <1>7, <1>8, <1>9, <2>1, CleanStays DEF ForgetInv
<1>12. CASE Return(outcome) /\ saving
  <2>1. phase' = "idle" /\ todo' = <<>>
    BY <1>12 DEF Return, Enter
  <2> QED BY <1>1, <1>6, <1>8, <1>9, <1>10, <1>11, <2>1, QuietForgets
<1>13. CASE /\ saving /\ Enter("refresh", RefreshBackups(Both(next)))
            /\ UNCHANGED <<up, save, doubt>>
  <2>1. /\ phase' = "refresh" /\ todo' = RefreshBackups(Both(next))
        /\ saving' /\ next' = next
    BY <1>13 DEF Enter, save
  <2>2. FreshInv'
    <3> SUFFICES ASSUME NEW n \in Nat, n > budget.saves
                 PROVE  n # next /\ Away(n)'
      BY <1>1, <2>1 DEF FreshInv
    <3>1. n # next /\ Unwritten(n)
      BY DEF ForgetInv, FreshInv, Away
    <3>2. \A i \in 1 .. Len(todo') : todo'[i].version # n
      BY <1>8, <2>1, <3>1, RefreshVersions
    <3> QED BY <1>6, <3>1, <3>2 DEF Away, NoneLeft
  <2>3. EarlyInv'
    BY <2>1 DEF EarlyInv
  <2> QED BY <1>10, <1>11, <2>1, <2>2, <2>3
          DEF ForgetInv, OlderInv, RecoveryInv, RefreshedInv
<1>14. CASE ~saving /\ Enter("load", <<>>) /\ UNCHANGED <<up, save, doubt>>
  <2>1. phase' = "load" /\ todo' = <<>> /\ up' = up /\ saving' = saving
    BY <1>14 DEF Enter, save
  <2> QED BY <1>1, <1>6, <1>8, <1>9, <1>10, <1>11, <2>1, QuietForgets
<1>15. saving \in BOOLEAN
  BY <1>2 DEF Types
<1> QED BY <1>12, <1>13, <1>14, <1>15 DEF DeleteStages

LEMMA RecoverDoes ==
  ASSUME IInv, Recover
  PROVE  \E v \in doubt :
           /\ Kept(StageOf(disk[Marker]), v)
           /\ todo' = ApplyPair(Both(v)) \o (IF disk[Marker] = "RollBack"
                                             THEN RefreshBackups(Both(v)) ELSE <<>>)
<1> DEFINE c == StageOf(disk[Marker])
           pair == [d \in Documents |-> disk[File(d, c)]]
<1>1. /\ disk[Marker] # None
      /\ todo' = ApplyPair(pair) \o (IF disk[Marker] = "RollBack"
                                     THEN RefreshBackups(pair) ELSE <<>>)
  BY DEF Recover, Enter
<1>2. PICK v \in doubt : Kept(c, v)
  <2>1. disk[Marker] \in {"RollBack", "CommitNext"} /\ Possible(disk[Marker])
    BY <1>1 DEF IInv, Types, Markers, Possible
  <2> QED BY <2>1 DEF IInv, Recoverable, StageOf
<1>3. pair = Both(v)
  BY <1>2 DEF Both, Kept, Settled
<1> QED BY <1>1, <1>2, <1>3

(* A version that was never written is no stage's.                         *)
LEMMA StageUnwritten ==
  ASSUME NEW c \in Copies, NEW v, NEW n, Kept(c, v), Unwritten(n)
  PROVE  v # n
<1>1. "state" \in Documents /\ File("state", c) \in Files
  BY FileNames DEF Documents
<1> QED BY <1>1 DEF Kept, Settled, Unwritten, Absent

LEMMA RecoverForgets ==
  ASSUME IInv, ForgetInv, Recover
  PROVE  ForgetInv'
<1>1. /\ phase = "check" /\ UNCHANGED files /\ phase' = "recover" /\ up' = up
      /\ next' = next /\ saving' = saving /\ doubt' = doubt /\ budget' = budget
  BY DEF Recover, Enter, save
<1>2. Types /\ doubt \subseteq Versions /\ next \in Nat
  BY NextVersion DEF IInv, Types
<1> DEFINE c == StageOf(disk[Marker])
<1>3. PICK v \in doubt :
        /\ Kept(c, v)
        /\ todo' = ApplyPair(Both(v)) \o (IF disk[Marker] = "RollBack"
                                          THEN RefreshBackups(Both(v)) ELSE <<>>)
  BY RecoverDoes
<1>4. v \in Versions /\ c \in Copies
  BY <1>2 DEF StageOf, Copies
<1> HIDE DEF c
<1>5. ASSUME NEW n, Unwritten(n) PROVE Away(n)'
  <2>1. v # n
    BY <1>3, <1>4, <1>5, StageUnwritten
  <2>2. \/ todo' = ApplyPair(Both(v)) \o <<>>
        \/ todo' = ApplyPair(Both(v)) \o RefreshBackups(Both(v))
    BY <1>3
  <2> QED BY <1>1, <1>2, <1>4, <1>5, <2>1, <2>2, PairAway
<1>6. FreshInv'
  BY <1>1, <1>5 DEF ForgetInv, FreshInv, Away
<1>7. \A n : n = next /\ Away(n)' => Away(next)'
  BY <1>1 DEF Away, Unwritten, NoneLeft, Absent
<1>8. EarlyInv'
  <2>1. up' /\ ~saving' => next # 0 /\ Unwritten(next)
    BY <1>1 DEF ForgetInv, EarlyInv, Away
  <2> QED BY <1>1, <1>5, <1>7, <2>1 DEF EarlyInv
<1>9. CleanInv'
  BY <1>1, <1>2, SameFiles, SameForgets, CleanStays DEF ForgetInv
<1>10. CommitInv'
  BY <1>1, <1>2, SameFiles, SameForgets, CommitStays DEF ForgetInv
<1>11. disk'[Marker] = disk[Marker]
  BY <1>1 DEF files
<1>12. ASSUME disk[Marker] = "RollBack"
       PROVE  /\ Kept("previous", v)'
              /\ \A d \in Documents : Lands(Backup(d), v)'
  <2>1. Kept("previous", v)'
    BY <1>1, <1>3, <1>12, SameFiles DEF c, StageOf
  <2>2. ApplyPair(Both(v)) \in Seq(Writes)
    BY <1>2, <1>4, Both1, ApplyPairRewrites DEF RewritesTo
  <2>3. todo' = ApplyPair(Both(v)) \o RefreshBackups(Both(v))
    BY <1>3, <1>12
  <2> QED BY <1>4, <2>1, <2>2, <2>3, RefreshLands
<1>13. ASSUME disk[Marker] = "CommitNext"
       PROVE  Kept("next", next)' \/ Away(next)'
  <2>1. Kept("next", next) \/ Unwritten(next)
    BY <1>13 DEF ForgetInv, CommitInv, Possible
  <2>2. CASE Kept("next", next)
    BY <1>1, <2>2 DEF Kept, Settled, files
  <2>3. CASE Unwritten(next)
    BY <1>5, <1>7, <2>3
  <2> QED BY <2>1, <2>2, <2>3
<1>14. RecoveryInv'
  BY <1>1, <1>11, <1>12, <1>13 DEF RecoveryInv
<1> QED BY <1>1, <1>6, <1>8, <1>9, <1>10, <1>14
        DEF ForgetInv, OlderInv, RefreshedInv

LEMMA RollBackForgets ==
  ASSUME IInv, ForgetInv, RollBack
  PROVE  ForgetInv'
<1>1. /\ phase = "rollback" /\ UNCHANGED files
      /\ phase' = "restore" /\ todo' = ApplyPair(previous)
      /\ up' = up /\ next' = next /\ previous' = previous
      /\ saving' = saving /\ doubt' = doubt /\ budget' = budget
  BY DEF RollBack, Enter, save
<1>2. UndoneInv /\ Staged /\ Types /\ next \in Nat
  BY <1>1, NextVersion DEF IInv, PhaseInv
<1>3. PICK v \in doubt : previous = Both(v) /\ Kept("previous", v)
  BY <1>2 DEF Staged
<1>4. v \in Versions
  BY <1>2 DEF Types
<1>5. ASSUME NEW n, Unwritten(n) PROVE Away(n)'
  <2>1. v # n
    BY <1>3, <1>5, StageUnwritten DEF Copies
  <2> QED BY <1>1, <1>2, <1>3, <1>4, <1>5, <2>1, PairAway
<1>6. FreshInv'
  BY <1>1, <1>5 DEF ForgetInv, FreshInv, Away
<1>7. EarlyInv' /\ OlderInv'
  BY <1>1, <1>2 DEF EarlyInv, UndoneInv, ForgetInv, OlderInv
<1>8. CleanInv'
  BY <1>1, <1>2, SameFiles, SameForgets, CleanStays DEF ForgetInv
<1>9. CommitInv'
  BY <1>1, <1>2, SameFiles, SameForgets, CommitStays DEF ForgetInv
<1> QED BY <1>1, <1>6, <1>7, <1>8, <1>9
        DEF ForgetInv, RecoveryInv, RefreshedInv

(* With nothing left to write, a file that was to hold a version does.     *)
LEMMA Landed ==
  ASSUME todo = <<>>, NEW f, NEW v, Lands(f, v)
  PROVE  Settled(f, v)
BY DEF Lands

LEMMA LandedClean ==
  ASSUME todo = <<>>, NEW n, NEW v, v # n,
         \A d \in Documents : Lands(Backup(d), v)
  PROVE  Clean(n)
<1>1. \A d \in Documents : Settled(Backup(d), v)
  BY Landed
<1> QED BY <1>1 DEF Clean, Absent, Settled

LEMMA AdvanceForgets ==
  ASSUME IInv, ForgetInv, Advance
  PROVE  ForgetInv'
<1>1. /\ todo = <<>> /\ UNCHANGED files
      /\ up' = up /\ next' = next /\ outcome' = outcome
      /\ previous' = previous
      /\ saving' = saving /\ doubt' = doubt /\ budget' = budget
  BY DEF Advance, save
<1>2. /\ Types /\ next \in Nat /\ next \in Versions /\ doubt \subseteq Versions
  BY NextVersion DEF IInv, Types
<1>3. CommitInv'
  BY <1>1, <1>2, SameFiles, SameForgets, CommitStays DEF ForgetInv
<1>4. ASSUME phase' # "cleanup" PROVE CleanInv'
  BY <1>1, <1>2, <1>4, SameFiles, SameForgets, CleanStays DEF ForgetInv
<1>5. \A f, v : Coming(f, v) => Settled(f, v)
  BY <1>1, NothingPending
<1>6. ASSUME saving, \A n : n # next /\ Unwritten(n) => Away(n)'
      PROVE  FreshInv' /\ EarlyInv'
  BY <1>1, <1>6 DEF ForgetInv, FreshInv, EarlyInv, Away
<1>7. CASE phase = "prepare" /\ Enter("apply", ApplyPair(Both(next)))
  <2>1. saving
    BY <1>7 DEF IInv, PhaseInv, PrepareInv
  <2>2. phase' = "apply" /\ todo' = ApplyPair(Both(next))
    BY <1>7 DEF Enter
  <2>3. \A n : n # next /\ Unwritten(n) => Away(n)'
    BY <1>1, <1>2, <2>2, PairAway
  <2> QED BY <1>1, <1>3, <1>4, <1>6, <1>7, <2>1, <2>2, <2>3
          DEF ForgetInv, OlderInv, RecoveryInv, RefreshedInv
<1>8. CASE phase = "apply" /\ Enter("mark", <<Write(Marker, "CommitNext")>>)
  <2>1. saving
    BY <1>8 DEF IInv, PhaseInv
  <2>2. phase' = "mark" /\ todo' = <<Write(Marker, "CommitNext")>>
    BY <1>8 DEF Enter
  <2>3. \A i \in 1 .. Len(todo') : todo'[i].file = Marker
    <3>1. Write(Marker, "CommitNext").file = Marker
      BY WriteParts
    <3> QED BY <2>2, <3>1
  <2>4. \A n : NoneLeft(n)'
    BY <2>3 DEF NoneLeft, Marker
  <2>5. \A n : n # next /\ Unwritten(n) => Away(n)'
    BY <1>1, <2>4, SameForgets DEF Away
  <2> QED BY <1>1, <1>3, <1>4, <1>6, <1>8, <2>1, <2>2, <2>5
          DEF ForgetInv, OlderInv, RecoveryInv, RefreshedInv
<1>9. CASE phase = "restore" /\ Enter("repair", RefreshBackups(previous))
  <2>1. RestoreInv /\ saving
    BY <1>9 DEF IInv, PhaseInv, RestoreInv, UndoneInv
  <2>2. PICK v \in doubt : previous = Both(v) /\ Kept("previous", v)
    BY <2>1 DEF RestoreInv, Staged
  <2>3. v \in Versions
    BY <1>2
  <2>4. phase' = "repair" /\ todo' = RefreshBackups(Both(v))
    BY <1>9, <2>2 DEF Enter
  <2>5. ASSUME NEW n, Unwritten(n) PROVE Away(n)'
    <3>1. v # n
      BY <2>2, <2>5, StageUnwritten DEF Copies
    <3> QED BY <1>1, <1>2, <2>3, <2>4, <2>5, <3>1, PairAway
  <2>6. \A d \in Documents : Lands(Backup(d), v)'
    <3>1. /\ <<>> \in Seq(Writes) /\ RefreshBackups(Both(v)) \in Seq(Writes)
      BY <2>3, EmptyTodo, Both1, BackupWrites
    <3>2. \A t \in Seq(Writes) : <<>> \o t = t
      OBVIOUS
    <3>3. todo' = <<>> \o RefreshBackups(Both(v))
      BY <2>4, <3>1, <3>2
    <3> QED BY <2>3, <3>1, <3>3, RefreshLands
  <2>7. RefreshedInv'
    <3>1. \A d \in Documents : previous'[d] = v
      BY <1>1, <2>2 DEF Both
    <3>2. \A d \in Documents : \A w : w = v => Lands(Backup(d), w)'
      BY <2>6
    <3>3. \A d \in Documents : Lands(Backup(d), previous[d])'
      BY <3>1, <3>2
    <3> QED BY <3>3 DEF RefreshedInv
  <2> QED BY <1>1, <1>3, <1>4, <1>6, <1>9, <2>1, <2>4, <2>5, <2>7
          DEF ForgetInv, OlderInv, RecoveryInv
<1>10. CASE /\ phase \in {"mark", "repair", "recover"}
            /\ Enter("cleanup", <<>>)
  <2>1. phase' = "cleanup" /\ todo' = <<>>
    BY <1>10 DEF Enter
  <2>2. Clean(next) \/ Holds(next)
    <3>1. CASE phase = "mark"
      <4>1. Kept("primary", next)
        BY <3>1 DEF IInv, PhaseInv, MarkInv
      <4> QED BY <1>2, <4>1, KeptHolds
    <3>2. CASE phase = "repair"
      <4>1. PICK v \in doubt : previous = Both(v)
        BY <3>2 DEF IInv, PhaseInv, RepairInv
      <4>2. \A d \in Documents : previous[d] = v
        BY <4>1 DEF Both
      <4>3. \A d \in Documents : Lands(Backup(d), v)
        BY <3>2, <4>2 DEF ForgetInv, RefreshedInv
      <4>4. v # next
        BY <3>2, <4>2 DEF ForgetInv, OlderInv, Documents
      <4> QED BY <1>1, <4>3, <4>4, LandedClean
    <3>3. CASE phase = "recover"
      <4>1. PICK v \in doubt : Kept(StageOf(disk[Marker]), v) /\ Rewriting(v)
        BY <3>3 DEF IInv, PhaseInv, RecoverInv
      <4>2. Kept("primary", v)
        BY <1>5, <4>1 DEF Rewriting, Kept, Primary
      <4>3. Holds(v)
        BY <1>2, <4>2, KeptHolds
      <4>4. \A c, w : Kept(c, w) /\ Kept(c, v) => w = v
        BY DEF Kept, Settled, Documents
      <4>5. disk[Marker] \in {"RollBack", "CommitNext"}
        BY <3>3 DEF IInv, PhaseInv, RecoverInv, Types, Markers
      <4>6. CASE disk[Marker] = "RollBack"
        <5>1. PICK w \in doubt : /\ Kept("previous", w)
                                 /\ \A d \in Documents : Lands(Backup(d), w)
          BY <3>3, <4>6 DEF ForgetInv, RecoveryInv
        <5>2. w = v
          BY <4>1, <4>4, <4>6, <5>1 DEF StageOf
        <5>3. CASE v = next
          BY <4>3, <5>3
        <5>4. CASE v # next
          BY <1>1, <5>1, <5>2, <5>4, LandedClean
        <5> QED BY <5>3, <5>4
      <4>7. CASE disk[Marker] = "CommitNext"
        <5>1. CASE Kept("next", next)
          <6>1. next = v
            BY <4>1, <4>4, <4>7, <5>1 DEF StageOf
          <6> QED BY <4>3, <6>1
        <5>2. CASE Away(next)
          BY <5>2, UnwrittenClean DEF Away
        <5> QED BY <3>3, <4>7, <5>1, <5>2 DEF ForgetInv, RecoveryInv
      <4> QED BY <4>5, <4>6, <4>7
    <3> QED BY <1>10, <3>1, <3>2, <3>3
  <2>3. CleanInv'
    <3>1. \A n : n = next /\ (Clean(n) \/ Holds(n)) => (Clean(next) \/ Holds(next))'
      BY <1>1, SameFiles, SameForgets DEF Clean, Absent, Holds
    <3> QED BY <2>2, <3>1 DEF CleanInv
  <2>4. up' /\ ~saving' /\ phase' # "idle" => up /\ ~saving /\ phase # "idle"
    BY <1>1, <1>10
  <2> QED BY <1>1, <1>2, <1>3, <2>1, <2>3, <2>4, SameForgets, QuietForgets
<1> QED BY <1>7, <1>8, <1>9, <1>10 DEF Advance

(* The load changes at most a missing backup, which becomes the primary.   *)
LEMMA LoadFiles ==
  ASSUME Types, disk[Marker] = None, LoadPrevious
  PROVE  /\ \A f \in Names : (\A d \in Documents : f # Backup(d)) =>
              /\ disk'[f] = disk[f] /\ synced'[f] \in {disk[f], synced[f]}
         /\ \A d \in Documents :
              /\ disk'[Backup(d)] \in {disk[Backup(d)], disk[Primary(d)]}
              /\ synced'[Backup(d)] \in {synced[Backup(d)], disk'[Backup(d)]}
<1>1. CASE UNCHANGED files
  BY <1>1 DEF files
<1>2. CASE disk' = Repaired /\ synced' = disk'
  <2>1. DOMAIN disk = Names
    BY DEF Types
  <2>2. \A f \in Names :
          disk'[f] = IF \E d \in Documents : f = File(d, "backup") /\ disk[f] = None
                     THEN disk[File(f.doc, "primary")] ELSE disk[f]
    BY <1>2, <2>1 DEF Repaired
  <2>3. \A d \in Documents : File(d, "backup").doc = d /\ File(d, "backup") \in Names
    <3>1. \A d \in Documents : File(d, "backup").doc = d
      BY DEF File
    <3> QED BY <3>1, FileNames DEF Copies
  <2>4. \A d \in Documents : disk'[Backup(d)] \in {disk[Backup(d)], disk[Primary(d)]}
    BY <2>2, <2>3 DEF Backup, Primary
  <2>5. \A f \in Names : (\A d \in Documents : f # Backup(d)) => disk'[f] = disk[f]
    BY <2>2 DEF Backup
  <2> QED BY <1>2, <2>4, <2>5
<1>3. \/ UNCHANGED files
      \/ disk' = Repaired /\ synced' = disk'
  <2>1. \/ disk' = Repaired /\ synced' = (IF Repaired = disk THEN synced ELSE disk')
        \/ UNCHANGED files
    BY DEF LoadPrevious
  <2>2. CASE Repaired = disk
    BY <2>1, <2>2 DEF files
  <2>3. CASE Repaired # disk
    BY <2>1, <2>3
  <2> QED BY <2>2, <2>3
<1> QED BY <1>1, <1>2, <1>3

LEMMA LoadPreviousForgets ==
  ASSUME IInv, ForgetInv, LoadPrevious
  PROVE  ForgetInv'
<1> DEFINE old == [d \in Documents |-> Load(d)]
<1>1. /\ disk[Marker] = None /\ ~saving /\ phase \in {"load", "check"}
  BY DEF LoadPrevious, IInv, PhaseInv
<1>2. /\ Types /\ Recoverable /\ doubt \subseteq Versions
      /\ next \in Nat /\ next \in Versions
  BY NextVersion DEF IInv, Types
<1>3. PICK v \in doubt : Holds(v)
  BY <1>1, <1>2 DEF Recoverable, Possible
<1>4. v \in Versions /\ v \in Nat /\ "state" \in Documents
  BY <1>2, Distinct DEF Documents
<1>5. /\ old = Both(v) /\ Load("state") = v
  BY <1>2, <1>3, <1>4, Found1 DEF Both
<1> HIDE DEF old
<1>6. /\ Marker \in Names /\ \A d \in Documents : Marker # Backup(d)
      /\ \A d \in Documents, c \in {"primary", "previous", "next"} :
           File(d, c) \in Names /\ \A e \in Documents : File(d, c) # Backup(e)
      /\ \A d \in Documents : Primary(d) \in Files /\ Backup(d) \in Files
      /\ Files \subseteq Names
  BY FileNames DEF Names, Primary, Backup, Copies
<1>7. /\ \A f \in Names : (\A d \in Documents : f # Backup(d)) =>
           /\ disk'[f] = disk[f] /\ synced'[f] \in {disk[f], synced[f]}
      /\ \A d \in Documents :
           /\ disk'[Backup(d)] \in {disk[Backup(d)], disk[Primary(d)]}
           /\ synced'[Backup(d)] \in {synced[Backup(d)], disk'[Backup(d)]}
  BY <1>1, <1>2, LoadFiles
<1>8. /\ disk'[Marker] = None /\ synced'[Marker] \in {None, synced[Marker]}
      /\ \A d \in Documents : /\ disk'[Primary(d)] = disk[Primary(d)]
                              /\ synced'[Primary(d)] \in {disk[Primary(d)], synced[Primary(d)]}
  BY <1>1, <1>6, <1>7 DEF Primary
<1>9. \A n \in Nat : Unwritten(n) => Unwritten(n)'
  <2> SUFFICES ASSUME NEW n, Unwritten(n), NEW f \in Files
               PROVE  disk'[f] # n /\ synced'[f] # n
    BY DEF Unwritten, Absent, Files
  <2>1. \A g \in Files : disk[g] # n /\ synced[g] # n
    BY DEF Unwritten, Absent
  <2>2. CASE \A d \in Documents : f # Backup(d)
    BY <1>6, <1>7, <2>1, <2>2
  <2>3. CASE \E d \in Documents : f = Backup(d)
    <3>1. PICK d \in Documents : f = Backup(d)
      BY <2>3
    <3>2. /\ disk[Primary(d)] # n /\ disk[Backup(d)] # n /\ synced[Backup(d)] # n
      BY <1>6, <2>1
    <3> QED BY <1>7, <3>1, <3>2
  <2> QED BY <2>2, <2>3
<1>10. \A w : Kept("next", w) => Kept("next", w)'
  <2>1. \A d \in Documents : /\ disk'[File(d, "next")] = disk[File(d, "next")]
                             /\ synced'[File(d, "next")] \in
                                  {disk[File(d, "next")], synced[File(d, "next")]}
    BY <1>6, <1>7
  <2> QED BY <2>1 DEF Kept, Settled
<1>11. Holds(v)'
  <2> SUFFICES ASSUME NEW d \in Documents
               PROVE  /\ disk'[Primary(d)] \in {v, None}
                      /\ synced'[Primary(d)] \in {v, None}
                      /\ None \in {disk'[Primary(d)], synced'[Primary(d)]} =>
                           /\ v = 0
                           /\ disk'[Backup(d)] \in {None, 0}
                           /\ synced'[Backup(d)] \in {None, 0}
    BY DEF Holds, Primary, Backup, File
  <2>1. /\ disk[Primary(d)] \in {v, None}
        /\ synced[Primary(d)] \in {v, None}
        /\ None \in {disk[Primary(d)], synced[Primary(d)]} =>
             /\ v = 0
             /\ disk[Backup(d)] \in {None, 0}
             /\ synced[Backup(d)] \in {None, 0}
    BY <1>3 DEF Holds
  <2>2. /\ disk'[Primary(d)] = disk[Primary(d)]
        /\ synced'[Primary(d)] \in {disk[Primary(d)], synced[Primary(d)]}
        /\ disk'[Backup(d)] \in {disk[Backup(d)], disk[Primary(d)]}
        /\ synced'[Backup(d)] \in {synced[Backup(d)], disk'[Backup(d)]}
    BY <1>7, <1>8
  <2> HIDE DEF Primary, Backup
  <2> QED BY <2>1, <2>2
<1>12. ASSUME next' = next PROVE CleanInv' /\ CommitInv'
  <2>1. CommitInv'
    <3>1. Possible("CommitNext")' => Possible("CommitNext")
      BY <1>8, Distinct DEF Possible
    <3> QED BY <1>2, <1>9, <1>10, <1>12, <3>1, CommitStays DEF ForgetInv
  <2>2. CASE v = next
    <3>1. Holds(next)'
      BY <1>11, <1>12, <2>2 DEF Holds
    <3> QED BY <2>1, <3>1 DEF CleanInv
  <2>3. CASE v # next
    <3>1. ~Holds(next)
      BY <1>2, <1>4, <1>5, <2>3, Found1
    <3>2. Clean(next)
      BY <1>1, <3>1 DEF ForgetInv, CleanInv, Possible
    <3>3. \A d \in Documents : disk[Primary(d)] # next
      BY <1>2, <1>3, <2>3, Distinct DEF Holds
    <3>4. \A d \in Documents : disk'[Backup(d)] # next /\ synced'[Backup(d)] # next
      BY <1>7, <3>2, <3>3 DEF Clean, Absent
    <3>5. Clean(next)'
      BY <1>12, <3>4 DEF Clean, Absent, Backup, File
    <3> QED BY <2>1, <3>5 DEF CleanInv
  <2> QED BY <2>2, <2>3
<1>13. budget'.saves = budget.saves
  BY <1>2 DEF LoadPrevious, Spend, Types
<1>14. CASE ~up /\ Return("ok")
  <2>1. phase' = "idle" /\ todo' = <<>> /\ next' = next
    BY <1>2, <1>14, ReturnOk
  <2> QED BY <1>2, <1>9, <1>12, <1>13, <2>1, QuietForgets
<1>15. ASSUME NEW n \in Nat, n # 0, Unwritten(n) PROVE v # n
  <2>1. disk[File("state", "primary")] # n /\ disk[File("state", "backup")] # n
    BY <1>4, <1>15, FileNames DEF Unwritten, Absent, Copies
  <2> QED BY <1>5, <1>15, <2>1 DEF Load
<1>16. CASE /\ up /\ previous' = old /\ saving' = TRUE
            /\ Enter("prepare", Prepare(old, next))
            /\ UNCHANGED <<up, next, outcome, refresh, doubt>>
  <2>1. /\ phase' = "prepare" /\ todo' = Prepare(Both(v), next)
        /\ previous' = Both(v) /\ saving' = TRUE /\ up' = up /\ next' = next
    BY <1>5, <1>16 DEF Enter
  <2>2. \A i \in 1 .. Len(todo') :
           \/ todo'[i] = Write(Marker, "RollBack") /\ i = Len(todo')
           \/ \E d \in Documents :
                todo'[i] = Write(File(d, "previous"), previous'[d])
           \/ \E d \in Documents : todo'[i] = Write(File(d, "next"), next')
    BY <1>2, <1>4, <2>1, PrepareBegins
  <2>3. \A d \in Documents : previous'[d] = v
    BY <2>1 DEF Both
  <2>4. \A i \in 1 .. Len(todo') :
          todo'[i].file = Marker \/ todo'[i].version \in {v, next}
    BY <2>1, <2>2, <2>3, WriteParts
  <2>5. FreshInv'
    <3> SUFFICES ASSUME NEW n \in Nat, n > budget.saves
                 PROVE  n # next /\ Away(n)'
      BY <1>13, <2>1 DEF FreshInv
    <3>1. n # next /\ Unwritten(n)
      BY DEF ForgetInv, FreshInv, Away
    <3>2. n # 0
      BY <1>2 DEF Types
    <3>3. NoneLeft(n)'
      BY <1>15, <2>4, <3>1, <3>2 DEF NoneLeft, Marker
    <3> QED BY <1>9, <3>1, <3>3 DEF Away
  <2>6. OlderInv'
    <3>1. next # 0 /\ Unwritten(next)
      BY <1>1, <1>16 DEF ForgetInv, EarlyInv, Away
    <3>2. v # next
      BY <1>2, <1>15, <3>1
    <3> QED BY <2>1, <2>3, <3>2 DEF OlderInv
  <2>7. EarlyInv'
    BY <2>1 DEF EarlyInv
  <2> QED BY <1>12, <2>1, <2>5, <2>6, <2>7
          DEF ForgetInv, RecoveryInv, RefreshedInv
<1> QED BY <1>14, <1>16 DEF LoadPrevious, old

(* A write that succeeds.                                                  *)
LEMMA PutLands ==
  ASSUME Types, Put, First.file = Marker => First.version \in Markers,
         NEW f \in Names, NEW v, Lands(f, v)
  PROVE  Lands(f, v)'
<1>1. \A g \in Names : /\ disk'[g] = IF g = First.file THEN First.version ELSE disk[g]
                       /\ synced'[g] = disk'[g]
  BY PutDoes, WrittenFiles
<1>2. /\ 1 \in 1 .. Len(todo) /\ Len(todo) \in Nat /\ Len(todo') = Len(todo) - 1
      /\ \A i \in 1 .. Len(todo') : i + 1 \in 1 .. Len(todo) /\ todo'[i] = todo[i + 1]
  BY PutDoes
<1>3. ASSUME NEW k \in Nat, OnlyWith(f, v, k + 1) PROVE OnlyWith(f, v, k)'
  <2> SUFFICES ASSUME NEW i \in 1 .. Len(todo'), i > k, todo'[i].file = f
               PROVE  todo'[i].version = v
    BY DEF OnlyWith
  <2>1. i + 1 \in 1 .. Len(todo) /\ i + 1 > k + 1 /\ todo[i + 1].file = f
    BY <1>2
  <2>2. todo[i + 1].version = v
    BY <1>3, <2>1 DEF OnlyWith
  <2> QED BY <1>2, <2>2
<1>4. ASSUME OnlyWith(f, v, 0) PROVE OnlyWith(f, v, 0)'
  <2>1. OnlyWith(f, v, 0 + 1)
    BY <1>4 DEF OnlyWith
  <2> QED BY <1>3, <2>1
<1>5. CASE Settled(f, v) /\ OnlyWith(f, v, 0)
  <2>1. First.file = f => First.version = v
    BY <1>2, <1>5 DEF OnlyWith, First
  <2>2. Settled(f, v)'
    BY <1>1, <1>5, <2>1 DEF Settled
  <2> QED BY <1>4, <1>5, <2>2 DEF Lands
<1>6. CASE \E i \in 1 .. Len(todo) : todo[i] = Write(f, v) /\ OnlyWith(f, v, i)
  <2>1. PICK i \in 1 .. Len(todo) : todo[i] = Write(f, v) /\ OnlyWith(f, v, i)
    BY <1>6
  <2>2. CASE i = 1
    <3>1. First.file = f /\ First.version = v
      BY <2>1, <2>2, WriteParts DEF First
    <3>2. Settled(f, v)'
      BY <1>1, <3>1 DEF Settled
    <3>3. OnlyWith(f, v, 0 + 1)
      BY <2>1, <2>2
    <3>4. OnlyWith(f, v, 0)'
      BY <1>3, <3>3
    <3> QED BY <3>2, <3>4 DEF Lands
  <2>3. CASE i # 1
    <3>1. PICK j \in 1 .. Len(todo') : j + 1 = i /\ j \in Nat
      <4>1. /\ i - 1 \in 1 .. Len(todo') /\ i - 1 + 1 = i /\ i - 1 \in Nat
        BY <1>2, <2>3
      <4> QED BY <4>1
    <3>2. todo'[j] = Write(f, v)
      BY <1>2, <2>1, <3>1
    <3>3. OnlyWith(f, v, j)'
      BY <1>3, <2>1, <3>1
    <3> QED BY <3>2, <3>3 DEF Lands, Write
  <2> QED BY <2>2, <2>3
<1> QED BY <1>5, <1>6 DEF Lands

LEMMA PutAway ==
  ASSUME Types, Put, First.file = Marker => First.version \in Markers,
         NEW n, Away(n)
  PROVE  Away(n)'
<1>1. \A g \in Names : /\ disk'[g] = IF g = First.file THEN First.version ELSE disk[g]
                       /\ synced'[g] = disk'[g]
  BY PutDoes, WrittenFiles
<1>2. /\ 1 \in 1 .. Len(todo)
      /\ \A i \in 1 .. Len(todo') :
           \E j \in 1 .. Len(todo) : todo'[i] = todo[j]
  BY PutRest
<1>3. First.file # Marker => First.version # n
  BY <1>2 DEF Away, NoneLeft, First
<1>4. \A f \in Files : f \in Names /\ f # Marker
  BY DEF Names, Files, Marker, Documents
<1>5. \A f \in Files : disk'[f] # n /\ synced'[f] # n
  <2> SUFFICES ASSUME NEW f \in Files PROVE disk'[f] # n /\ synced'[f] # n
    OBVIOUS
  <2>1. disk[f] # n
    BY DEF Away, Unwritten, Absent
  <2> QED BY <1>1, <1>3, <1>4, <2>1
<1>6. Unwritten(n)'
  BY <1>5 DEF Unwritten, Absent, Files
<1>7. \A i \in 1 .. Len(todo') : todo'[i].file # Marker => todo'[i].version # n
  BY <1>2 DEF Away, NoneLeft
<1>8. NoneLeft(n)'
  BY <1>7 DEF NoneLeft, Marker
<1> QED BY <1>6, <1>8 DEF Away

LEMMA AwayNext ==
  ASSUME next' = next, Away(next), \A n : Away(n) => Away(n)'
  PROVE  Away(next)'
<1>1. \A n : n = next /\ Away(n)' => Away(next)'
  BY DEF Away, Unwritten, NoneLeft, Absent
<1> QED BY <1>1

(* What every write keeps.                                                 *)
LEMMA PutForgetsMost ==
  ASSUME Types, ForgetInv, Put, First.file = Marker => First.version \in Markers
  PROVE  FreshInv' /\ EarlyInv' /\ OlderInv'
<1>1. UNCHANGED <<up, phase, save, doubt, budget>>
  BY PutDoes
<1>2. /\ up' = up /\ phase' = phase /\ next' = next /\ saving' = saving
      /\ previous' = previous /\ budget' = budget
  BY <1>1 DEF save
<1>3. \A n : Away(n) => Away(n)'
  BY PutAway
<1>4. FreshInv'
  BY <1>2, <1>3 DEF ForgetInv, FreshInv
<1>5. EarlyInv'
  BY <1>2, <1>3, AwayNext DEF ForgetInv, EarlyInv
<1> QED BY <1>2, <1>4, <1>5 DEF ForgetInv, OlderInv

LEMMA PutForgets ==
  ASSUME IInv, IInv', ForgetInv, Put
  PROVE  ForgetInv'
<1>1. Types /\ Types' /\ next \in Nat /\ next \in Versions
  BY NextVersion DEF IInv
<1>2. UNCHANGED <<up, phase, save, doubt, budget>>
  BY <1>1, PutDoes
<1>3. /\ up' = up /\ phase' = phase /\ next' = next /\ saving' = saving
      /\ previous' = previous /\ doubt' = doubt
  BY <1>2 DEF save
<1>4. /\ First.file \in Names /\ 1 \in 1 .. Len(todo)
      /\ disk' = [disk EXCEPT ![First.file] = First.version] /\ synced' = disk'
  BY <1>1, PutDoes, PutRest DEF Wrote
<1>5. /\ Marker \in Names
      /\ \A d \in Documents, c \in Copies : File(d, c) \in Names /\ File(d, c) # Marker
      /\ \A d, e \in Documents, c, k \in Copies :
           File(d, c) = File(e, k) => d = e /\ c = k
  BY FileNames
<1>6. First.file = Marker => First.version \in Markers
  BY <1>1, <1>4, <1>5 DEF Types
<1>7. FreshInv' /\ EarlyInv' /\ OlderInv'
  BY <1>1, <1>6, PutForgetsMost
<1>8. \A m : Possible(m)' <=> disk'[Marker] = m
  BY <1>4 DEF Possible
<1>9. \A g \in Names : /\ disk'[g] = IF g = First.file THEN First.version ELSE disk[g]
                       /\ synced'[g] = disk'[g]
  BY <1>1, <1>4 DEF Types
<1>10. Kept("next", next)' => CommitInv'
  BY DEF CommitInv
<1>11. CASE phase = "prepare"
  <2>1. PrepareInv /\ disk[Marker] = None
    BY <1>4, <1>11 DEF IInv, PhaseInv, PrepareInv, Put
  <2>2. \/ First = Write(Marker, "RollBack")
        \/ \E d \in Documents : First = Write(File(d, "previous"), previous[d])
        \/ \E d \in Documents : First = Write(File(d, "next"), next)
    BY <1>4, <2>1 DEF PrepareInv, First
  <2>3. \/ First.file = Marker /\ First.version = "RollBack"
        \/ \E d \in Documents, c \in {"previous", "next"} : First.file = File(d, c)
    BY <2>2, WriteParts
  <2>4. \A d \in Documents : First.file # Primary(d) /\ First.file # Backup(d)
    BY <1>5, <2>3 DEF Primary, Backup, Copies
  <2>5. disk'[Marker] \in {None, "RollBack"}
    BY <1>5, <1>9, <2>1, <2>3 DEF Copies
  <2>6. CommitInv'
    BY <1>8, <2>5, Distinct DEF CommitInv
  <2>7. DocumentsStay
    BY <1>5, <1>9, <2>4 DEF DocumentsStay, Primary, Backup, Copies
  <2>8. \A n \in Nat : Clean(n) => Clean(n)'
    <3>1. \A d \in Documents : Kin(Backup(d))
      BY <2>7 DEF DocumentsStay, Kin
    <3> QED BY <3>1, KinStays
  <2>9. CleanInv'
    <3>1. Possible(None)
      BY <2>1 DEF Possible
    <3> QED BY <1>1, <1>3, <2>7, <2>8, <3>1, HoldsStays, CleanStays DEF ForgetInv
  <2> QED BY <1>3, <1>7, <1>11, <2>6, <2>9 DEF ForgetInv, RecoveryInv, RefreshedInv
<1>12. CASE phase = "apply"
  <2>1. Settled(Marker, "RollBack")'
    BY <1>3, <1>12 DEF IInv, PhaseInv
  <2>2. disk'[Marker] = "RollBack"
    BY <2>1 DEF Settled
  <2> QED BY <1>3, <1>7, <1>8, <1>12, <2>2, Distinct
          DEF ForgetInv, RecoveryInv, RefreshedInv, CleanInv, CommitInv
<1>13. CASE phase = "mark"
  <2>1. MarkedBoth' /\ Kept("next", next)'
    BY <1>3, <1>13 DEF IInv, PhaseInv, MarkInv, Staged
  <2>2. CleanInv' /\ CommitInv'
    BY <1>3, <1>8, <1>10, <1>13, <2>1 DEF MarkedBoth, CleanInv
  <2> QED BY <1>3, <1>7, <1>13, <2>2 DEF ForgetInv, RecoveryInv, RefreshedInv
<1>14. CASE phase = "restore"
  <2>1. MarkedBoth' /\ Kept("next", next)'
    BY <1>3, <1>14 DEF IInv, PhaseInv, RestoreInv, Staged
  <2>2. CleanInv' /\ CommitInv'
    BY <1>3, <1>8, <1>10, <1>14, <2>1 DEF MarkedBoth, CleanInv
  <2> QED BY <1>3, <1>7, <1>14, <2>2 DEF ForgetInv, RecoveryInv, RefreshedInv
<1>15. CASE phase = "repair"
  <2>1. MarkedBoth' /\ Kept("next", next)'
    BY <1>3, <1>15 DEF IInv, PhaseInv, RepairInv, Staged
  <2>2. CleanInv' /\ CommitInv'
    BY <1>3, <1>8, <1>10, <1>15, <2>1 DEF MarkedBoth, CleanInv
  <2>3. RefreshedInv'
    <3> SUFFICES ASSUME NEW d \in Documents PROVE Lands(Backup(d), previous[d])'
      BY DEF RefreshedInv
    <3>1. PICK f, w : f \in Names /\ f = Backup(d) /\ w = previous[d]
      BY <1>5 DEF Backup, Copies
    <3>2. Lands(f, w)
      BY <1>15, <3>1 DEF ForgetInv, RefreshedInv
    <3>3. Lands(f, w)'
      BY <1>1, <1>6, <3>1, <3>2, PutLands
    <3>4. f = Backup(d)' /\ w = previous'[d]
      BY <1>3, <3>1 DEF Backup, File
    <3> QED BY <3>3, <3>4
  <2> QED BY <1>3, <1>7, <1>15, <2>2, <2>3 DEF ForgetInv, RecoveryInv
<1>16. CASE phase = "refresh"
  <2>1. Settled(Marker, None)' /\ Kept("primary", next)'
    BY <1>3, <1>16 DEF IInv, PhaseInv
  <2>2. Holds(next)'
    <3>1. \A w \in Versions : Types' /\ Kept("primary", w)' => Holds(w)'
      BY Distinct DEF Kept, Settled, Holds, Primary, File
    <3>2. \A w : w = next' /\ Kept("primary", next)' => Kept("primary", w)'
      BY DEF Kept, Settled
    <3>3. \A w : w = next' /\ Holds(w)' => Holds(next)'
      BY DEF Holds
    <3> QED BY <1>1, <1>3, <2>1, <3>1, <3>2, <3>3
  <2>3. CleanInv' /\ CommitInv'
    BY <1>8, <2>1, <2>2, Distinct DEF CleanInv, CommitInv, Settled
  <2> QED BY <1>3, <1>7, <1>16, <2>3 DEF ForgetInv, RecoveryInv, RefreshedInv
<1>17. CASE phase = "recover"
  <2>1. RecoverInv /\ disk[Marker] # None
    BY <1>17 DEF IInv, PhaseInv, RecoverInv
  <2>2. OffStages
    <3>1. PICK w \in doubt : Rewriting(w)
      BY <2>1 DEF RecoverInv
    <3>2. w \in Versions
      BY <1>1 DEF Types
    <3> QED BY <1>1, <3>1, <3>2, RewritePut
  <2>3. /\ disk'[Marker] = disk[Marker]
        /\ \A c \in {"previous", "next"} : \A w : Kept(c, w) => Kept(c, w)'
    BY <1>1, <2>2, StagesStay
  <2>4. \A n : Away(n) => Away(n)'
    BY <1>1, <1>6, PutAway
  <2>5. CleanInv'
    BY <1>3, <1>8, <1>17, <2>1, <2>3 DEF CleanInv
  <2>6. disk[Marker] = "CommitNext" => Kept("next", next)' \/ Away(next)'
    <3>1. \A w : w = next /\ Kept("next", w)' => Kept("next", next)'
      BY <1>3 DEF Kept, Settled
    <3> QED BY <1>3, <1>17, <2>3, <2>4, <3>1, AwayNext DEF ForgetInv, RecoveryInv
  <2>7. CommitInv'
    BY <1>8, <2>3, <2>6 DEF CommitInv, Away
  <2>8. ASSUME disk[Marker] = "RollBack"
        PROVE  \E v \in doubt : /\ Kept("previous", v)'
                                /\ \A d \in Documents : Lands(Backup(d), v)'
    <3>1. PICK v \in doubt : /\ Kept("previous", v)
                             /\ \A d \in Documents : Lands(Backup(d), v)
      BY <1>17, <2>8 DEF ForgetInv, RecoveryInv
    <3>2. \A d \in Documents : \A f \in Names : f = Backup(d) => Lands(f, v)'
      BY <1>1, <1>6, <3>1, PutLands
    <3>3. \A d \in Documents : Backup(d) \in Names
      BY <1>5 DEF Backup, Copies
    <3>4. \A d \in Documents : Lands(Backup(d), v)'
      BY <3>2, <3>3 DEF Backup, File
    <3> QED BY <2>3, <3>1, <3>4
  <2>9. RecoveryInv'
    BY <1>3, <2>3, <2>6, <2>8 DEF RecoveryInv
  <2> QED BY <1>3, <1>7, <1>17, <2>5, <2>7, <2>9 DEF ForgetInv, RefreshedInv
<1>18. phase \in {"prepare", "apply", "mark", "recover", "restore", "repair", "refresh"}
  BY DEF IInv, Types, PhaseInv, Phases, Put
<1> QED BY <1>11, <1>12, <1>13, <1>14, <1>15, <1>16, <1>17, <1>18

(* A write that fails.                                                     *)
LEMMA PutFailsForgets ==
  ASSUME MaxFaults <= 1, IInv, IInv', ForgetInv, PutFails
  PROVE  ForgetInv'
<1>1. Types /\ Types' /\ next \in Nat /\ next \in Versions
  BY NextVersion DEF IInv
<1>2. /\ First.file \in Names /\ 1 \in 1 .. Len(todo) /\ synced' = synced
      /\ \A g \in Names : g # First.file => disk'[g] = disk[g]
      /\ disk'[First.file] \in {disk[First.file], First.version}
      /\ Spend("faults", MaxFaults) /\ Failed
  BY <1>1, PutFailsDoes
<1>3. /\ budget.faults = 0 /\ ~(budget.faults > 0)
      /\ budget'.saves = budget.saves
  <2>1. budget.faults = 0
    BY <1>1, <1>2, FaultFacts
  <2>2. budget'.saves = budget.saves
    BY <1>1, <1>2 DEF Types, Spend
  <2> QED BY <2>1, <2>2
<1>4. disk[Marker] = synced[Marker]
  BY <1>3 DEF IInv, FaultSeen
<1>5. /\ Marker \in Names /\ Files \subseteq Names
      /\ \A d \in Documents, c \in Copies : File(d, c) \in Names /\ File(d, c) # Marker
      /\ \A d, e \in Documents, c, k \in Copies :
           File(d, c) = File(e, k) => d = e /\ c = k
      /\ \A d \in Documents : Backup(d) \in Files
  BY FileNames DEF Names, Backup, Copies
<1>6. ASSUME NEW n, Unwritten(n),
             First.file # Marker => First.version # n
      PROVE  Unwritten(n)'
  <2>1. \A f \in Files : f # Marker
    BY DEF Files, Marker, Documents
  <2>2. ASSUME NEW f \in Files PROVE disk'[f] # n /\ synced'[f] # n
    <3>1. disk[f] # n /\ synced[f] # n /\ f \in Names
      BY <1>5, <1>6 DEF Unwritten, Absent
    <3>2. CASE f = First.file
      BY <1>2, <1>6, <2>1, <3>1, <3>2
    <3>3. CASE f # First.file
      BY <1>2, <3>1, <3>3
    <3> QED BY <3>2, <3>3
  <2> QED BY <2>2 DEF Unwritten, Absent, Files
<1>7. \A n : Away(n) => Unwritten(n)'
  BY <1>2, <1>6 DEF Away, NoneLeft, First
<1>8. ASSUME todo' = <<>>, next' = next PROVE FreshInv'
  <2>1. \A n : NoneLeft(n)'
    BY <1>8 DEF NoneLeft
  <2>2. \A n : Away(n) => Away(n)'
    BY <1>7, <2>1 DEF Away
  <2> QED BY <1>3, <1>8, <2>2 DEF ForgetInv, FreshInv
<1>9. ASSUME phase' = "idle" \/ saving' PROVE EarlyInv'
  BY <1>9 DEF EarlyInv
<1>10. CASE phase = "prepare"
  <2>1. PrepareInv
    BY <1>10 DEF IInv, PhaseInv
  <2>2. /\ phase' = "cleanup" /\ todo' = <<>> /\ next' = next
        /\ saving' = saving /\ saving /\ disk[Marker] = None
    BY <1>2, <1>10, <2>1 DEF Failed, Enter, PrepareInv, PutFails
  <2>3. \/ First = Write(Marker, "RollBack")
        \/ \E d \in Documents : First = Write(File(d, "previous"), previous[d])
        \/ \E d \in Documents : First = Write(File(d, "next"), next)
    BY <1>2, <2>1 DEF PrepareInv, First
  <2>4. \/ First.file = Marker /\ First.version = "RollBack"
        \/ \E d \in Documents, c \in {"previous", "next"} : First.file = File(d, c)
    BY <2>3, WriteParts
  <2>5. \A d \in Documents : First.file # Primary(d) /\ First.file # Backup(d)
    BY <1>5, <2>4 DEF Primary, Backup, Copies
  <2>6. disk'[Marker] \in {None, "RollBack"} /\ synced'[Marker] = None
    BY <1>2, <1>4, <1>5, <2>2, <2>4 DEF Copies
  <2>7. CommitInv'
    BY <2>6, Distinct DEF CommitInv, Possible
  <2>8. DocumentsStay
    BY <1>2, <1>5, <2>5 DEF DocumentsStay, Primary, Backup, Copies
  <2>9. \A n \in Nat : Clean(n) => Clean(n)'
    <3>1. \A d \in Documents : Kin(Backup(d))
      BY <2>8 DEF DocumentsStay, Kin
    <3> QED BY <3>1, KinStays
  <2>10. CleanInv'
    <3>1. Possible(None)
      BY <2>2 DEF Possible
    <3> QED BY <1>1, <2>2, <2>8, <2>9, <3>1, HoldsStays, CleanStays DEF ForgetInv
  <2> QED BY <1>8, <1>9, <2>2, <2>7, <2>10
          DEF ForgetInv, OlderInv, RecoveryInv, RefreshedInv
<1>11. CASE phase \in {"apply", "mark"}
  <2>1. saving
    BY <1>11 DEF IInv, PhaseInv, MarkInv
  <2>2. /\ phase' = "rollback" /\ todo' = <<>> /\ next' = next
        /\ previous' = previous /\ saving' = saving
    BY <1>2, <1>11 DEF Failed
  <2>3. MarkedBoth' /\ Kept("next", next)'
    BY <2>2 DEF IInv, PhaseInv, Staged
  <2>4. CleanInv' /\ CommitInv'
    BY <2>2, <2>3 DEF CleanInv, CommitInv, Possible, MarkedBoth
  <2>5. OlderInv'
    BY <1>11, <2>2 DEF ForgetInv, OlderInv
  <2> QED BY <1>8, <1>9, <2>1, <2>2, <2>4, <2>5
          DEF ForgetInv, RecoveryInv, RefreshedInv
<1>12. CASE phase = "recover"
  <2>1. RecoverInv /\ disk[Marker] # None
    BY <1>12 DEF IInv, PhaseInv, RecoverInv
  <2>2. Return("err")
    BY <1>2, <1>12 DEF Failed
  <2>3. phase' = "idle" /\ todo' = <<>> /\ next' = next
    BY <1>1, <2>2, ReturnErr
  <2>4. OffStages
    <3>1. PICK w \in doubt : Rewriting(w)
      BY <2>1 DEF RecoverInv
    <3>2. w \in Versions
      BY <1>1 DEF Types
    <3> QED BY <1>1, <3>1, <3>2, RewriteOffStages
  <2>5. /\ disk'[Marker] = disk[Marker]
        /\ \A c \in {"previous", "next"} : \A v : Kept(c, v) => Kept(c, v)'
    BY <1>1, <2>4, FailedOffStages
  <2>6. CleanInv'
    BY <1>2, <1>4, <2>1, <2>3, <2>5 DEF CleanInv, Possible
  <2>7. CommitInv'
    <3>1. \A w : w = next' /\ (Kept("next", w)' \/ Unwritten(w)')
                   => (Kept("next", next) \/ Unwritten(next))'
      BY DEF Kept, Settled, Unwritten, Absent
    <3>2. disk[Marker] = "CommitNext" => Kept("next", next) \/ Away(next)
      BY <1>12 DEF ForgetInv, RecoveryInv
    <3>3. disk[Marker] = "CommitNext" => (Kept("next", next) \/ Unwritten(next))'
      BY <1>7, <2>3, <2>5, <3>1, <3>2
    <3>4. Possible("CommitNext")' => disk[Marker] = "CommitNext"
      BY <1>2, <1>4, <2>5 DEF Possible
    <3> QED BY <3>3, <3>4 DEF CommitInv
  <2> QED BY <1>8, <1>9, <2>3, <2>6, <2>7
          DEF ForgetInv, OlderInv, RecoveryInv, RefreshedInv
<1>13. CASE phase = "refresh"
  <2>1. Settled(Marker, None) /\ Kept("primary", next) /\ OnlyBackups
    BY <1>13 DEF IInv, PhaseInv
  <2>2. PICK e \in Documents : First.file = Backup(e)
    BY <1>2, <2>1 DEF OnlyBackups, First
  <2>3. Return("err")
    BY <1>2, <1>13 DEF Failed
  <2>4. phase' = "idle" /\ todo' = <<>> /\ next' = next
    BY <1>1, <2>3, ReturnErr
  <2>5. disk'[Marker] = None /\ synced'[Marker] = None
    BY <1>2, <1>5, <2>1, <2>2 DEF Settled, Backup, Copies
  <2>6. \A w : w = next => Kept("primary", w)'
    BY <1>2, <1>5, <2>1, <2>2 DEF Kept, Settled, Backup, Copies
  <2>7. Holds(next)'
    <3>1. \A w \in Versions : Types' /\ Kept("primary", w)' => Holds(w)'
      BY Distinct DEF Kept, Settled, Holds, Primary, File
    <3>2. \A w : w = next' /\ Holds(w)' => Holds(next)'
      BY DEF Holds
    <3> QED BY <1>1, <2>4, <2>6, <3>1, <3>2
  <2>8. CleanInv' /\ CommitInv'
    BY <2>5, <2>7, Distinct DEF CleanInv, CommitInv, Possible
  <2> QED BY <1>8, <1>9, <2>4, <2>8
          DEF ForgetInv, OlderInv, RecoveryInv, RefreshedInv
<1>14. phase # "restore" /\ phase # "repair"
  BY <1>3 DEF IInv, PhaseInv, RestoreInv, RepairInv, UndoneInv
<1>15. phase \in {"prepare", "apply", "mark", "recover", "restore", "repair", "refresh"}
  BY DEF IInv, Types, PhaseInv, Phases, PutFails
<1> QED BY <1>10, <1>11, <1>12, <1>13, <1>14, <1>15

LEMMA InitForgets ==
  ASSUME Init
  PROVE  ForgetInv
<1>1. /\ disk \in [Files \cup {Marker} -> {None, 0}] /\ disk[Marker] = None
      /\ synced = disk /\ up = FALSE /\ phase = "idle" /\ todo = <<>>
      /\ next = 0 /\ budget.saves = 0
      /\ \A f \in Stages : disk[f] = None
  BY DEF Init
<1>2. \A n \in Nat : n > 0 => n # 0 /\ n # None
  BY NoneAssumption
<1>3. \A n : NoneLeft(n)
  BY <1>1 DEF NoneLeft
<1>4. \A n \in Nat : n > 0 => Unwritten(n)
  BY <1>1, <1>2 DEF Unwritten, Absent
<1>5. FreshInv
  BY <1>1, <1>2, <1>3, <1>4 DEF FreshInv, Away
<1>6. Holds(0)
  <2>1. \A d \in Documents : Primary(d) \in Names /\ Backup(d) \in Names
    BY FileNames DEF Primary, Backup, Copies
  <2> QED BY <1>1, <2>1 DEF Holds, Names
<1>7. CleanInv
  BY <1>1, <1>6 DEF CleanInv
<1>8. CommitInv
  BY <1>1, Distinct DEF CommitInv, Possible
<1> QED BY <1>1, <1>5, <1>7, <1>8
        DEF ForgetInv, EarlyInv, OlderInv, RecoveryInv, RefreshedInv

LEMMA StutterForgets ==
  ASSUME ForgetInv, UNCHANGED vars
  PROVE  ForgetInv'
<1>1. UNCHANGED <<files, up, phase, todo, save, doubt, budget>>
  BY DEF vars, files, save
<1> QED BY <1>1 DEF ForgetInv, FreshInv, EarlyInv, OlderInv, CleanInv, CommitInv,
         RecoveryInv, RefreshedInv, Away, Unwritten, Absent, NoneLeft, Clean,
         Lands, OnlyWith, Possible, Holds, Kept, Settled, files, save

LEMMA NextForgets ==
  ASSUME MaxFaults <= 1, IInv, IInv', ForgetInv, [Next]_vars
  PROVE  ForgetInv'
<1>1. Types
  BY DEF IInv
<1>2. CASE MoveMarker
  <2>1. disk[Marker] = None => synced[Marker] = None
    BY <1>2 DEF MoveMarker, IInv, PhaseInv, CleanupInv
  <2> QED BY <1>1, <1>2, <2>1, MoveMarkerForgets
<1> QED BY <1>1, <1>2, StartupForgets, SaveForgets, RecoverForgets,
           RecoverImpossibleForgets, LoadPreviousForgets, PutForgets,
           PutFailsForgets, RollBackForgets, AdvanceForgets,
           MoveMarkerFailsForgets, DeleteStagesForgets, RefreshedForgets,
           CrashForgets, StutterForgets
    DEF Next

(* The recovery copies forget a failed save: once no transaction is        *)
(* pending and the save's version is not what a load finds, no backup      *)
(* holds it, so losing a primary later does not bring the version back.    *)
THEOREM BackupsHoldNoFailure ==
  ASSUME MaxFaults <= 1
  PROVE  Spec => []BackupsForgetFailures
<1>1. Init => ForgetInv
  BY InitForgets
<1>2. IInv /\ IInv' /\ ForgetInv /\ [Next]_vars => ForgetInv'
  BY NextForgets
<1>3. IInv /\ ForgetInv => BackupsForgetFailures
  <2> SUFFICES ASSUME IInv, ForgetInv, disk[Marker] = None, Found("state") # next,
                      NEW d \in Documents
               PROVE  disk[File(d, "backup")] # next
    BY DEF BackupsForgetFailures
  <2>1. ~Holds(next)
    BY Found1, NextVersion DEF IInv, Found, Documents
  <2>2. Clean(next)
    BY <2>1 DEF ForgetInv, CleanInv, Possible
  <2> QED BY <2>2 DEF Clean, Absent, Backup
<1>4. Spec => []IInv
  BY TransactionInvariantHolds
<1> QED BY <1>1, <1>2, <1>3, <1>4, PTL DEF Spec
=============================================================================
