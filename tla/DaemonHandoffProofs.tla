-------------------------- MODULE DaemonHandoffProofs --------------------------
(***************************************************************************)
(* Proofs about DaemonHandoff, for any number of daemon processes, restart *)
(* requests, shutdowns and mishaps.                                        *)
(*                                                                         *)
(* IInv says where the PID file of a process that works on the state can   *)
(* be, and whom a daemon still answers for: a replacement that lives is    *)
(* being prepared, armed or tried by the daemon that spawned it, or that   *)
(* daemon committed the handoff and no shutdown had been asked of it.      *)
(* SoloInv follows one restart with nobody else around, for ServiceReturns.*)
(***************************************************************************)
EXTENDS DaemonHandoff, TLAPS

Places == {"none", "dead", "claim", "rename", "verify", "prepare", "waitPort",
           "waitPid", "restore", "bind", "serve", "save", "release", "await",
           "commit", "cancel", "resume", "exit"}

(* The conjuncts of TypeOK.                                                *)
PcType == pc \in [Procs -> Places]
AfterType == after \in [Procs -> {"restore", "resume", "exit"}]
FileTypes == pidFile \in MaybeProc /\ port \in MaybeProc
ClaimTypes == seen \in [Procs -> MaybeProc] /\ moved \in [Procs -> MaybeProc]
KinTypes == /\ parent \in [Procs -> MaybeProc] /\ child \in [Procs -> MaybeProc]
            /\ slot \in [Procs -> MaybeProc] /\ attempt \in [Procs -> MaybeProc]
HandoffType == handoff \in [Procs -> {"none", "prepared", "ready"}]
FlagType == flags \in [Procs -> [ext : BOOLEAN, rst : BOOLEAN, done : BOOLEAN]]
CountTypes == /\ started \in Procs
              /\ budget \in [restarts : Nat, signals : Nat, faults : Nat, crashes : Nat]

(* A process exists from its start on, and a replacement is younger than   *)
(* the daemon that spawned it.                                             *)
Starts ==
  /\ \A n \in Procs : pc[n] = "none" <=> n > started
  /\ \A n \in Procs : parent[n] # None => parent[n] < n /\ n <= started

Untouched(d) ==
  /\ child[d] = None /\ slot[d] = None /\ attempt[d] = None
  /\ seen[d] = None /\ moved[d] = None /\ ~flags[d].rst /\ after[d] = "restore"
Fresh == \A n \in Procs : pc[n] = "none" => Untouched(n) /\ handoff[n] = "none"

(* Whom a daemon waits for, has armed or tries is a replacement of its own.*)
Kin == \A d, n \in Procs : n \in {child[d], slot[d], attempt[d]} => parent[n] = d

(* A PID file, wherever it is, names a process that was started, and the   *)
(* one a claimer takes for stale is gone.                                  *)
FilesName ==
  /\ pidFile # None => pc[pidFile] # "none"
  /\ \A c \in Procs : moved[c] # None =>
       pc[moved[c]] # "none" /\ pc[c] \in {"verify", "exit", "dead"}
  /\ \A c \in Procs : seen[c] # None => pc[seen[c]] = "dead"

(* Who works on the state owns the PID file, or a claimer moved it away.   *)
Holders == Owning \cup {"resume"}
HoldsPid ==
  \A d \in Procs : pc[d] \in Holders => pidFile = d \/ \E c \in Procs : moved[c] = d

(* A replacement is ready before it serves.                                *)
Serving ==
  /\ \A d \in Procs : pc[d] = "serve" <=> port = d
  /\ \A n \in Procs : parent[n] # None /\ pc[n] = "serve" => handoff[n] = "ready"

Attempts ==
  \A d \in Procs : attempt[d] # None =>
    pc[d] \in {"release", "await", "commit", "cancel", "dead"}

(* A live replacement is known to its daemon, or has taken over for good:  *)
(* from a daemon no shutdown was asked of, nor will be.                    *)
Known ==
  \A d, n \in Procs : parent[n] = d /\ Alive(n) =>
    \/ n \in {child[d], slot[d], attempt[d]}
    \/ pc[d] \in {"exit", "dead"} /\ ~flags[d].ext

IInv == Starts /\ Fresh /\ Kin /\ FilesName /\ HoldsPid /\ Serving /\ Attempts /\ Known

(* How many replacements there are.                                        *)
Restarts ==
  /\ started = 1 => budget.restarts = 0
  /\ \A n \in Procs : parent[n] # None => budget.restarts >= 1
  /\ \A n, m \in Procs : parent[n] # None /\ parent[m] # None /\ n # m =>
       budget.restarts >= 2

Undisturbed == budget.crashes = 0 /\ \A d \in Procs : ~flags[d].ext

(* The first daemon, as long as nobody else was started.                   *)
FirstAlone ==
  Undisturbed /\ started = 1 =>
    /\ Untouched(1)
    /\ pc[1] \in {"claim", "restore", "bind", "serve", "exit", "dead"}
    /\ pc[1] = "claim" => pidFile = None

(* The first daemon and its replacement: what the replacement is doing,    *)
(* and whose the PID file is, at every step of the old daemon.             *)
Waiting == {"prepare", "waitPort", "waitPid", "exit", "dead"}
Pair ==
  (Undisturbed /\ started = 2 /\ parent[2] = 1) =>
    /\ Untouched(2)
    /\ pc[2] \in Waiting \cup {"claim", "restore", "bind", "serve"}
    /\ pc[2] = "claim" => pidFile = None
    /\ handoff[2] = "ready" => pc[2] \in {"serve", "dead"}
    /\ \/ /\ pc[1] = "serve" /\ pidFile = 1 /\ pc[2] \in Waiting \ {"waitPid"}
          /\ seen[1] = None /\ moved[1] = None /\ attempt[1] = None
          /\ \/ child[1] = 2 /\ slot[1] = None /\ ~flags[1].rst
             \/ child[1] = None /\ slot[1] = 2 /\ flags[1].rst
             \/ child[1] = None /\ slot[1] = None /\ ~flags[1].rst /\ pc[2] = "dead"
       \/ /\ pc[1] = "save" /\ pidFile = 1 /\ pc[2] \in Waiting
          /\ child[1] = None /\ slot[1] = 2 /\ attempt[1] = None
          /\ seen[1] = None /\ moved[1] = None
       \/ /\ pc[1] \in {"release", "await", "commit", "cancel"}
          /\ child[1] = None /\ slot[1] = None /\ attempt[1] = 2
          /\ seen[1] = None /\ moved[1] = None
          /\ pc[1] = "release" => pidFile = 1 /\ pc[2] \in Waiting
          /\ pc[1] = "cancel" => after[1] = "resume"
          /\ pc[1] \in {"await", "commit"} => pidFile # 1
          /\ pc[1] = "commit" => pc[2] = "serve"
       \/ /\ pc[1] \in {"claim", "rename", "verify", "resume", "bind"}
          /\ pc[2] = "dead" /\ child[1] = None /\ slot[1] = None /\ attempt[1] = None
          /\ after[1] = "resume"
          /\ pc[1] = "claim" => pidFile # 1 /\ moved[1] = None /\ seen[1] = None
          /\ pc[1] = "rename" => pidFile = 2 /\ seen[1] = 2 /\ moved[1] = None
          /\ pc[1] = "verify" => pidFile = None /\ seen[1] = 2 /\ moved[1] = 2
          /\ pc[1] \in {"resume", "bind"} => pidFile = 1 /\ moved[1] = None /\ seen[1] = None
          /\ pc[1] = "bind" => ~flags[1].rst
       \/ pc[1] \in {"exit", "dead"} /\ pc[2] = "serve" /\ child[1] = None

SoloInv == Restarts /\ FirstAlone /\ Pair

-----------------------------------------------------------------------------
(* Types and process numbers.                                              *)

LEMMA TypeSplit == TypeOK <=> /\ PcType /\ AfterType /\ FileTypes /\ ClaimTypes
                             /\ KinTypes /\ HandoffType /\ FlagType /\ CountTypes
  BY DEF TypeOK, PcType, AfterType, FileTypes, ClaimTypes, KinTypes, HandoffType, FlagType,
         CountTypes, Places

LEMMA ProcFacts ==
  /\ \A d \in Procs : d \in Nat \ {0} /\ d # None /\ d \in MaybeProc
  /\ None \in MaybeProc /\ \A x \in MaybeProc : x # None => x \in Procs
  BY HandoffAssumption DEF Procs, None, MaybeProc

LEMMA TwoProcs ==
  ASSUME TypeOK, started = 2 \/ started + 1 = 2
  PROVE  1 \in Procs /\ (started = 2 => 2 \in Procs)
  BY HandoffAssumption DEF TypeOK, Procs

-----------------------------------------------------------------------------
(* From a start to a listening server.                                     *)

LEMMA StartTypes ==
  ASSUME TypeOK, Start
  PROVE  TypeOK'
<1> USE TypeSplit
<1>1. PcType'
  BY DEF Start, Goto, PcType, Places, AfterType
<1>2. CountTypes'
  BY HandoffAssumption DEF Start, Goto, CountTypes, Procs
<1>3. /\ AfterType' /\ FileTypes' /\ ClaimTypes' /\ KinTypes' /\ HandoffType'
      /\ FlagType'
  BY DEF Start, claims, tries, AfterType, FileTypes, ClaimTypes, KinTypes,
     HandoffType, FlagType
<1> QED BY <1>1, <1>2, <1>3, PTL

LEMMA StartKeeps ==
  ASSUME TypeOK, IInv, SoloInv, Start
  PROVE  TypeOK' /\ IInv' /\ SoloInv'
<1> USE DEF IInv, SoloInv
<1>1. TypeOK'
  BY StartTypes
<1>2. Starts'
  BY <1>1, HandoffAssumption DEF TypeOK, Start, None, Goto, claims, tries, Starts,
     Procs, MaybeProc
<1>3. Fresh'
  BY <1>1, HandoffAssumption DEF TypeOK, Start, None, Goto, claims, tries, Fresh,
     Procs, Untouched, MaybeProc
<1>4. FilesName'
  BY <1>1, ProcFacts DEF TypeOK, Start, None, Goto, claims, tries, FilesName, Starts
<1>5. HoldsPid'
  BY <1>1, HandoffAssumption DEF TypeOK, Start, None, Goto, claims, tries, HoldsPid,
     Procs, Holders, Owning, MaybeProc
<1>6. Serving'
  BY <1>1, HandoffAssumption DEF TypeOK, Start, None, Goto, claims, tries, Serving,
     Procs, MaybeProc
<1>7. Attempts'
  BY <1>1, ProcFacts DEF TypeOK, Start, None, Goto, claims, tries, Attempts, Starts,
     FilesName
<1>8. Known'
  BY <1>1, ProcFacts DEF TypeOK, Start, None, Goto, claims, tries, Known, Alive,
     Starts, FilesName
<1>9. Restarts'
  BY <1>1, HandoffAssumption DEF TypeOK, Start, None, Goto, claims, tries, Restarts,
     Procs, MaybeProc
<1>10. FirstAlone'
  BY <1>1, HandoffAssumption DEF TypeOK, Start, None, Goto, claims, tries, FirstAlone,
     Undisturbed, Untouched, Procs, MaybeProc
<1>11. Pair'
  BY <1>1, ProcFacts DEF TypeOK, Start, None, Goto, claims, tries, Pair, Undisturbed,
     Untouched, Waiting, Starts, FilesName
<1>12. Kin'
  BY DEF Start, claims, tries, Kin
<1> QED BY <1>1, <1>2, <1>3, <1>4, <1>5, <1>6, <1>7, <1>8, <1>9, <1>10, <1>11, <1>12

-----------------------------------------------------------------------------
(* write_pid_file.                                                         *)

LEMMA ClaimCreateTypes ==
  ASSUME TypeOK, NEW d \in Procs, ClaimCreate(d)
  PROVE  TypeOK'
<1> USE TypeSplit
<1>1. PcType'
  BY DEF ClaimCreate, Goto, PcType, Places, AfterType
<1>2. FileTypes'
  BY HandoffAssumption, ProcFacts DEF ClaimCreate, Goto, FileTypes, KinTypes, PcType,
     CountTypes
<1>3. /\ AfterType' /\ ClaimTypes' /\ KinTypes' /\ HandoffType' /\ FlagType'
      /\ CountTypes'
  BY DEF ClaimCreate, claims, spawns, tries, AfterType, ClaimTypes, KinTypes,
     HandoffType, FlagType, CountTypes
<1> QED BY <1>1, <1>2, <1>3, PTL

LEMMA ClaimCreateStarts ==
  ASSUME TypeOK, TypeOK', Starts, NEW d \in Procs, ClaimCreate(d)
  PROVE  Starts'
  BY SMTT(60), HandoffAssumption DEF TypeOK, ClaimCreate, None, Goto, claims, spawns,
     tries, Starts, Procs, MaybeProc

LEMMA ClaimCreateKeeps ==
  ASSUME TypeOK, IInv, SoloInv, NEW d \in Procs, ClaimCreate(d)
  PROVE  TypeOK' /\ IInv' /\ SoloInv'
<1> USE DEF IInv, SoloInv
<1>1. TypeOK'
  BY ClaimCreateTypes
<1>2. Starts'
  BY <1>1, ClaimCreateStarts
<1>3. Fresh'
  BY <1>1, ProcFacts DEF TypeOK, ClaimCreate, None, Goto, claims, spawns, tries,
     Fresh, Untouched
<1>4. FilesName'
  BY <1>1, HandoffAssumption DEF TypeOK, ClaimCreate, None, Goto, claims, spawns,
     tries, FilesName, Procs, MaybeProc
<1>5. HoldsPid'
  BY <1>1, HandoffAssumption DEF TypeOK, ClaimCreate, None, Goto, claims, spawns,
     tries, HoldsPid, Procs, Holders, Owning, MaybeProc
<1>6. Serving'
  BY <1>1, HandoffAssumption DEF TypeOK, ClaimCreate, None, Goto, claims, spawns,
     tries, Serving, Procs, MaybeProc
<1>7. Attempts'
  BY <1>1, HandoffAssumption DEF TypeOK, ClaimCreate, None, Goto, claims, spawns,
     tries, Attempts, Procs, MaybeProc
<1>8. Known'
  BY <1>1, HandoffAssumption DEF TypeOK, ClaimCreate, None, Goto, claims, spawns,
     tries, Known, Procs, Alive, MaybeProc
<1>9. FirstAlone'
  BY <1>1, ProcFacts DEF TypeOK, ClaimCreate, None, Goto, claims, spawns, tries,
     FirstAlone, Undisturbed, Untouched, Starts, FilesName
<1>10. Pair'
  BY <1>1, ProcFacts DEF TypeOK, ClaimCreate, None, Goto, claims, spawns, tries, Pair,
     Undisturbed, Untouched, Waiting, Starts, FilesName
<1>11. Kin' /\ Restarts'
  BY DEF ClaimCreate, claims, spawns, tries, Kin, Restarts
<1> QED BY <1>1, <1>2, <1>3, <1>4, <1>5, <1>6, <1>7, <1>8, <1>9, <1>10, <1>11

LEMMA ClaimStaleTypes ==
  ASSUME TypeOK, NEW d \in Procs, ClaimStale(d)
  PROVE  TypeOK'
<1> USE TypeSplit
<1>1. PcType'
  BY DEF ClaimStale, Goto, PcType, Places, AfterType
<1>2. ClaimTypes'
  BY HandoffAssumption, ProcFacts DEF ClaimStale, Goto, ClaimTypes, KinTypes, PcType,
     FileTypes, CountTypes
<1>3. /\ AfterType' /\ FileTypes' /\ KinTypes' /\ HandoffType' /\ FlagType'
      /\ CountTypes'
  BY DEF ClaimStale, spawns, tries, AfterType, FileTypes, KinTypes, HandoffType,
     FlagType, CountTypes
<1> QED BY <1>1, <1>2, <1>3, PTL

LEMMA ClaimStaleFiles ==
  ASSUME TypeOK, Starts, FilesName, NEW d \in Procs, ClaimStale(d)
  PROVE  FilesName'
<1>1. pidFile # None /\ pidFile \in Procs /\ pc[d] = "claim" /\ d \in Procs
  BY ProcFacts DEF TypeOK, ClaimStale
<1>2. CASE Alive(pidFile)
  <2>1. pc' = [pc EXCEPT ![d] = "exit"] /\ UNCHANGED <<seen, pidFile, moved>>
    BY <1>2 DEF ClaimStale, Goto
  <2> QED BY <1>1, <2>1, ProcFacts DEF FilesName, TypeOK
<1>3. CASE ~Alive(pidFile)
  <2>1. pc[pidFile] = "dead"
    BY <1>1, <1>3 DEF Alive, FilesName
  <2>2. /\ pc' = [pc EXCEPT ![d] = "rename"] /\ seen' = [seen EXCEPT ![d] = pidFile]
        /\ UNCHANGED <<pidFile, moved>>
    BY <1>3 DEF ClaimStale, Goto
  <2> QED BY <1>1, <2>1, <2>2, ProcFacts DEF FilesName, TypeOK
<1> QED BY <1>2, <1>3

LEMMA ClaimStalePair ==
  ASSUME TypeOK, Starts, FilesName, Pair, NEW d \in Procs, ClaimStale(d)
  PROVE  Pair'
<1>1. SUFFICES ASSUME Undisturbed', started' = 2, parent'[2] = 1
               PROVE  Pair'
  BY DEF Pair
<1>2. /\ pc[d] = "claim" /\ pidFile # None
      /\ UNCHANGED <<after, pidFile, moved, port, parent, started, handoff, child, slot,
                     attempt, flags, budget>>
  BY DEF ClaimStale, spawns, tries
<1>3. Undisturbed /\ started = 2 /\ parent[2] = 1 /\ 1 \in Procs /\ 2 \in Procs
  BY <1>1, <1>2, TwoProcs DEF Undisturbed
<1>4. d = 1
  <2>1. pc[2] = "claim" => pidFile = None
    BY <1>3 DEF Pair
  <2>2. pc[d] # "none"
    BY <1>2
  <2>3. d \in {1, 2}
    BY <1>3, <2>2, ProcFacts DEF Starts, Procs
  <2> QED BY <1>2, <2>1, <2>3
<1>5. /\ pc[2] = "dead" /\ child[1] = None /\ slot[1] = None /\ attempt[1] = None
      /\ after[1] = "resume" /\ pidFile # 1 /\ moved[1] = None /\ Untouched(2)
  BY <1>2, <1>3, <1>4 DEF Pair
<1>6. pidFile = 2
  <2>1. pidFile \in Procs /\ pc[pidFile] # "none"
    BY <1>2, ProcFacts DEF FilesName, TypeOK
  <2> QED BY <1>3, <1>5, <2>1, ProcFacts DEF Starts, Procs
<1>7. pc' = [pc EXCEPT ![1] = "rename"] /\ seen' = [seen EXCEPT ![1] = 2]
  BY <1>4, <1>5, <1>6 DEF ClaimStale, Alive, Goto
<1>8. pc'[1] = "rename" /\ seen'[1] = 2 /\ pc'[2] = "dead" /\ seen'[2] = seen[2]
  BY <1>3, <1>5, <1>7 DEF TypeOK
<1>9. Untouched(2)'
  BY <1>2, <1>5, <1>8 DEF Untouched
<1> QED BY <1>2, <1>5, <1>6, <1>8, <1>9 DEF Pair, Waiting

LEMMA ClaimStaleAttempts ==
  ASSUME TypeOK, TypeOK', Attempts, NEW d \in Procs, ClaimStale(d)
  PROVE  Attempts'
  BY SMTT(60), HandoffAssumption DEF TypeOK, ClaimStale, None, Alive, Goto, spawns,
     tries, Attempts, Procs, MaybeProc

LEMMA ClaimStaleKeeps ==
  ASSUME TypeOK, IInv, SoloInv, NEW d \in Procs, ClaimStale(d)
  PROVE  TypeOK' /\ IInv' /\ SoloInv'
<1> USE DEF IInv, SoloInv
<1>1. TypeOK'
  BY ClaimStaleTypes
<1>2. Starts'
  BY <1>1, HandoffAssumption DEF TypeOK, ClaimStale, None, Alive, Goto, spawns, tries,
     Starts, Procs, MaybeProc
<1>3. Fresh'
  BY <1>1, ProcFacts DEF TypeOK, ClaimStale, None, Alive, Goto, spawns, tries, Fresh,
     Untouched
<1>4. FilesName'
  BY ClaimStaleFiles
<1>5. HoldsPid'
  BY <1>1, HandoffAssumption DEF TypeOK, ClaimStale, None, Alive, Goto, spawns, tries,
     HoldsPid, Procs, Holders, Owning, MaybeProc
<1>6. Serving'
  BY <1>1, HandoffAssumption DEF TypeOK, ClaimStale, None, Alive, Goto, spawns, tries,
     Serving, Procs, MaybeProc
<1>7. Attempts'
  BY <1>1, ClaimStaleAttempts
<1>8. Known'
  BY <1>1, HandoffAssumption DEF TypeOK, ClaimStale, None, Alive, Goto, spawns, tries,
     Known, Procs, MaybeProc
<1>9. FirstAlone'
  BY <1>1, ProcFacts DEF TypeOK, ClaimStale, None, Alive, Goto, spawns, tries,
     FirstAlone, Undisturbed, Untouched
<1>10. Pair'
  BY ClaimStalePair
<1>11. Kin' /\ Restarts'
  BY DEF ClaimStale, spawns, tries, Kin, Restarts
<1> QED BY <1>1, <1>2, <1>3, <1>4, <1>5, <1>6, <1>7, <1>8, <1>9, <1>10, <1>11

LEMMA ClaimRenameTypes ==
  ASSUME TypeOK, NEW d \in Procs, ClaimRename(d)
  PROVE  TypeOK'
<1> USE TypeSplit
<1>1. PcType'
  BY DEF ClaimRename, Goto, PcType, Places, AfterType
<1>2. FileTypes'
  BY HandoffAssumption, ProcFacts DEF ClaimRename, Goto, FileTypes, KinTypes, PcType,
     CountTypes
<1>3. ClaimTypes'
  BY HandoffAssumption, ProcFacts DEF ClaimRename, Goto, ClaimTypes, KinTypes, PcType,
     FileTypes, CountTypes
<1>4. AfterType' /\ KinTypes' /\ HandoffType' /\ FlagType' /\ CountTypes'
  BY DEF ClaimRename, spawns, tries, AfterType, KinTypes, HandoffType, FlagType,
     CountTypes
<1> QED BY <1>1, <1>2, <1>3, <1>4, PTL

LEMMA ClaimRenameKeeps ==
  ASSUME TypeOK, IInv, SoloInv, NEW d \in Procs, ClaimRename(d)
  PROVE  TypeOK' /\ IInv' /\ SoloInv'
<1> USE DEF IInv, SoloInv
<1>1. TypeOK'
  BY ClaimRenameTypes
<1>2. Starts'
  BY <1>1, HandoffAssumption DEF TypeOK, ClaimRename, None, Goto, spawns, tries,
     Starts, Procs, MaybeProc
<1>3. Fresh'
  BY <1>1, HandoffAssumption DEF TypeOK, ClaimRename, None, Goto, spawns, tries,
     Fresh, Procs, Untouched, MaybeProc
<1>4. FilesName'
  BY <1>1, HandoffAssumption DEF TypeOK, ClaimRename, None, Goto, spawns, tries,
     FilesName, Procs, MaybeProc
<1>5. HoldsPid'
  BY <1>1, ProcFacts DEF TypeOK, ClaimRename, None, Goto, spawns, tries, HoldsPid,
     Holders, Owning, Starts, FilesName
<1>6. Serving'
  BY <1>1, HandoffAssumption DEF TypeOK, ClaimRename, None, Goto, spawns, tries,
     Serving, Procs, MaybeProc
<1>7. Attempts'
  BY <1>1, HandoffAssumption DEF TypeOK, ClaimRename, None, Goto, spawns, tries,
     Attempts, Procs, MaybeProc
<1>8. Known'
  BY <1>1, HandoffAssumption DEF TypeOK, ClaimRename, None, Goto, spawns, tries,
     Known, Procs, Alive, MaybeProc
<1>9. FirstAlone'
  BY <1>1, HandoffAssumption DEF TypeOK, ClaimRename, None, Goto, spawns, tries,
     FirstAlone, Undisturbed, Untouched, Procs, MaybeProc
<1>10. Pair'
  BY <1>1, ProcFacts DEF TypeOK, ClaimRename, None, Goto, spawns, tries, Pair,
     Undisturbed, Untouched, Waiting, Starts, FilesName
<1>11. Kin' /\ Restarts'
  BY DEF ClaimRename, spawns, tries, Kin, Restarts
<1> QED BY <1>1, <1>2, <1>3, <1>4, <1>5, <1>6, <1>7, <1>8, <1>9, <1>10, <1>11

LEMMA ClaimVerifyTypes ==
  ASSUME TypeOK, NEW d \in Procs, ClaimVerify(d)
  PROVE  TypeOK'
<1> USE TypeSplit
<1>1. PcType'
  BY DEF ClaimVerify, Goto, PcType, Places, AfterType
<1>2. FileTypes'
  BY DEF ClaimVerify, Goto, FileTypes, ClaimTypes, KinTypes, PcType
<1>3. ClaimTypes'
  BY HandoffAssumption, ProcFacts DEF ClaimVerify, Goto, ClaimTypes, KinTypes, PcType,
     FileTypes, CountTypes
<1>4. AfterType' /\ KinTypes' /\ HandoffType' /\ FlagType' /\ CountTypes'
  BY DEF ClaimVerify, spawns, tries, AfterType, KinTypes, HandoffType, FlagType,
     CountTypes
<1> QED BY <1>1, <1>2, <1>3, <1>4, PTL

LEMMA ClaimVerifyKeeps ==
  ASSUME TypeOK, IInv, SoloInv, NEW d \in Procs, ClaimVerify(d)
  PROVE  TypeOK' /\ IInv' /\ SoloInv'
<1> USE DEF IInv, SoloInv
<1>1. TypeOK'
  BY ClaimVerifyTypes
<1>2. Starts'
  BY <1>1, HandoffAssumption DEF TypeOK, ClaimVerify, Goto, None, spawns, tries,
     Starts, Procs, MaybeProc
<1>3. Fresh'
  BY <1>1, HandoffAssumption DEF TypeOK, ClaimVerify, Goto, None, spawns, tries,
     Fresh, Procs, Untouched, MaybeProc
<1>4. FilesName'
  BY <1>1, HandoffAssumption DEF TypeOK, ClaimVerify, Goto, None, spawns, tries,
     FilesName, Procs, MaybeProc
<1>5. HoldsPid'
  BY <1>1, ProcFacts DEF TypeOK, ClaimVerify, Goto, None, spawns, tries, HoldsPid,
     Holders, Owning, Starts, FilesName
<1>6. Serving'
  BY <1>1, HandoffAssumption DEF TypeOK, ClaimVerify, Goto, None, spawns, tries,
     Serving, Procs, MaybeProc
<1>7. Attempts'
  BY <1>1, HandoffAssumption DEF TypeOK, ClaimVerify, Goto, None, spawns, tries,
     Attempts, Procs, MaybeProc
<1>8. Known'
  BY <1>1, HandoffAssumption DEF TypeOK, ClaimVerify, Goto, None, spawns, tries,
     Known, Procs, Alive, MaybeProc
<1>9. FirstAlone'
  BY <1>1, ProcFacts DEF TypeOK, ClaimVerify, Goto, None, spawns, tries, FirstAlone,
     Undisturbed, Untouched, Starts, FilesName
<1>10. Pair'
  BY <1>1, ProcFacts DEF TypeOK, ClaimVerify, Goto, None, spawns, tries, Pair,
     Undisturbed, Untouched, Waiting, Starts, FilesName
<1>11. Kin' /\ Restarts'
  BY DEF ClaimVerify, spawns, tries, Kin, Restarts
<1> QED BY <1>1, <1>2, <1>3, <1>4, <1>5, <1>6, <1>7, <1>8, <1>9, <1>10, <1>11

LEMMA PrepareTypes ==
  ASSUME TypeOK, NEW d \in Procs, Prepare(d)
  PROVE  TypeOK'
<1> USE TypeSplit
<1>1. PcType'
  BY DEF Prepare, Goto, Fault, Mishap, Spend, PcType, Places, AfterType
<1>2. HandoffType'
  BY DEF Prepare, Goto, Fault, Mishap, Spend, HandoffType
<1>3. CountTypes'
  BY HandoffAssumption, ProcFacts DEF Prepare, Goto, Fault, claims, spawns, tries,
     Mishap, Spend, CountTypes
<1>4. AfterType' /\ FileTypes' /\ ClaimTypes' /\ KinTypes' /\ FlagType'
  BY DEF Prepare, claims, spawns, tries, AfterType, FileTypes, ClaimTypes, KinTypes,
     FlagType
<1> QED BY <1>1, <1>2, <1>3, <1>4, PTL

LEMMA PrepareFresh ==
  ASSUME TypeOK, TypeOK', Fresh, NEW d \in Procs, Prepare(d)
  PROVE  Fresh'
  BY SMTT(60), HandoffAssumption DEF TypeOK, Prepare, Goto, Fault, claims, spawns,
     tries, Mishap, Spend, Fresh, Procs, Untouched, None, MaybeProc

LEMMA PrepareKnown ==
  ASSUME TypeOK, TypeOK', Known, NEW d \in Procs, Prepare(d)
  PROVE  Known'
  BY SMTT(60), ProcFacts DEF TypeOK, Prepare, Goto, Fault, claims, spawns, tries,
     Mishap, Spend, Known, Alive, None

LEMMA PrepareKeeps ==
  ASSUME TypeOK, IInv, SoloInv, NEW d \in Procs, Prepare(d)
  PROVE  TypeOK' /\ IInv' /\ SoloInv'
<1> USE DEF IInv, SoloInv
<1>1. TypeOK'
  BY PrepareTypes
<1>2. Starts'
  BY <1>1, HandoffAssumption DEF TypeOK, Prepare, Goto, Fault, claims, spawns, tries,
     Mishap, Spend, Starts, Procs, None, MaybeProc
<1>3. Fresh'
  BY <1>1, PrepareFresh
<1>4. FilesName'
  BY <1>1, ProcFacts DEF TypeOK, Prepare, Goto, Fault, claims, spawns, tries, Mishap,
     Spend, FilesName, None, Starts
<1>5. HoldsPid'
  BY <1>1, HandoffAssumption DEF TypeOK, Prepare, Goto, Fault, claims, spawns, tries,
     Mishap, Spend, HoldsPid, Procs, Holders, Owning, MaybeProc, None
<1>6. Serving'
  BY <1>1, ProcFacts DEF TypeOK, Prepare, Goto, Fault, claims, spawns, tries, Mishap,
     Spend, Serving, None
<1>7. Attempts'
  BY <1>1, ProcFacts DEF TypeOK, Prepare, Goto, Fault, claims, spawns, tries, Mishap,
     Spend, Attempts, None
<1>8. Known'
  BY <1>1, PrepareKnown
<1>9. Restarts'
  BY <1>1, ProcFacts DEF TypeOK, Prepare, Goto, Fault, claims, spawns, tries, Mishap,
     Spend, Restarts, None
<1>10. FirstAlone'
  BY <1>1, HandoffAssumption DEF TypeOK, Prepare, Goto, Fault, claims, spawns, tries,
     Mishap, Spend, FirstAlone, Undisturbed, Untouched, None, Procs, MaybeProc
<1>11. Pair'
  BY <1>1, ProcFacts DEF TypeOK, Prepare, Goto, Fault, claims, spawns, tries, Mishap,
     Spend, Pair, Undisturbed, Untouched, Waiting, None
<1>12. Kin'
  BY DEF Prepare, claims, spawns, tries, Kin
<1> QED BY <1>1, <1>2, <1>3, <1>4, <1>5, <1>6, <1>7, <1>8, <1>9, <1>10, <1>11, <1>12

LEMMA WaitPortTypes ==
  ASSUME TypeOK, NEW d \in Procs, WaitPort(d)
  PROVE  TypeOK'
<1> USE TypeSplit
<1>1. PcType'
  BY DEF WaitPort, Goto, PcType, Places, AfterType
<1>2. /\ AfterType' /\ FileTypes' /\ ClaimTypes' /\ KinTypes' /\ HandoffType'
      /\ FlagType' /\ CountTypes'
  BY DEF WaitPort, claims, spawns, tries, AfterType, FileTypes, ClaimTypes, KinTypes,
     HandoffType, FlagType, CountTypes
<1> QED BY <1>1, <1>2, PTL

LEMMA WaitPortKeeps ==
  ASSUME TypeOK, IInv, SoloInv, NEW d \in Procs, WaitPort(d)
  PROVE  TypeOK' /\ IInv' /\ SoloInv'
<1> USE DEF IInv, SoloInv
<1>1. TypeOK'
  BY WaitPortTypes
<1>2. Starts'
  BY <1>1, HandoffAssumption DEF TypeOK, WaitPort, None, Goto, claims, spawns, tries,
     Starts, Procs, MaybeProc
<1>3. Fresh'
  BY <1>1, HandoffAssumption DEF TypeOK, WaitPort, None, Goto, claims, spawns, tries,
     Fresh, Procs, Untouched, MaybeProc
<1>4. FilesName'
  BY <1>1, HandoffAssumption DEF TypeOK, WaitPort, None, Goto, claims, spawns, tries,
     FilesName, Procs, MaybeProc
<1>5. HoldsPid'
  BY <1>1, HandoffAssumption DEF TypeOK, WaitPort, None, Goto, claims, spawns, tries,
     HoldsPid, Procs, Holders, Owning, MaybeProc
<1>6. Serving'
  BY <1>1, HandoffAssumption DEF TypeOK, WaitPort, None, Goto, claims, spawns, tries,
     Serving, Procs, MaybeProc
<1>7. Attempts'
  BY <1>1, HandoffAssumption DEF TypeOK, WaitPort, None, Goto, claims, spawns, tries,
     Attempts, Procs, MaybeProc
<1>8. Known'
  BY <1>1, HandoffAssumption DEF TypeOK, WaitPort, None, Goto, claims, spawns, tries,
     Known, Procs, Alive, MaybeProc
<1>9. FirstAlone'
  BY <1>1, HandoffAssumption DEF TypeOK, WaitPort, None, Goto, claims, spawns, tries,
     FirstAlone, Undisturbed, Untouched, Procs, MaybeProc
<1>10. Pair'
  BY <1>1, ProcFacts DEF TypeOK, WaitPort, None, Goto, claims, spawns, tries, Pair,
     Undisturbed, Untouched, Waiting, Starts, Serving, Kin, Attempts
<1>11. Kin' /\ Restarts'
  BY DEF WaitPort, claims, spawns, tries, Kin, Restarts
<1> QED BY <1>1, <1>2, <1>3, <1>4, <1>5, <1>6, <1>7, <1>8, <1>9, <1>10, <1>11

LEMMA WaitPidTypes ==
  ASSUME TypeOK, NEW d \in Procs, WaitPid(d)
  PROVE  TypeOK'
<1> USE TypeSplit
<1>1. PcType'
  BY DEF WaitPid, Goto, PcType, Places, AfterType
<1>2. /\ AfterType' /\ FileTypes' /\ ClaimTypes' /\ KinTypes' /\ HandoffType'
      /\ FlagType' /\ CountTypes'
  BY DEF WaitPid, claims, spawns, tries, AfterType, FileTypes, ClaimTypes, KinTypes,
     HandoffType, FlagType, CountTypes
<1> QED BY <1>1, <1>2, PTL

LEMMA WaitPidKeeps ==
  ASSUME TypeOK, IInv, SoloInv, NEW d \in Procs, WaitPid(d)
  PROVE  TypeOK' /\ IInv' /\ SoloInv'
<1> USE DEF IInv, SoloInv
<1>1. TypeOK'
  BY WaitPidTypes
<1>2. Starts'
  BY <1>1, HandoffAssumption DEF TypeOK, WaitPid, Alive, Goto, claims, spawns, tries,
     None, Starts, Procs, MaybeProc
<1>3. Fresh'
  BY <1>1, HandoffAssumption DEF TypeOK, WaitPid, Alive, Goto, claims, spawns, tries,
     None, Fresh, Procs, Untouched, MaybeProc
<1>4. FilesName'
  BY <1>1, HandoffAssumption DEF TypeOK, WaitPid, Alive, Goto, claims, spawns, tries,
     None, FilesName, Procs, MaybeProc
<1>5. HoldsPid'
  BY <1>1, HandoffAssumption DEF TypeOK, WaitPid, Alive, Goto, claims, spawns, tries,
     None, HoldsPid, Procs, Holders, Owning, MaybeProc
<1>6. Serving'
  BY <1>1, HandoffAssumption DEF TypeOK, WaitPid, Alive, Goto, claims, spawns, tries,
     None, Serving, Procs, MaybeProc
<1>7. Attempts'
  BY <1>1, HandoffAssumption DEF TypeOK, WaitPid, Alive, Goto, claims, spawns, tries,
     None, Attempts, Procs, MaybeProc
<1>8. Known'
  BY <1>1, HandoffAssumption DEF TypeOK, WaitPid, Alive, Goto, claims, spawns, tries,
     None, Known, Procs, MaybeProc
<1>9. FirstAlone'
  BY <1>1, HandoffAssumption DEF TypeOK, WaitPid, Alive, Goto, claims, spawns, tries,
     None, FirstAlone, Undisturbed, Untouched, Procs, MaybeProc
<1>10. Pair'
  BY <1>1, HandoffAssumption DEF TypeOK, WaitPid, Alive, Goto, claims, spawns, tries,
     None, Pair, Undisturbed, Untouched, Waiting, Procs, HoldsPid, Holders, Owning,
     FilesName, Starts, Fresh, Kin, Serving, Attempts, MaybeProc
<1>11. Kin' /\ Restarts'
  BY DEF WaitPid, claims, spawns, tries, Kin, Restarts
<1> QED BY <1>1, <1>2, <1>3, <1>4, <1>5, <1>6, <1>7, <1>8, <1>9, <1>10, <1>11

LEMMA GiveUpTypes ==
  ASSUME TypeOK, NEW d \in Procs, GiveUp(d)
  PROVE  TypeOK'
<1> USE TypeSplit
<1>1. PcType'
  BY DEF GiveUp, Goto, PcType, Places, AfterType
<1>2. /\ AfterType' /\ FileTypes' /\ ClaimTypes' /\ KinTypes' /\ HandoffType'
      /\ FlagType' /\ CountTypes'
  BY DEF GiveUp, claims, spawns, tries, AfterType, FileTypes, ClaimTypes, KinTypes,
     HandoffType, FlagType, CountTypes
<1> QED BY <1>1, <1>2, PTL

LEMMA GiveUpKeeps ==
  ASSUME TypeOK, IInv, SoloInv, NEW d \in Procs, GiveUp(d)
  PROVE  TypeOK' /\ IInv' /\ SoloInv'
<1> USE DEF IInv, SoloInv
<1>1. TypeOK'
  BY GiveUpTypes
<1>2. Starts'
  BY <1>1, HandoffAssumption DEF TypeOK, GiveUp, Goto, claims, spawns, tries, Starts,
     Procs, None, MaybeProc
<1>3. Fresh'
  BY <1>1, HandoffAssumption DEF TypeOK, GiveUp, Goto, claims, spawns, tries, Fresh,
     Procs, Untouched, None, MaybeProc
<1>4. FilesName'
  BY <1>1, HandoffAssumption DEF TypeOK, GiveUp, Goto, claims, spawns, tries,
     FilesName, None, Procs, MaybeProc
<1>5. HoldsPid'
  BY <1>1, HandoffAssumption DEF TypeOK, GiveUp, Goto, claims, spawns, tries,
     HoldsPid, Procs, Holders, Owning, MaybeProc, None
<1>6. Serving'
  BY <1>1, HandoffAssumption DEF TypeOK, GiveUp, Goto, claims, spawns, tries, Serving,
     Procs, None, MaybeProc
<1>7. Attempts'
  BY <1>1, HandoffAssumption DEF TypeOK, GiveUp, Goto, claims, spawns, tries,
     Attempts, Procs, None, MaybeProc
<1>8. Known'
  BY <1>1, HandoffAssumption DEF TypeOK, GiveUp, Goto, claims, spawns, tries, Known,
     Procs, Alive, None, MaybeProc
<1>9. FirstAlone'
  BY <1>1, HandoffAssumption DEF TypeOK, GiveUp, Goto, claims, spawns, tries,
     FirstAlone, Undisturbed, Untouched, None, Procs, MaybeProc
<1>10. Pair'
  BY <1>1, HandoffAssumption DEF TypeOK, GiveUp, Goto, claims, spawns, tries, Pair,
     Undisturbed, Untouched, Waiting, None, Procs, MaybeProc
<1>11. Kin' /\ Restarts'
  BY DEF GiveUp, claims, spawns, tries, Kin, Restarts
<1> QED BY <1>1, <1>2, <1>3, <1>4, <1>5, <1>6, <1>7, <1>8, <1>9, <1>10, <1>11

LEMMA RestoreTypes ==
  ASSUME TypeOK, NEW d \in Procs, Restore(d)
  PROVE  TypeOK'
<1> USE TypeSplit
<1>1. PcType'
  BY DEF Restore, Goto, Fault, Mishap, Spend, PcType, Places, AfterType
<1>2. CountTypes'
  BY HandoffAssumption, ProcFacts DEF Restore, Goto, Fault, claims, spawns, tries,
     Mishap, Spend, CountTypes
<1>3. /\ AfterType' /\ FileTypes' /\ ClaimTypes' /\ KinTypes' /\ HandoffType'
      /\ FlagType'
  BY DEF Restore, claims, spawns, tries, AfterType, FileTypes, ClaimTypes, KinTypes,
     HandoffType, FlagType
<1> QED BY <1>1, <1>2, <1>3, PTL

LEMMA RestoreAttempts ==
  ASSUME TypeOK, TypeOK', Attempts, NEW d \in Procs, Restore(d)
  PROVE  Attempts'
  BY SMTT(60), ProcFacts DEF TypeOK, Restore, Goto, Fault, claims, spawns, tries,
     Mishap, Spend, Attempts, None

LEMMA RestoreFirstAlone ==
  ASSUME TypeOK, TypeOK', FirstAlone, NEW d \in Procs, Restore(d)
  PROVE  FirstAlone'
  BY SMTT(60), HandoffAssumption DEF TypeOK, Restore, Goto, Fault, claims, spawns,
     tries, Mishap, Spend, FirstAlone, Undisturbed, Untouched, None, Procs, MaybeProc

LEMMA RestoreKeeps ==
  ASSUME TypeOK, IInv, SoloInv, NEW d \in Procs, Restore(d)
  PROVE  TypeOK' /\ IInv' /\ SoloInv'
<1> USE DEF IInv, SoloInv
<1>1. TypeOK'
  BY RestoreTypes
<1>2. Starts'
  BY <1>1, HandoffAssumption DEF TypeOK, Restore, Goto, Fault, claims, spawns, tries,
     Mishap, Spend, Starts, Procs, None, MaybeProc
<1>3. Fresh'
  BY <1>1, ProcFacts DEF TypeOK, Restore, Goto, Fault, claims, spawns, tries, Mishap,
     Spend, Fresh, Untouched, None
<1>4. FilesName'
  BY <1>1, ProcFacts DEF TypeOK, Restore, Goto, Fault, claims, spawns, tries, Mishap,
     Spend, FilesName, None, Starts
<1>5. HoldsPid'
  BY <1>1, HandoffAssumption DEF TypeOK, Restore, Goto, Fault, claims, spawns, tries,
     Mishap, Spend, HoldsPid, Procs, Holders, Owning, MaybeProc, None
<1>6. Serving'
  BY <1>1, HandoffAssumption DEF TypeOK, Restore, Goto, Fault, claims, spawns, tries,
     Mishap, Spend, Serving, Procs, None, MaybeProc
<1>7. Attempts'
  BY <1>1, RestoreAttempts
<1>8. Known'
  BY <1>1, ProcFacts DEF TypeOK, Restore, Goto, Fault, claims, spawns, tries, Mishap,
     Spend, Known, Alive, None
<1>9. Restarts'
  BY <1>1, ProcFacts DEF TypeOK, Restore, Goto, Fault, claims, spawns, tries, Mishap,
     Spend, Restarts, None
<1>10. FirstAlone'
  BY <1>1, RestoreFirstAlone
<1>11. Pair'
  BY <1>1, ProcFacts DEF TypeOK, Restore, Goto, Fault, claims, spawns, tries, Mishap,
     Spend, Pair, Undisturbed, Untouched, Waiting, None
<1>12. Kin'
  BY DEF Restore, claims, spawns, tries, Kin
<1> QED BY <1>1, <1>2, <1>3, <1>4, <1>5, <1>6, <1>7, <1>8, <1>9, <1>10, <1>11, <1>12

LEMMA BindTypes ==
  ASSUME TypeOK, NEW d \in Procs, Bind(d)
  PROVE  TypeOK'
<1> USE TypeSplit
<1>1. PcType'
  BY DEF Bind, Goto, PcType, Places, AfterType
<1>2. FileTypes'
  BY HandoffAssumption, ProcFacts DEF Bind, Goto, FileTypes, KinTypes, PcType,
     CountTypes
<1>3. HandoffType'
  BY DEF Bind, Goto, HandoffType
<1>4. AfterType' /\ ClaimTypes' /\ KinTypes' /\ FlagType' /\ CountTypes'
  BY DEF Bind, claims, spawns, tries, AfterType, ClaimTypes, KinTypes, FlagType,
     CountTypes
<1> QED BY <1>1, <1>2, <1>3, <1>4, PTL

LEMMA BindKeeps ==
  ASSUME TypeOK, IInv, SoloInv, NEW d \in Procs, Bind(d)
  PROVE  TypeOK' /\ IInv' /\ SoloInv'
<1> USE DEF IInv, SoloInv
<1>1. TypeOK'
  BY BindTypes
<1>2. Starts'
  BY <1>1, HandoffAssumption DEF TypeOK, Bind, None, Goto, claims, spawns, tries,
     Starts, Procs, MaybeProc
<1>3. Fresh'
  BY <1>1, HandoffAssumption DEF TypeOK, Bind, None, Goto, claims, spawns, tries,
     Fresh, Procs, Untouched, MaybeProc
<1>4. FilesName'
  BY <1>1, ProcFacts DEF TypeOK, Bind, None, Goto, claims, spawns, tries, FilesName
<1>5. HoldsPid'
  BY <1>1, HandoffAssumption DEF TypeOK, Bind, None, Goto, claims, spawns, tries,
     HoldsPid, Procs, Holders, Owning, MaybeProc
<1>6. Serving'
  BY <1>1, ProcFacts DEF TypeOK, Bind, None, Goto, claims, spawns, tries, Serving
<1>7. Attempts'
  BY <1>1, ProcFacts DEF TypeOK, Bind, None, Goto, claims, spawns, tries, Attempts
<1>8. Known'
  BY <1>1, HandoffAssumption DEF TypeOK, Bind, None, Goto, claims, spawns, tries,
     Known, Procs, Alive, MaybeProc
<1>9. FirstAlone'
  BY <1>1, HandoffAssumption DEF TypeOK, Bind, None, Goto, claims, spawns, tries,
     FirstAlone, Undisturbed, Untouched, Procs, MaybeProc
<1>10. Pair'
  BY <1>1, HandoffAssumption DEF TypeOK, Bind, None, Goto, claims, spawns, tries,
     Pair, Undisturbed, Untouched, Waiting, Procs, HoldsPid, Holders, Owning,
     FilesName, Starts, Fresh, Kin, Serving, Attempts, MaybeProc
<1>11. Kin' /\ Restarts'
  BY DEF Bind, claims, spawns, tries, Kin, Restarts
<1> QED BY <1>1, <1>2, <1>3, <1>4, <1>5, <1>6, <1>7, <1>8, <1>9, <1>10, <1>11

-----------------------------------------------------------------------------
(* From a listening server to the end of the process, or back.             *)

LEMMA DrainTypes ==
  ASSUME TypeOK, NEW d \in Procs, Drain(d)
  PROVE  TypeOK'
<1> USE TypeSplit
<1>1. PcType'
  BY DEF Drain, Goto, PcType, Places, AfterType
<1>2. FileTypes'
  BY HandoffAssumption, ProcFacts DEF Drain, Goto, FileTypes, KinTypes, PcType,
     CountTypes
<1>3. /\ AfterType' /\ ClaimTypes' /\ KinTypes' /\ HandoffType' /\ FlagType'
      /\ CountTypes'
  BY DEF Drain, claims, spawns, tries, AfterType, ClaimTypes, KinTypes, HandoffType,
     FlagType, CountTypes
<1> QED BY <1>1, <1>2, <1>3, PTL

LEMMA DrainKeeps ==
  ASSUME TypeOK, IInv, SoloInv, NEW d \in Procs, Drain(d)
  PROVE  TypeOK' /\ IInv' /\ SoloInv'
<1> USE DEF IInv, SoloInv
<1>1. TypeOK'
  BY DrainTypes
<1>2. Starts'
  BY <1>1, HandoffAssumption DEF TypeOK, Drain, None, Goto, claims, spawns, tries,
     Starts, Procs, MaybeProc
<1>3. Fresh'
  BY <1>1, HandoffAssumption DEF TypeOK, Drain, None, Goto, claims, spawns, tries,
     Fresh, Procs, Untouched, MaybeProc
<1>4. FilesName'
  BY <1>1, HandoffAssumption DEF TypeOK, Drain, None, Goto, claims, spawns, tries,
     FilesName, Procs, MaybeProc
<1>5. HoldsPid'
  BY <1>1, HandoffAssumption DEF TypeOK, Drain, None, Goto, claims, spawns, tries,
     HoldsPid, Procs, Holders, Owning, MaybeProc
<1>6. Serving'
  BY <1>1, HandoffAssumption DEF TypeOK, Drain, None, Goto, claims, spawns, tries,
     Serving, Procs, MaybeProc
<1>7. Attempts'
  BY <1>1, HandoffAssumption DEF TypeOK, Drain, None, Goto, claims, spawns, tries,
     Attempts, Procs, MaybeProc
<1>8. Known'
  BY <1>1, HandoffAssumption DEF TypeOK, Drain, None, Goto, claims, spawns, tries,
     Known, Procs, Alive, MaybeProc
<1>9. FirstAlone'
  BY <1>1, HandoffAssumption DEF TypeOK, Drain, None, Goto, claims, spawns, tries,
     FirstAlone, Undisturbed, Untouched, Procs, MaybeProc
<1>10. Pair'
  BY <1>1, HandoffAssumption DEF TypeOK, Drain, None, Goto, claims, spawns, tries,
     Pair, Undisturbed, Untouched, Waiting, Procs, MaybeProc
<1>11. Kin' /\ Restarts'
  BY DEF Drain, claims, spawns, tries, Kin, Restarts
<1> QED BY <1>1, <1>2, <1>3, <1>4, <1>5, <1>6, <1>7, <1>8, <1>9, <1>10, <1>11

LEMMA FinalSaveTypes ==
  ASSUME TypeOK, NEW d \in Procs, FinalSave(d)
  PROVE  TypeOK'
<1> USE TypeSplit
<1>1. PcType'
  BY DEF FinalSave, TakeAttempt, Goto, PcType, Places, AfterType
<1>2. KinTypes'
  BY HandoffAssumption, ProcFacts DEF FinalSave, TakeAttempt, claims, spawns, Goto,
     KinTypes
<1>3. /\ AfterType' /\ FileTypes' /\ ClaimTypes' /\ HandoffType' /\ FlagType'
      /\ CountTypes'
  BY DEF FinalSave, claims, spawns, AfterType, FileTypes, ClaimTypes, HandoffType,
     FlagType, CountTypes
<1> QED BY <1>1, <1>2, <1>3, PTL

LEMMA FinalSaveKnown ==
  ASSUME TypeOK, Attempts, Known, NEW d \in Procs, FinalSave(d)
  PROVE  Known'
<1>1. attempt[d] = None /\ pc[d] = "save"
  BY DEF Attempts, FinalSave
<1>2. /\ attempt' = [attempt EXCEPT ![d] = slot[d]] /\ slot' = [slot EXCEPT ![d] = None]
      /\ pc' = [pc EXCEPT ![d] = IF slot[d] = None THEN "exit" ELSE "release"]
      /\ UNCHANGED <<parent, child, flags>>
  BY DEF FinalSave, TakeAttempt, Goto, spawns
<1>3. ASSUME NEW e \in Procs, NEW n \in Procs, parent[n] = e, Alive(n)'
      PROVE  \/ n \in {child'[e], slot'[e], attempt'[e]}
             \/ pc'[e] \in {"exit", "dead"} /\ ~flags'[e].ext
  <2>1. Alive(n)
    BY <1>1, <1>2, <1>3 DEF Alive, TypeOK
  <2>2. CASE e = d
    BY <1>1, <1>2, <1>3, <2>1, <2>2, ProcFacts DEF Known, TypeOK
  <2>3. CASE e # d
    BY <1>2, <1>3, <2>1, <2>3 DEF Known, TypeOK
  <2> QED BY <2>2, <2>3
<1> QED BY <1>2, <1>3 DEF Known

LEMMA FinalSaveKeeps ==
  ASSUME TypeOK, IInv, SoloInv, NEW d \in Procs, FinalSave(d)
  PROVE  TypeOK' /\ IInv' /\ SoloInv'
<1> USE DEF IInv, SoloInv
<1>1. TypeOK'
  BY FinalSaveTypes
<1>2. Starts'
  BY <1>1, HandoffAssumption DEF TypeOK, FinalSave, None, TakeAttempt, claims, spawns,
     Goto, Starts, Procs, MaybeProc
<1>3. Fresh'
  BY <1>1, HandoffAssumption DEF TypeOK, FinalSave, None, TakeAttempt, claims, spawns,
     Goto, Fresh, Procs, Untouched, MaybeProc
<1>4. Kin'
  BY <1>1, HandoffAssumption DEF TypeOK, FinalSave, None, TakeAttempt, claims, spawns,
     Goto, Kin, Procs, MaybeProc
<1>5. FilesName'
  BY <1>1, HandoffAssumption DEF TypeOK, FinalSave, None, TakeAttempt, claims, spawns,
     Goto, FilesName, Procs, MaybeProc
<1>6. HoldsPid'
  BY <1>1, HandoffAssumption DEF TypeOK, FinalSave, None, TakeAttempt, claims, spawns,
     Goto, HoldsPid, Procs, Holders, Owning, MaybeProc
<1>7. Serving'
  BY <1>1, HandoffAssumption DEF TypeOK, FinalSave, None, TakeAttempt, claims, spawns,
     Goto, Serving, Procs, MaybeProc
<1>8. Attempts'
  BY <1>1, HandoffAssumption DEF TypeOK, FinalSave, None, TakeAttempt, claims, spawns,
     Goto, Attempts, Procs, MaybeProc
<1>9. Known'
  BY FinalSaveKnown
<1>10. FirstAlone'
  BY <1>1, HandoffAssumption DEF TypeOK, FinalSave, None, TakeAttempt, claims, spawns,
     Goto, FirstAlone, Undisturbed, Untouched, Procs, MaybeProc
<1>11. Pair'
  BY <1>1, HandoffAssumption DEF TypeOK, FinalSave, None, TakeAttempt, claims, spawns,
     Goto, Pair, Undisturbed, Untouched, Waiting, Procs, MaybeProc
<1>12. Restarts'
  BY DEF FinalSave, claims, spawns, Restarts
<1> QED BY <1>1, <1>2, <1>3, <1>4, <1>5, <1>6, <1>7, <1>8, <1>9, <1>10, <1>11, <1>12

LEMMA FinalSaveFailTypes ==
  ASSUME TypeOK, NEW d \in Procs, FinalSaveFail(d)
  PROVE  TypeOK'
<1> USE TypeSplit
<1>1. PcType'
  BY DEF FinalSaveFail, Fault, TakeAttempt, Mishap, Goto, Spend, PcType, Places,
     AfterType
<1>2. AfterType'
  BY DEF FinalSaveFail, Fault, TakeAttempt, Mishap, Goto, Spend, AfterType
<1>3. KinTypes'
  BY HandoffAssumption, ProcFacts DEF FinalSaveFail, Fault, TakeAttempt, claims,
     spawns, Mishap, Goto, Spend, KinTypes
<1>4. CountTypes'
  BY HandoffAssumption, ProcFacts DEF FinalSaveFail, Fault, TakeAttempt, claims,
     spawns, Mishap, Goto, Spend, CountTypes
<1>5. FileTypes' /\ ClaimTypes' /\ HandoffType' /\ FlagType'
  BY DEF FinalSaveFail, claims, spawns, FileTypes, ClaimTypes, HandoffType, FlagType
<1> QED BY <1>1, <1>2, <1>3, <1>4, <1>5, PTL

LEMMA FinalSaveFailKnown ==
  ASSUME TypeOK, Attempts, Known, NEW d \in Procs, FinalSaveFail(d)
  PROVE  Known'
<1>1. attempt[d] = None /\ pc[d] = "save"
  BY DEF Attempts, FinalSaveFail
<1>2. /\ attempt' = [attempt EXCEPT ![d] = slot[d]] /\ slot' = [slot EXCEPT ![d] = None]
      /\ pc' = [pc EXCEPT ![d] = IF slot[d] = None THEN "exit" ELSE "cancel"]
      /\ UNCHANGED <<parent, child, flags>>
  BY DEF FinalSaveFail, TakeAttempt, Goto, spawns
<1>3. ASSUME NEW e \in Procs, NEW n \in Procs, parent[n] = e, Alive(n)'
      PROVE  \/ n \in {child'[e], slot'[e], attempt'[e]}
             \/ pc'[e] \in {"exit", "dead"} /\ ~flags'[e].ext
  <2>1. Alive(n)
    BY <1>1, <1>2, <1>3 DEF Alive, TypeOK
  <2>2. CASE e = d
    BY <1>1, <1>2, <1>3, <2>1, <2>2, ProcFacts DEF Known, TypeOK
  <2>3. CASE e # d
    BY <1>2, <1>3, <2>1, <2>3 DEF Known, TypeOK
  <2> QED BY <2>2, <2>3
<1> QED BY <1>2, <1>3 DEF Known

LEMMA FinalSaveFailKeeps ==
  ASSUME TypeOK, IInv, SoloInv, NEW d \in Procs, FinalSaveFail(d)
  PROVE  TypeOK' /\ IInv' /\ SoloInv'
<1> USE DEF IInv, SoloInv
<1>1. TypeOK'
  BY FinalSaveFailTypes
<1>2. Starts'
  BY <1>1, HandoffAssumption DEF TypeOK, FinalSaveFail, None, Fault, TakeAttempt,
     claims, spawns, Mishap, Goto, Spend, Starts, Procs, MaybeProc
<1>3. Fresh'
  BY <1>1, HandoffAssumption DEF TypeOK, FinalSaveFail, None, Fault, TakeAttempt,
     claims, spawns, Mishap, Goto, Spend, Fresh, Procs, Untouched, MaybeProc
<1>4. Kin'
  BY <1>1, HandoffAssumption DEF TypeOK, FinalSaveFail, None, Fault, TakeAttempt,
     claims, spawns, Mishap, Goto, Spend, Kin, Procs, MaybeProc
<1>5. FilesName'
  BY <1>1, HandoffAssumption DEF TypeOK, FinalSaveFail, None, Fault, TakeAttempt,
     claims, spawns, Mishap, Goto, Spend, FilesName, Procs, MaybeProc
<1>6. HoldsPid'
  BY <1>1, HandoffAssumption DEF TypeOK, FinalSaveFail, None, Fault, TakeAttempt,
     claims, spawns, Mishap, Goto, Spend, HoldsPid, Procs, Holders, Owning, MaybeProc
<1>7. Serving'
  BY <1>1, HandoffAssumption DEF TypeOK, FinalSaveFail, None, Fault, TakeAttempt,
     claims, spawns, Mishap, Goto, Spend, Serving, Procs, MaybeProc
<1>8. Attempts'
  BY <1>1, HandoffAssumption DEF TypeOK, FinalSaveFail, None, Fault, TakeAttempt,
     claims, spawns, Mishap, Goto, Spend, Attempts, Procs, MaybeProc
<1>9. Known'
  BY FinalSaveFailKnown
<1>10. Restarts'
  BY <1>1, ProcFacts DEF TypeOK, FinalSaveFail, None, Fault, TakeAttempt, claims,
     spawns, Mishap, Goto, Spend, Restarts, Starts, FilesName
<1>11. FirstAlone'
  BY <1>1, ProcFacts DEF TypeOK, FinalSaveFail, None, Fault, TakeAttempt, claims,
     spawns, Mishap, Goto, Spend, FirstAlone, Undisturbed, Untouched
<1>12. Pair'
  BY <1>1, ProcFacts DEF TypeOK, FinalSaveFail, None, Fault, TakeAttempt, claims,
     spawns, Mishap, Goto, Spend, Pair, Undisturbed, Untouched, Waiting
<1> QED BY <1>1, <1>2, <1>3, <1>4, <1>5, <1>6, <1>7, <1>8, <1>9, <1>10, <1>11, <1>12

LEMMA ReleaseTypes ==
  ASSUME TypeOK, NEW d \in Procs, Release(d)
  PROVE  TypeOK'
<1> USE TypeSplit
<1>1. PcType'
  BY DEF Release, Goto, Fault, Mishap, Spend, PcType, Places, AfterType
<1>2. AfterType'
  BY DEF Release, Goto, Fault, Mishap, Spend, AfterType
<1>3. FileTypes'
  BY HandoffAssumption, ProcFacts DEF Release, Goto, Fault, Mishap, Spend, FileTypes,
     KinTypes, PcType, CountTypes
<1>4. CountTypes'
  BY HandoffAssumption, ProcFacts DEF Release, Goto, Fault, claims, spawns, tries,
     Mishap, Spend, CountTypes
<1>5. ClaimTypes' /\ KinTypes' /\ HandoffType' /\ FlagType'
  BY DEF Release, claims, spawns, tries, ClaimTypes, KinTypes, HandoffType, FlagType
<1> QED BY <1>1, <1>2, <1>3, <1>4, <1>5, PTL

LEMMA ReleaseKnown ==
  ASSUME TypeOK, TypeOK', Known, NEW d \in Procs, Release(d)
  PROVE  Known'
  BY SMTT(60), HandoffAssumption DEF TypeOK, Release, None, Goto, Fault, claims,
     spawns, tries, Mishap, Spend, Known, Procs, Alive, MaybeProc

LEMMA ReleaseKeeps ==
  ASSUME TypeOK, IInv, SoloInv, NEW d \in Procs, Release(d)
  PROVE  TypeOK' /\ IInv' /\ SoloInv'
<1> USE DEF IInv, SoloInv
<1>1. TypeOK'
  BY ReleaseTypes
<1>2. Starts'
  BY <1>1, HandoffAssumption DEF TypeOK, Release, None, Goto, Fault, claims, spawns,
     tries, Mishap, Spend, Starts, Procs, MaybeProc
<1>3. Fresh'
  BY <1>1, HandoffAssumption DEF TypeOK, Release, None, Goto, Fault, claims, spawns,
     tries, Mishap, Spend, Fresh, Procs, Untouched, MaybeProc
<1>4. FilesName'
  BY <1>1, ProcFacts DEF TypeOK, Release, None, Goto, Fault, claims, spawns, tries,
     Mishap, Spend, FilesName
<1>5. HoldsPid'
  BY <1>1, ProcFacts DEF TypeOK, Release, None, Goto, Fault, claims, spawns, tries,
     Mishap, Spend, HoldsPid, Holders, Owning
<1>6. Serving'
  BY <1>1, HandoffAssumption DEF TypeOK, Release, None, Goto, Fault, claims, spawns,
     tries, Mishap, Spend, Serving, Procs, MaybeProc
<1>7. Attempts'
  BY <1>1, HandoffAssumption DEF TypeOK, Release, None, Goto, Fault, claims, spawns,
     tries, Mishap, Spend, Attempts, Procs, MaybeProc
<1>8. Known'
  BY <1>1, ReleaseKnown
<1>9. Restarts'
  BY <1>1, ProcFacts DEF TypeOK, Release, None, Goto, Fault, claims, spawns, tries,
     Mishap, Spend, Restarts
<1>10. FirstAlone'
  BY <1>1, ProcFacts DEF TypeOK, Release, None, Goto, Fault, claims, spawns, tries,
     Mishap, Spend, FirstAlone, Undisturbed, Untouched
<1>11. Pair'
  BY <1>1, ProcFacts DEF TypeOK, Release, None, Goto, Fault, claims, spawns, tries,
     Mishap, Spend, Pair, Undisturbed, Untouched, Waiting
<1>12. Kin'
  BY DEF Release, claims, spawns, tries, Kin
<1> QED BY <1>1, <1>2, <1>3, <1>4, <1>5, <1>6, <1>7, <1>8, <1>9, <1>10, <1>11, <1>12

LEMMA AwaitReadyTypes ==
  ASSUME TypeOK, NEW d \in Procs, AwaitReady(d)
  PROVE  TypeOK'
<1> USE TypeSplit
<1>1. PcType'
  BY DEF AwaitReady, Goto, PcType, Places, AfterType
<1>2. /\ AfterType' /\ FileTypes' /\ ClaimTypes' /\ KinTypes' /\ HandoffType'
      /\ FlagType' /\ CountTypes'
  BY DEF AwaitReady, claims, spawns, tries, AfterType, FileTypes, ClaimTypes,
     KinTypes, HandoffType, FlagType, CountTypes
<1> QED BY <1>1, <1>2, PTL

LEMMA AwaitReadyKeeps ==
  ASSUME TypeOK, IInv, SoloInv, NEW d \in Procs, AwaitReady(d)
  PROVE  TypeOK' /\ IInv' /\ SoloInv'
<1> USE DEF IInv, SoloInv
<1>1. TypeOK'
  BY AwaitReadyTypes
<1>2. Starts'
  BY <1>1, HandoffAssumption DEF TypeOK, AwaitReady, Alive, None, Goto, claims,
     spawns, tries, Starts, Procs, MaybeProc
<1>3. Fresh'
  BY <1>1, HandoffAssumption DEF TypeOK, AwaitReady, Alive, None, Goto, claims,
     spawns, tries, Fresh, Procs, Untouched, MaybeProc
<1>4. FilesName'
  BY <1>1, HandoffAssumption DEF TypeOK, AwaitReady, Alive, None, Goto, claims,
     spawns, tries, FilesName, Procs, MaybeProc
<1>5. HoldsPid'
  BY <1>1, HandoffAssumption DEF TypeOK, AwaitReady, Alive, None, Goto, claims,
     spawns, tries, HoldsPid, Procs, Holders, Owning, MaybeProc
<1>6. Serving'
  BY <1>1, HandoffAssumption DEF TypeOK, AwaitReady, Alive, None, Goto, claims,
     spawns, tries, Serving, Procs, MaybeProc
<1>7. Attempts'
  BY <1>1, HandoffAssumption DEF TypeOK, AwaitReady, Alive, None, Goto, claims,
     spawns, tries, Attempts, Procs, MaybeProc
<1>8. Known'
  BY <1>1, HandoffAssumption DEF TypeOK, AwaitReady, Alive, None, Goto, claims,
     spawns, tries, Known, Procs, MaybeProc
<1>9. FirstAlone'
  BY <1>1, HandoffAssumption DEF TypeOK, AwaitReady, Alive, None, Goto, claims,
     spawns, tries, FirstAlone, Undisturbed, Untouched, Procs, MaybeProc
<1>10. Pair'
  BY <1>1, HandoffAssumption DEF TypeOK, AwaitReady, Alive, None, Goto, claims,
     spawns, tries, Pair, Undisturbed, Untouched, Waiting, Procs, MaybeProc
<1>11. Kin' /\ Restarts'
  BY DEF AwaitReady, claims, spawns, tries, Kin, Restarts
<1> QED BY <1>1, <1>2, <1>3, <1>4, <1>5, <1>6, <1>7, <1>8, <1>9, <1>10, <1>11

LEMMA AwaitFailTypes ==
  ASSUME TypeOK, NEW d \in Procs, AwaitFail(d)
  PROVE  TypeOK'
<1> USE TypeSplit
<1>1. PcType'
  BY DEF AwaitFail, Goto, PcType, Places, AfterType
<1>2. AfterType'
  BY DEF AwaitFail, Goto, AfterType
<1>3. /\ FileTypes' /\ ClaimTypes' /\ KinTypes' /\ HandoffType' /\ FlagType'
      /\ CountTypes'
  BY DEF AwaitFail, claims, spawns, tries, FileTypes, ClaimTypes, KinTypes,
     HandoffType, FlagType, CountTypes
<1> QED BY <1>1, <1>2, <1>3, PTL

LEMMA AwaitFailKeeps ==
  ASSUME TypeOK, IInv, SoloInv, NEW d \in Procs, AwaitFail(d)
  PROVE  TypeOK' /\ IInv' /\ SoloInv'
<1> USE DEF IInv, SoloInv
<1>1. TypeOK'
  BY AwaitFailTypes
<1>2. Starts'
  BY <1>1, HandoffAssumption DEF TypeOK, AwaitFail, Goto, claims, spawns, tries,
     Starts, Procs, None, MaybeProc
<1>3. Fresh'
  BY <1>1, HandoffAssumption DEF TypeOK, AwaitFail, Goto, claims, spawns, tries,
     Fresh, Procs, Untouched, None, MaybeProc
<1>4. FilesName'
  BY <1>1, HandoffAssumption DEF TypeOK, AwaitFail, Goto, claims, spawns, tries,
     FilesName, None, Procs, MaybeProc
<1>5. HoldsPid'
  BY <1>1, HandoffAssumption DEF TypeOK, AwaitFail, Goto, claims, spawns, tries,
     HoldsPid, Procs, Holders, Owning, MaybeProc, None
<1>6. Serving'
  BY <1>1, HandoffAssumption DEF TypeOK, AwaitFail, Goto, claims, spawns, tries,
     Serving, Procs, None, MaybeProc
<1>7. Attempts'
  BY <1>1, HandoffAssumption DEF TypeOK, AwaitFail, Goto, claims, spawns, tries,
     Attempts, Procs, None, MaybeProc
<1>8. Known'
  BY <1>1, HandoffAssumption DEF TypeOK, AwaitFail, Goto, claims, spawns, tries,
     Known, Procs, Alive, None, MaybeProc
<1>9. FirstAlone'
  BY <1>1, HandoffAssumption DEF TypeOK, AwaitFail, Goto, claims, spawns, tries,
     FirstAlone, Undisturbed, Untouched, None, Procs, MaybeProc
<1>10. Pair'
  BY <1>1, HandoffAssumption DEF TypeOK, AwaitFail, Goto, claims, spawns, tries, Pair,
     Undisturbed, Untouched, Waiting, None, Procs, MaybeProc
<1>11. Kin' /\ Restarts'
  BY DEF AwaitFail, claims, spawns, tries, Kin, Restarts
<1> QED BY <1>1, <1>2, <1>3, <1>4, <1>5, <1>6, <1>7, <1>8, <1>9, <1>10, <1>11

LEMMA CommitTypes ==
  ASSUME TypeOK, NEW d \in Procs, Commit(d)
  PROVE  TypeOK'
<1> USE TypeSplit
<1>1. PcType'
  BY DEF Commit, Goto, PcType, Places, AfterType
<1>2. AfterType'
  BY DEF Commit, Goto, AfterType
<1>3. KinTypes'
  BY HandoffAssumption, ProcFacts DEF Commit, Goto, tries, claims, spawns, KinTypes
<1>4. FlagType'
  BY DEF Commit, Goto, FlagType
<1>5. FileTypes' /\ ClaimTypes' /\ HandoffType' /\ CountTypes'
  BY DEF Commit, tries, claims, spawns, FileTypes, ClaimTypes, HandoffType, CountTypes
<1> QED BY <1>1, <1>2, <1>3, <1>4, <1>5, PTL

LEMMA FirstElsewhere ==
  ASSUME TypeOK, Starts, FirstAlone, NEW d \in Procs, pc[d] \in {"commit", "resume"}
  PROVE  ~(Undisturbed /\ started = 1)
<1>1. SUFFICES ASSUME Undisturbed, started = 1
               PROVE  FALSE
  OBVIOUS
<1>2. pc[d] # "none"
  OBVIOUS
<1>3. d = 1
  BY <1>1, <1>2, ProcFacts DEF Starts, Procs
<1> QED BY <1>1, <1>3 DEF FirstAlone

LEMMA CommitFirst ==
  ASSUME TypeOK, Starts, FirstAlone, NEW d \in Procs, Commit(d)
  PROVE  FirstAlone'
<1>1. ~(Undisturbed /\ started = 1)
  BY FirstElsewhere DEF Commit
<1>2. /\ UNCHANGED <<started, budget>>
      /\ \/ flags' = flags
         \/ flags' = [flags EXCEPT ![d] = [flags[d] EXCEPT !.done = TRUE]]
  BY DEF Commit, spawns
<1>3. \A e \in Procs : flags'[e].ext = flags[e].ext
  BY <1>2 DEF TypeOK
<1> QED BY <1>1, <1>2, <1>3 DEF FirstAlone, Undisturbed

LEMMA CommitHoldsPid ==
  ASSUME TypeOK, TypeOK', HoldsPid, NEW d \in Procs, Commit(d)
  PROVE  HoldsPid'
  BY SMTT(60), HandoffAssumption DEF TypeOK, Commit, Goto, tries, None, claims,
     spawns, HoldsPid, Procs, Holders, Owning, MaybeProc

LEMMA CommitPair ==
  ASSUME TypeOK, TypeOK', Pair, Starts, FilesName, NEW d \in Procs, Commit(d)
  PROVE  Pair'
  BY SMTT(60), ProcFacts DEF TypeOK, Commit, Goto, tries, None, claims, spawns, Pair,
     Undisturbed, Untouched, Waiting, Starts, FilesName

LEMMA CommitKeeps ==
  ASSUME TypeOK, IInv, SoloInv, NEW d \in Procs, Commit(d)
  PROVE  TypeOK' /\ IInv' /\ SoloInv'
<1> USE DEF IInv, SoloInv
<1>1. TypeOK'
  BY CommitTypes
<1>2. Starts'
  BY <1>1, HandoffAssumption DEF TypeOK, Commit, Goto, tries, None, claims, spawns,
     Starts, Procs, MaybeProc
<1>3. Fresh'
  BY <1>1, HandoffAssumption DEF TypeOK, Commit, Goto, tries, None, claims, spawns,
     Fresh, Procs, Untouched, MaybeProc
<1>4. Kin'
  BY <1>1, HandoffAssumption DEF TypeOK, Commit, Goto, tries, None, claims, spawns,
     Kin, Procs, MaybeProc
<1>5. FilesName'
  BY <1>1, ProcFacts DEF TypeOK, Commit, Goto, tries, None, claims, spawns, FilesName,
     Starts
<1>6. HoldsPid'
  BY <1>1, CommitHoldsPid
<1>7. Serving'
  BY <1>1, HandoffAssumption DEF TypeOK, Commit, Goto, tries, None, claims, spawns,
     Serving, Procs, MaybeProc
<1>8. Attempts'
  BY <1>1, ProcFacts DEF TypeOK, Commit, Goto, tries, None, claims, spawns, Attempts
<1>9. Known'
  BY <1>1, ProcFacts DEF TypeOK, Commit, Goto, tries, None, claims, spawns, Known,
     Alive, Starts, FilesName
<1>10. FirstAlone'
  BY CommitFirst
<1>11. Pair'
  BY <1>1, CommitPair
<1>12. Restarts'
  BY DEF Commit, tries, claims, spawns, Restarts
<1> QED BY <1>1, <1>2, <1>3, <1>4, <1>5, <1>6, <1>7, <1>8, <1>9, <1>10, <1>11, <1>12

LEMMA CancelTypes ==
  ASSUME TypeOK, NEW d \in Procs, Cancel(d)
  PROVE  TypeOK'
<1> USE TypeSplit
<1>1. PcType'
  BY DEF Cancel, Unless, PcType, Places, AfterType
<1>2. FileTypes'
  BY HandoffAssumption, ProcFacts DEF Cancel, Unless, FileTypes, KinTypes, PcType,
     CountTypes
<1>3. KinTypes'
  BY HandoffAssumption, ProcFacts DEF Cancel, Unless, claims, spawns, KinTypes
<1>4. AfterType' /\ ClaimTypes' /\ HandoffType' /\ FlagType' /\ CountTypes'
  BY DEF Cancel, claims, spawns, AfterType, ClaimTypes, HandoffType, FlagType,
     CountTypes
<1> QED BY <1>1, <1>2, <1>3, <1>4, PTL

LEMMA CancelStarts ==
  ASSUME TypeOK, TypeOK', Starts, Kin, NEW d \in Procs, Cancel(d)
  PROVE  Starts'
  BY SMTT(60), ProcFacts DEF TypeOK, Cancel, Unless, None, claims, spawns, Starts, Kin

LEMMA CancelHoldsPid ==
  ASSUME TypeOK, TypeOK', HoldsPid, NEW d \in Procs, Cancel(d)
  PROVE  HoldsPid'
  BY SMTT(60), HandoffAssumption DEF TypeOK, Cancel, Unless, None, claims, spawns,
     HoldsPid, Procs, Holders, Owning, MaybeProc

LEMMA CancelServing ==
  ASSUME TypeOK, TypeOK', Serving, NEW d \in Procs, Cancel(d)
  PROVE  Serving'
  BY SMTT(60), HandoffAssumption DEF TypeOK, Cancel, Unless, None, claims, spawns,
     Serving, Procs, MaybeProc

LEMMA CancelKeeps ==
  ASSUME TypeOK, IInv, SoloInv, NEW d \in Procs, Cancel(d)
  PROVE  TypeOK' /\ IInv' /\ SoloInv'
<1> USE DEF IInv, SoloInv
<1>1. TypeOK'
  BY CancelTypes
<1>2. Starts'
  BY <1>1, CancelStarts
<1>3. Fresh'
  BY <1>1, ProcFacts DEF TypeOK, Cancel, Unless, None, claims, spawns, Fresh,
     Untouched
<1>4. Kin'
  BY <1>1, HandoffAssumption DEF TypeOK, Cancel, Unless, None, claims, spawns, Kin,
     Procs, MaybeProc
<1>5. FilesName'
  BY <1>1, ProcFacts DEF TypeOK, Cancel, Unless, None, claims, spawns, FilesName
<1>6. HoldsPid'
  BY <1>1, CancelHoldsPid
<1>7. Serving'
  BY <1>1, CancelServing
<1>8. Attempts'
  BY <1>1, HandoffAssumption DEF TypeOK, Cancel, Unless, None, claims, spawns,
     Attempts, Procs, MaybeProc
<1>9. Known'
  BY <1>1, ProcFacts DEF TypeOK, Cancel, Unless, None, claims, spawns, Known, Alive,
     Starts, FilesName
<1>10. FirstAlone'
  BY <1>1, HandoffAssumption DEF TypeOK, Cancel, Unless, None, claims, spawns,
     FirstAlone, Undisturbed, Untouched, Procs, MaybeProc
<1>11. Pair'
  BY <1>1, ProcFacts DEF TypeOK, Cancel, Unless, None, claims, spawns, Pair,
     Undisturbed, Untouched, Waiting, Starts, FilesName
<1>12. Restarts'
  BY DEF Cancel, claims, spawns, Restarts
<1> QED BY <1>1, <1>2, <1>3, <1>4, <1>5, <1>6, <1>7, <1>8, <1>9, <1>10, <1>11, <1>12

LEMMA ResumeTypes ==
  ASSUME TypeOK, NEW d \in Procs, Resume(d)
  PROVE  TypeOK'
<1> USE TypeSplit
<1>1. PcType'
  BY DEF Resume, Goto, PcType, Places, AfterType
<1>2. FlagType'
  BY DEF Resume, Goto, FlagType
<1>3. /\ AfterType' /\ FileTypes' /\ ClaimTypes' /\ KinTypes' /\ HandoffType'
      /\ CountTypes'
  BY DEF Resume, claims, spawns, tries, AfterType, FileTypes, ClaimTypes, KinTypes,
     HandoffType, CountTypes
<1> QED BY <1>1, <1>2, <1>3, PTL

LEMMA ResumeFirst ==
  ASSUME TypeOK, Starts, FirstAlone, NEW d \in Procs, Resume(d)
  PROVE  FirstAlone'
<1>1. ~(Undisturbed /\ started = 1)
  BY FirstElsewhere DEF Resume
<1>2. /\ UNCHANGED <<started, budget>>
      /\ flags' = [flags EXCEPT ![d] = [flags[d] EXCEPT !.rst = FALSE, !.done = FALSE]]
  BY DEF Resume, spawns, TypeOK
<1>3. \A e \in Procs : flags'[e].ext = flags[e].ext
  BY <1>2 DEF TypeOK
<1> QED BY <1>1, <1>2, <1>3 DEF FirstAlone, Undisturbed

LEMMA ResumePair ==
  ASSUME TypeOK, Starts, Pair, NEW d \in Procs, Resume(d)
  PROVE  Pair'
<1>1. SUFFICES ASSUME Undisturbed', started' = 2, parent'[2] = 1
               PROVE  Pair'
  BY DEF Pair
<1>2. /\ pc[d] = "resume"
      /\ pc' = [pc EXCEPT ![d] = IF flags[d].ext THEN "exit" ELSE "bind"]
      /\ flags' = [flags EXCEPT ![d] = [flags[d] EXCEPT !.rst = FALSE, !.done = FALSE]]
      /\ UNCHANGED <<after, pidFile, seen, moved, port, parent, started, handoff, child,
                     slot, attempt, budget>>
  BY DEF Resume, Goto, claims, spawns, tries, TypeOK
<1>3. Undisturbed /\ started = 2 /\ parent[2] = 1 /\ 1 \in Procs /\ 2 \in Procs
  <2>1. \A e \in Procs : flags'[e].ext = flags[e].ext
    BY <1>2 DEF TypeOK
  <2> QED BY <1>1, <1>2, <2>1, TwoProcs DEF Undisturbed
<1>4. d = 1
  <2>1. pc[d] # "none"
    BY <1>2
  <2>2. d \in {1, 2}
    BY <1>3, <2>1, ProcFacts DEF Starts, Procs
  <2> QED BY <1>2, <1>3, <2>2 DEF Pair, Waiting
<1>5. /\ pc[2] = "dead" /\ child[1] = None /\ slot[1] = None /\ attempt[1] = None
      /\ after[1] = "resume" /\ pidFile = 1 /\ moved[1] = None /\ seen[1] = None
      /\ Untouched(2)
  BY <1>2, <1>3, <1>4 DEF Pair
<1>6. ~flags[1].ext
  BY <1>3 DEF Undisturbed
<1>7. pc'[1] = "bind" /\ ~flags'[1].rst /\ pc'[2] = "dead" /\ flags'[2] = flags[2]
  BY <1>2, <1>3, <1>4, <1>5, <1>6 DEF TypeOK
<1>8. Untouched(2)'
  BY <1>2, <1>5, <1>7 DEF Untouched
<1> QED BY <1>2, <1>5, <1>7, <1>8 DEF Pair, Waiting

LEMMA ResumeKeeps ==
  ASSUME TypeOK, IInv, SoloInv, NEW d \in Procs, Resume(d)
  PROVE  TypeOK' /\ IInv' /\ SoloInv'
<1> USE DEF IInv, SoloInv
<1>1. TypeOK'
  BY ResumeTypes
<1>2. Starts'
  BY <1>1, HandoffAssumption DEF TypeOK, Resume, Goto, claims, spawns, tries, Starts,
     Procs, None, MaybeProc
<1>3. Fresh'
  BY <1>1, HandoffAssumption DEF TypeOK, Resume, Goto, claims, spawns, tries, Fresh,
     Procs, Untouched, None, MaybeProc
<1>4. FilesName'
  BY <1>1, HandoffAssumption DEF TypeOK, Resume, Goto, claims, spawns, tries,
     FilesName, None, Procs, MaybeProc
<1>5. HoldsPid'
  BY <1>1, HandoffAssumption DEF TypeOK, Resume, Goto, claims, spawns, tries,
     HoldsPid, Procs, Holders, Owning, MaybeProc, None
<1>6. Serving'
  BY <1>1, HandoffAssumption DEF TypeOK, Resume, Goto, claims, spawns, tries, Serving,
     Procs, None, MaybeProc
<1>7. Attempts'
  BY <1>1, HandoffAssumption DEF TypeOK, Resume, Goto, claims, spawns, tries,
     Attempts, Procs, None, MaybeProc
<1>8. Known'
  BY <1>1, HandoffAssumption DEF TypeOK, Resume, Goto, claims, spawns, tries, Known,
     Procs, Alive, None, MaybeProc
<1>9. FirstAlone'
  BY ResumeFirst
<1>10. Pair'
  BY ResumePair
<1>11. Kin' /\ Restarts'
  BY DEF Resume, claims, spawns, tries, Kin, Restarts
<1> QED BY <1>1, <1>2, <1>3, <1>4, <1>5, <1>6, <1>7, <1>8, <1>9, <1>10, <1>11

LEMMA ExitTypes ==
  ASSUME TypeOK, NEW d \in Procs, Exit(d)
  PROVE  TypeOK'
<1> USE TypeSplit
<1>1. PcType'
  BY DEF Exit, Goto, Unless, PcType, Places, AfterType
<1>2. FileTypes'
  BY HandoffAssumption, ProcFacts DEF Exit, Goto, Unless, FileTypes, KinTypes, PcType,
     CountTypes
<1>3. /\ AfterType' /\ ClaimTypes' /\ KinTypes' /\ HandoffType' /\ FlagType'
      /\ CountTypes'
  BY DEF Exit, claims, spawns, tries, AfterType, ClaimTypes, KinTypes, HandoffType,
     FlagType, CountTypes
<1> QED BY <1>1, <1>2, <1>3, PTL

LEMMA ExitKeeps ==
  ASSUME TypeOK, IInv, SoloInv, NEW d \in Procs, Exit(d)
  PROVE  TypeOK' /\ IInv' /\ SoloInv'
<1> USE DEF IInv, SoloInv
<1>1. TypeOK'
  BY ExitTypes
<1>2. Starts'
  BY <1>1, HandoffAssumption DEF TypeOK, Exit, Goto, Unless, claims, spawns, tries,
     None, Starts, Procs, MaybeProc
<1>3. Fresh'
  BY <1>1, HandoffAssumption DEF TypeOK, Exit, Goto, Unless, claims, spawns, tries,
     None, Fresh, Procs, Untouched, MaybeProc
<1>4. FilesName'
  BY <1>1, HandoffAssumption DEF TypeOK, Exit, Goto, Unless, claims, spawns, tries,
     None, FilesName, Procs, MaybeProc
<1>5. HoldsPid'
  BY <1>1, HandoffAssumption DEF TypeOK, Exit, Goto, Unless, claims, spawns, tries,
     None, HoldsPid, Procs, Holders, Owning, MaybeProc
<1>6. Serving'
  BY <1>1, HandoffAssumption DEF TypeOK, Exit, Goto, Unless, claims, spawns, tries,
     None, Serving, Procs, MaybeProc
<1>7. Attempts'
  BY <1>1, HandoffAssumption DEF TypeOK, Exit, Goto, Unless, claims, spawns, tries,
     None, Attempts, Procs, MaybeProc
<1>8. Known'
  BY <1>1, HandoffAssumption DEF TypeOK, Exit, Goto, Unless, claims, spawns, tries,
     None, Known, Procs, Alive, MaybeProc
<1>9. FirstAlone'
  BY <1>1, HandoffAssumption DEF TypeOK, Exit, Goto, Unless, claims, spawns, tries,
     None, FirstAlone, Undisturbed, Untouched, Procs, MaybeProc
<1>10. Pair'
  BY <1>1, HandoffAssumption DEF TypeOK, Exit, Goto, Unless, claims, spawns, tries,
     None, Pair, Undisturbed, Untouched, Waiting, Procs, MaybeProc
<1>11. Kin' /\ Restarts'
  BY DEF Exit, claims, spawns, tries, Kin, Restarts
<1> QED BY <1>1, <1>2, <1>3, <1>4, <1>5, <1>6, <1>7, <1>8, <1>9, <1>10, <1>11

-----------------------------------------------------------------------------
(* The restart request, signals and crashes.                               *)

LEMMA RestartBeginTypes ==
  ASSUME TypeOK, NEW d \in Procs, RestartBegin(d)
  PROVE  TypeOK'
<1> USE TypeSplit
<1>1. PcType'
  BY DEF RestartBegin, Spend, PcType, Places, AfterType
<1>2. KinTypes'
  BY HandoffAssumption, ProcFacts DEF RestartBegin, None, Spend, claims, tries,
     KinTypes, Procs, MaybeProc, PcType, FileTypes, CountTypes
<1>3. CountTypes'
  BY HandoffAssumption DEF RestartBegin, Spend, CountTypes, Procs
<1>4. AfterType' /\ FileTypes' /\ ClaimTypes' /\ HandoffType' /\ FlagType'
  BY DEF RestartBegin, claims, tries, AfterType, FileTypes, ClaimTypes, HandoffType,
     FlagType
<1> QED BY <1>1, <1>2, <1>3, <1>4, PTL

LEMMA RestartBeginPair ==
  ASSUME TypeOK, Starts, Fresh, FilesName, HoldsPid, Serving, FirstAlone, NEW d \in Procs,
         RestartBegin(d)
  PROVE  Pair'
<1>1. SUFFICES ASSUME Undisturbed', started' = 2, parent'[2] = 1
               PROVE  Pair'
  BY DEF Pair
<1>2. /\ started = 1 /\ 2 \in Procs /\ 1 \in Procs
      /\ pc' = [pc EXCEPT ![2] = "prepare"] /\ parent' = [parent EXCEPT ![2] = d]
      /\ child' = [child EXCEPT ![d] = 2] /\ budget' = [budget EXCEPT !["restarts"] = @ + 1]
      /\ pc[d] \in {"serve", "save"}
      /\ UNCHANGED <<after, pidFile, seen, moved, port, handoff, slot, attempt, flags>>
  <2>1. started' = started + 1 /\ started < MaxProcs /\ started \in Nat
    BY DEF RestartBegin, TypeOK, Procs
  <2>2. started = 1 /\ 2 \in Procs /\ 1 \in Procs
    BY <1>1, <2>1, HandoffAssumption DEF Procs
  <2> QED BY <2>1, <2>2 DEF RestartBegin, Spend, claims, tries
<1>3. d = 1
  BY <1>1, <1>2 DEF TypeOK
<1>4. Undisturbed
  BY <1>1, <1>2 DEF Undisturbed, TypeOK
<1>5. Untouched(1) /\ pc[1] = "serve"
  BY <1>2, <1>3, <1>4 DEF FirstAlone
<1>6. pc[2] = "none" /\ Untouched(2) /\ handoff[2] = "none"
  BY <1>2 DEF Starts, Fresh
<1>7. pidFile = 1
  <2>1. \A c \in Procs : moved[c] # 1
    <3>1. SUFFICES ASSUME NEW c \in Procs, moved[c] = 1
                   PROVE  FALSE
      OBVIOUS
    <3>2. pc[c] \in {"verify", "exit", "dead"}
      BY <3>1 DEF FilesName, None
    <3>3. c = 1
      BY <1>2, <3>2, ProcFacts DEF Starts, Procs
    <3> QED BY <1>5, <3>1, <3>3 DEF Untouched, None
  <2> QED BY <1>2, <1>5, <2>1 DEF HoldsPid, Holders, Owning
<1>8. Untouched(2)' /\ pc'[2] = "prepare" /\ handoff'[2] = "none" /\ pidFile' = 1
  BY <1>2, <1>3, <1>6, <1>7 DEF Untouched, TypeOK
<1>9. /\ pc'[1] = "serve" /\ seen'[1] = None /\ moved'[1] = None /\ attempt'[1] = None
      /\ child'[1] = 2 /\ slot'[1] = None /\ ~flags'[1].rst
  BY <1>2, <1>3, <1>5 DEF Untouched, TypeOK
<1> QED BY <1>8, <1>9 DEF Pair, Waiting

LEMMA RestartBeginKeeps ==
  ASSUME TypeOK, IInv, SoloInv, NEW d \in Procs, RestartBegin(d)
  PROVE  TypeOK' /\ IInv' /\ SoloInv'
<1> USE DEF IInv, SoloInv
<1>1. TypeOK'
  BY RestartBeginTypes
<1>2. Starts'
  BY <1>1, HandoffAssumption DEF TypeOK, RestartBegin, None, Spend, claims, tries,
     Starts, Procs, MaybeProc
<1>3. Fresh'
  BY <1>1, HandoffAssumption DEF TypeOK, RestartBegin, None, Spend, claims, tries,
     Fresh, Procs, Untouched, MaybeProc
<1>4. Kin'
  BY <1>1, ProcFacts DEF TypeOK, RestartBegin, None, Spend, claims, tries, Kin,
     Starts, FilesName
<1>5. FilesName'
  BY <1>1, ProcFacts DEF TypeOK, RestartBegin, None, Spend, claims, tries, FilesName,
     Starts
<1>6. HoldsPid'
  BY <1>1, HandoffAssumption DEF TypeOK, RestartBegin, None, Spend, claims, tries,
     HoldsPid, Procs, Holders, Owning, MaybeProc
<1>7. Serving'
  BY <1>1, ProcFacts DEF TypeOK, RestartBegin, None, Spend, claims, tries, Serving,
     Starts, FilesName
<1>8. Attempts'
  BY <1>1, ProcFacts DEF TypeOK, RestartBegin, None, Spend, claims, tries, Attempts,
     Starts, FilesName
<1>9. Known'
  BY <1>1, ProcFacts DEF TypeOK, RestartBegin, None, Spend, claims, tries, Known,
     Alive, Starts, FilesName
<1>10. Restarts'
  BY <1>1, HandoffAssumption DEF TypeOK, RestartBegin, None, Spend, claims, tries,
     Restarts, Procs, MaybeProc
<1>11. FirstAlone'
  BY <1>1, HandoffAssumption DEF TypeOK, RestartBegin, None, Spend, claims, tries,
     FirstAlone, Undisturbed, Untouched, Procs, MaybeProc
<1>12. Pair'
  BY RestartBeginPair
<1> QED BY <1>1, <1>2, <1>3, <1>4, <1>5, <1>6, <1>7, <1>8, <1>9, <1>10, <1>11, <1>12

LEMMA RestartArmTypes ==
  ASSUME TypeOK, NEW d \in Procs, RestartArm(d)
  PROVE  TypeOK'
<1> USE TypeSplit
<1>1. PcType'
  BY DEF RestartArm, Goto, PcType, Places, AfterType
<1>2. KinTypes'
  BY HandoffAssumption, ProcFacts DEF RestartArm, Alive, Goto, claims, spawns,
     KinTypes
<1>3. FlagType'
  BY DEF RestartArm, Goto, FlagType
<1>4. AfterType' /\ FileTypes' /\ ClaimTypes' /\ HandoffType' /\ CountTypes'
  BY DEF RestartArm, claims, spawns, AfterType, FileTypes, ClaimTypes, HandoffType,
     CountTypes
<1> QED BY <1>1, <1>2, <1>3, <1>4, PTL

LEMMA RestartArmFilesName ==
  ASSUME TypeOK, TypeOK', FilesName, Starts, Kin, NEW d \in Procs, RestartArm(d)
  PROVE  FilesName'
  BY SMTT(60), ProcFacts DEF TypeOK, RestartArm, Alive, None, Goto, claims, spawns,
     FilesName, Starts, Kin

LEMMA RestartArmAttempts ==
  ASSUME TypeOK, TypeOK', Attempts, NEW d \in Procs, RestartArm(d)
  PROVE  Attempts'
  BY SMTT(60), HandoffAssumption DEF TypeOK, RestartArm, Alive, None, Goto, claims,
     spawns, Attempts, Procs, MaybeProc

LEMMA RestartArmKnown ==
  ASSUME TypeOK, TypeOK', Known, NEW d \in Procs, RestartArm(d)
  PROVE  Known'
  BY SMTT(60), HandoffAssumption DEF TypeOK, RestartArm, Alive, None, Goto, claims,
     spawns, Known, Procs, MaybeProc

LEMMA RestartArmFirstAlone ==
  ASSUME TypeOK, TypeOK', FirstAlone, Starts, Kin, NEW d \in Procs, RestartArm(d)
  PROVE  FirstAlone'
  BY SMTT(60), ProcFacts DEF TypeOK, RestartArm, Alive, None, Goto, claims, spawns,
     FirstAlone, Undisturbed, Untouched, Starts, Kin

LEMMA RestartArmKeeps ==
  ASSUME TypeOK, IInv, SoloInv, NEW d \in Procs, RestartArm(d)
  PROVE  TypeOK' /\ IInv' /\ SoloInv'
<1> USE DEF IInv, SoloInv
<1>1. TypeOK'
  BY RestartArmTypes
<1>2. Starts'
  BY <1>1, HandoffAssumption DEF TypeOK, RestartArm, Alive, None, Goto, claims,
     spawns, Starts, Procs, MaybeProc
<1>3. Fresh'
  BY <1>1, ProcFacts DEF TypeOK, RestartArm, Alive, None, Goto, claims, spawns, Fresh,
     Untouched
<1>4. Kin'
  BY <1>1, HandoffAssumption DEF TypeOK, RestartArm, Alive, None, Goto, claims,
     spawns, Kin, Procs, MaybeProc
<1>5. FilesName'
  BY <1>1, RestartArmFilesName
<1>6. HoldsPid'
  BY <1>1, HandoffAssumption DEF TypeOK, RestartArm, Alive, None, Goto, claims,
     spawns, HoldsPid, Procs, Holders, Owning, MaybeProc
<1>7. Serving'
  BY <1>1, ProcFacts DEF TypeOK, RestartArm, Alive, None, Goto, claims, spawns,
     Serving, Starts, Kin
<1>8. Attempts'
  BY <1>1, RestartArmAttempts
<1>9. Known'
  BY <1>1, RestartArmKnown
<1>10. FirstAlone'
  BY <1>1, RestartArmFirstAlone
<1>11. Pair'
  BY <1>1, HandoffAssumption DEF TypeOK, RestartArm, Alive, None, Goto, claims,
     spawns, Pair, Undisturbed, Untouched, Waiting, Procs, HoldsPid, Holders, Owning,
     FilesName, Starts, Fresh, Kin, Serving, Attempts, MaybeProc
<1>12. Restarts'
  BY DEF RestartArm, claims, spawns, Restarts
<1> QED BY <1>1, <1>2, <1>3, <1>4, <1>5, <1>6, <1>7, <1>8, <1>9, <1>10, <1>11, <1>12

LEMMA RestartFailTypes ==
  ASSUME TypeOK, NEW d \in Procs, RestartFail(d)
  PROVE  TypeOK'
<1> USE TypeSplit
<1>1. PcType'
  BY DEF RestartFail, Goto, Unless, PcType, Places, AfterType
<1>2. FileTypes'
  BY HandoffAssumption, ProcFacts DEF RestartFail, Goto, Unless, FileTypes, KinTypes,
     PcType, CountTypes
<1>3. KinTypes'
  BY HandoffAssumption, ProcFacts DEF RestartFail, Alive, Goto, Unless, claims,
     spawns, tries, KinTypes
<1>4. AfterType' /\ ClaimTypes' /\ HandoffType' /\ FlagType' /\ CountTypes'
  BY DEF RestartFail, claims, spawns, tries, AfterType, ClaimTypes, HandoffType,
     FlagType, CountTypes
<1> QED BY <1>1, <1>2, <1>3, <1>4, PTL

LEMMA RestartFailKeeps ==
  ASSUME TypeOK, IInv, SoloInv, NEW d \in Procs, RestartFail(d)
  PROVE  TypeOK' /\ IInv' /\ SoloInv'
<1> USE DEF IInv, SoloInv
<1>1. TypeOK'
  BY RestartFailTypes
<1>2. Starts'
  BY <1>1, ProcFacts DEF TypeOK, RestartFail, Alive, None, Goto, Unless, claims,
     spawns, tries, Starts, Kin
<1>3. Fresh'
  BY <1>1, HandoffAssumption DEF TypeOK, RestartFail, Alive, None, Goto, Unless,
     claims, spawns, tries, Fresh, Procs, Untouched, MaybeProc
<1>4. Kin'
  BY <1>1, HandoffAssumption DEF TypeOK, RestartFail, Alive, None, Goto, Unless,
     claims, spawns, tries, Kin, Procs, MaybeProc
<1>5. FilesName'
  BY <1>1, HandoffAssumption DEF TypeOK, RestartFail, Alive, None, Goto, Unless,
     claims, spawns, tries, FilesName, Procs, MaybeProc
<1>6. HoldsPid'
  BY <1>1, HandoffAssumption DEF TypeOK, RestartFail, Alive, None, Goto, Unless,
     claims, spawns, tries, HoldsPid, Procs, Holders, Owning, MaybeProc
<1>7. Serving'
  BY <1>1, HandoffAssumption DEF TypeOK, RestartFail, Alive, None, Goto, Unless,
     claims, spawns, tries, Serving, Procs, MaybeProc
<1>8. Attempts'
  BY <1>1, HandoffAssumption DEF TypeOK, RestartFail, Alive, None, Goto, Unless,
     claims, spawns, tries, Attempts, Procs, MaybeProc
<1>9. Known'
  BY <1>1, HandoffAssumption DEF TypeOK, RestartFail, Alive, None, Goto, Unless,
     claims, spawns, tries, Known, Procs, MaybeProc
<1>10. FirstAlone'
  BY <1>1, HandoffAssumption DEF TypeOK, RestartFail, Alive, None, Goto, Unless,
     claims, spawns, tries, FirstAlone, Undisturbed, Untouched, Procs, MaybeProc
<1>11. Pair'
  BY <1>1, ProcFacts DEF TypeOK, RestartFail, Alive, None, Goto, Unless, claims,
     spawns, tries, Pair, Undisturbed, Untouched, Waiting, Starts, FilesName
<1>12. Restarts'
  BY DEF RestartFail, claims, spawns, tries, Restarts
<1> QED BY <1>1, <1>2, <1>3, <1>4, <1>5, <1>6, <1>7, <1>8, <1>9, <1>10, <1>11, <1>12

LEMMA SignalTypes ==
  ASSUME TypeOK, NEW d \in Procs, Signal(d)
  PROVE  TypeOK'
<1> USE TypeSplit
<1>1. FlagType'
  BY DEF Signal, Spend, FlagType
<1>2. CountTypes'
  BY HandoffAssumption, ProcFacts DEF Signal, Spend, claims, spawns, tries, CountTypes
<1>3. /\ PcType' /\ AfterType' /\ FileTypes' /\ ClaimTypes' /\ KinTypes'
      /\ HandoffType'
  BY DEF Signal, claims, spawns, tries, PcType, AfterType, FileTypes, ClaimTypes,
     KinTypes, HandoffType
<1> QED BY <1>1, <1>2, <1>3, PTL

LEMMA SignalKeeps ==
  ASSUME TypeOK, IInv, SoloInv, NEW d \in Procs, Signal(d)
  PROVE  TypeOK' /\ IInv' /\ SoloInv'
<1> USE DEF IInv, SoloInv
<1>1. TypeOK'
  BY SignalTypes
<1>2. Fresh'
  BY <1>1, HandoffAssumption DEF TypeOK, Signal, Spend, claims, spawns, tries, Fresh,
     Procs, Untouched, None, MaybeProc
<1>3. Known'
  BY <1>1, ProcFacts DEF TypeOK, Signal, Spend, claims, spawns, tries, Known, Alive,
     None
<1>4. Restarts'
  BY <1>1, HandoffAssumption DEF TypeOK, Signal, Spend, claims, spawns, tries,
     Restarts, Procs, None, MaybeProc
<1>5. FirstAlone'
  BY <1>1, HandoffAssumption DEF TypeOK, Signal, Spend, claims, spawns, tries,
     FirstAlone, Undisturbed, Untouched, None, Procs, MaybeProc
<1>6. Pair'
  BY <1>1, HandoffAssumption DEF TypeOK, Signal, Spend, claims, spawns, tries, Pair,
     Undisturbed, Untouched, Waiting, None, Procs, MaybeProc
<1>7. Starts' /\ Kin' /\ FilesName' /\ HoldsPid' /\ Serving' /\ Attempts'
  BY DEF Signal, claims, spawns, tries, Starts, Kin, FilesName, HoldsPid, Holders,
     Owning, Serving, Attempts
<1> QED BY <1>1, <1>2, <1>3, <1>4, <1>5, <1>6, <1>7

LEMMA CrashTypes ==
  ASSUME TypeOK, NEW d \in Procs, Crash(d)
  PROVE  TypeOK'
<1> USE TypeSplit
<1>1. PcType'
  BY DEF Crash, Mishap, Goto, Unless, Spend, PcType, Places, AfterType
<1>2. FileTypes'
  BY HandoffAssumption, ProcFacts DEF Crash, Mishap, Goto, Unless, Spend, FileTypes,
     KinTypes, PcType, CountTypes
<1>3. CountTypes'
  BY HandoffAssumption, ProcFacts DEF Crash, Alive, Mishap, Goto, Unless, claims,
     spawns, tries, Spend, CountTypes
<1>4. AfterType' /\ ClaimTypes' /\ KinTypes' /\ HandoffType' /\ FlagType'
  BY DEF Crash, claims, spawns, tries, AfterType, ClaimTypes, KinTypes, HandoffType,
     FlagType
<1> QED BY <1>1, <1>2, <1>3, <1>4, PTL

LEMMA CrashKeeps ==
  ASSUME TypeOK, IInv, SoloInv, NEW d \in Procs, Crash(d)
  PROVE  TypeOK' /\ IInv' /\ SoloInv'
<1> USE DEF IInv, SoloInv
<1>1. TypeOK'
  BY CrashTypes
<1>2. Starts'
  BY <1>1, HandoffAssumption DEF TypeOK, Crash, Alive, Mishap, Goto, Unless, claims,
     spawns, tries, None, Spend, Starts, Procs, MaybeProc
<1>3. Fresh'
  BY <1>1, HandoffAssumption DEF TypeOK, Crash, Alive, Mishap, Goto, Unless, claims,
     spawns, tries, None, Spend, Fresh, Procs, Untouched, MaybeProc
<1>4. FilesName'
  BY <1>1, HandoffAssumption DEF TypeOK, Crash, Alive, Mishap, Goto, Unless, claims,
     spawns, tries, None, Spend, FilesName, Procs, MaybeProc
<1>5. HoldsPid'
  BY <1>1, HandoffAssumption DEF TypeOK, Crash, Alive, Mishap, Goto, Unless, claims,
     spawns, tries, None, Spend, HoldsPid, Procs, Holders, Owning, MaybeProc
<1>6. Serving'
  BY <1>1, HandoffAssumption DEF TypeOK, Crash, Alive, Mishap, Goto, Unless, claims,
     spawns, tries, None, Spend, Serving, Procs, MaybeProc
<1>7. Attempts'
  BY <1>1, HandoffAssumption DEF TypeOK, Crash, Alive, Mishap, Goto, Unless, claims,
     spawns, tries, None, Spend, Attempts, Procs, MaybeProc
<1>8. Known'
  BY <1>1, HandoffAssumption DEF TypeOK, Crash, Alive, Mishap, Goto, Unless, claims,
     spawns, tries, None, Spend, Known, Procs, MaybeProc
<1>9. Restarts'
  BY <1>1, HandoffAssumption DEF TypeOK, Crash, Alive, Mishap, Goto, Unless, claims,
     spawns, tries, None, Spend, Restarts, Procs, MaybeProc
<1>10. FirstAlone'
  BY <1>1, HandoffAssumption DEF TypeOK, Crash, Alive, Mishap, Goto, Unless, claims,
     spawns, tries, None, Spend, FirstAlone, Undisturbed, Untouched, Procs, MaybeProc
<1>11. Pair'
  BY <1>1, HandoffAssumption DEF TypeOK, Crash, Alive, Mishap, Goto, Unless, claims,
     spawns, tries, None, Spend, Pair, Undisturbed, Untouched, Waiting, Procs,
     MaybeProc
<1>12. Kin'
  BY DEF Crash, claims, spawns, tries, Kin
<1> QED BY <1>1, <1>2, <1>3, <1>4, <1>5, <1>6, <1>7, <1>8, <1>9, <1>10, <1>11, <1>12
-----------------------------------------------------------------------------
(* The initial state, and all steps together.                              *)

LEMMA InitInvariant ==
  ASSUME Init
  PROVE  TypeOK /\ IInv /\ SoloInv
<1>1. 1 \in Procs /\ None \in MaybeProc
  BY ProcFacts, HandoffAssumption DEF Procs
<1>2. PcType /\ AfterType /\ FileTypes /\ ClaimTypes /\ KinTypes /\ HandoffType /\ FlagType
      /\ CountTypes
  BY <1>1 DEF Init, PcType, AfterType, FileTypes, ClaimTypes, KinTypes, HandoffType,
     FlagType, CountTypes, Places
<1>3. Starts /\ Fresh /\ Kin /\ FilesName
  BY <1>1, ProcFacts DEF Init, Starts, Fresh, Untouched, Kin, FilesName, Procs
<1>4. HoldsPid /\ Serving /\ Attempts /\ Known
  BY <1>1, ProcFacts DEF Init, HoldsPid, Holders, Owning, Serving, Attempts, Known, Alive
<1>5. Restarts /\ FirstAlone /\ Pair
  BY <1>1 DEF Init, Restarts, FirstAlone, Untouched, Pair
<1> QED BY <1>2, <1>3, <1>4, <1>5, TypeSplit DEF IInv, SoloInv

LEMMA StutterKeeps ==
  ASSUME TypeOK, IInv, SoloInv, UNCHANGED vars
  PROVE  TypeOK' /\ IInv' /\ SoloInv'
<1>1. TypeOK'
  <2>1. /\ PcType' /\ AfterType' /\ FileTypes' /\ ClaimTypes' /\ KinTypes'
        /\ HandoffType' /\ FlagType' /\ CountTypes'
    BY TypeSplit DEF vars, claims, spawns, tries, PcType, AfterType, FileTypes,
       ClaimTypes, KinTypes, HandoffType, FlagType, CountTypes
  <2> QED BY <2>1, TypeSplit, PTL
<1>2. IInv'
  BY DEF vars, claims, spawns, tries, IInv, Starts, Fresh, Untouched, Kin, FilesName,
     HoldsPid, Serving, Attempts, Known, Alive
<1>3. SoloInv'
  BY DEF vars, claims, spawns, tries, SoloInv, Restarts, FirstAlone, Pair, Undisturbed,
     Untouched
<1> QED BY <1>1, <1>2, <1>3

LEMMA EveryStepKeeps ==
  ASSUME TypeOK, IInv, SoloInv, [Next]_vars
  PROVE  TypeOK' /\ IInv' /\ SoloInv'
<1>1. CASE Start
  BY <1>1, StartKeeps
<1>2. ASSUME NEW d \in Procs, Progress(d)
      PROVE  TypeOK' /\ IInv' /\ SoloInv'
  BY <1>2, ClaimCreateKeeps, ClaimStaleKeeps, ClaimRenameKeeps, ClaimVerifyKeeps,
     PrepareKeeps, WaitPortKeeps, WaitPidKeeps, GiveUpKeeps, RestoreKeeps, BindKeeps,
     DrainKeeps, FinalSaveKeeps, ReleaseKeeps, AwaitReadyKeeps, AwaitFailKeeps,
     CommitKeeps, CancelKeeps, ResumeKeeps, ExitKeeps DEF Progress
<1>3. ASSUME NEW d \in Procs,
             \/ Handler(d) \/ FinalSaveFail(d) \/ RestartBegin(d) \/ Signal(d) \/ Crash(d)
      PROVE  TypeOK' /\ IInv' /\ SoloInv'
  BY <1>3, FinalSaveFailKeeps, RestartBeginKeeps, RestartArmKeeps, RestartFailKeeps,
     SignalKeeps, CrashKeeps DEF Handler
<1>4. CASE UNCHANGED vars
  BY <1>4, StutterKeeps
<1> QED BY <1>1, <1>2, <1>3, <1>4 DEF Next

(* Where PID files, listeners and replacements can be, whatever the order  *)
(* of starts, restarts, shutdowns, failures and crashes (pid.rs, server.rs *)
(* and daemon/state.rs).                                                   *)
THEOREM HandoffInvariantHolds == Spec => [](TypeOK /\ IInv /\ SoloInv)
<1>1. Init => TypeOK /\ IInv /\ SoloInv
  BY InitInvariant
<1>2. (TypeOK /\ IInv /\ SoloInv) /\ [Next]_vars => (TypeOK /\ IInv /\ SoloInv)'
  BY EveryStepKeeps
<1> QED BY <1>1, <1>2, PTL DEF Spec

(* Two processes never work on the same state, unless a third claimer has  *)
(* moved the PID file of one of them away (write_pid_file).                *)
THEOREM OneOwnerAtATime == Spec => []OneOwner
<1>1. TypeOK /\ IInv => OneOwner
  <2>1. SUFFICES ASSUME TypeOK, IInv, NEW d \in Procs, NEW e \in Procs,
                        pc[d] \in Owning, pc[e] \in Owning, d # e
                 PROVE  Displaced \cap {d, e} # {}
    BY DEF OneOwner
  <2>2. \A f \in {d, e} : f \in Procs /\ Alive(f) /\ (pidFile = f \/ \E c \in Procs : moved[c] = f)
    BY <2>1, ProcFacts DEF IInv, HoldsPid, Holders, Owning, Alive
  <2>3. \E f \in {d, e} : f \in Displaced
    BY <2>1, <2>2 DEF Displaced
  <2> QED BY <2>3
<1> QED BY <1>1, HandoffInvariantHolds, PTL

(* The daemon that listens is the one the PID file names, with the same    *)
(* exception.                                                              *)
THEOREM ListenerIsInPidFile == Spec => []ListenerOwnsPid
<1>1. TypeOK /\ IInv => ListenerOwnsPid
  <2>1. SUFFICES ASSUME TypeOK, IInv, port # None, port \notin Displaced
                 PROVE  pidFile = port
    BY DEF ListenerOwnsPid
  <2>2. port \in Procs /\ pc[port] = "serve"
    BY <2>1, ProcFacts DEF TypeOK, IInv, Serving
  <2>3. pidFile = port \/ \E c \in Procs : moved[c] = port
    BY <2>1, <2>2 DEF IInv, HoldsPid, Holders, Owning
  <2> QED BY <2>1, <2>2, <2>3 DEF Displaced, Alive
<1> QED BY <1>1, HandoffInvariantHolds, PTL

(* No replacement outlives the restart it was spawned for while its daemon *)
(* serves: stop_replacement and arm_restart leave none behind.             *)
THEOREM ReplacementsAreWanted == Spec => []NoStrayReplacement
<1>1. TypeOK /\ IInv => NoStrayReplacement
  BY DEF IInv, Known, Attempts, NoStrayReplacement, Alive
<1> QED BY <1>1, HandoffInvariantHolds, PTL

(* An external shutdown recorded before the handoff is committed is not    *)
(* undone by it, whatever else fails (commit_restart_handoff).             *)
THEOREM ShutdownsStick == Spec => []ShutdownSticks
<1>1. TypeOK /\ IInv => ShutdownSticks
  BY DEF IInv, Known, ShutdownSticks
<1> QED BY <1>1, HandoffInvariantHolds, PTL

(* A single restart, whether it succeeds or is taken back, ends with a     *)
(* daemon that listens, however many of its steps fail.                    *)
THEOREM RestartReturnsService == Spec => []ServiceReturns
<1>1. TypeOK /\ IInv /\ SoloInv => ServiceReturns
  <2>1. SUFFICES ASSUME TypeOK, IInv, SoloInv, budget.restarts = 1, budget.crashes = 0,
                        \A d \in Procs : pc[d] \in {"none", "dead", "serve"},
                        \A d \in Procs : ~flags[d].ext, port = None,
                        \A n \in Procs \ {1} : ~(parent[n] = None /\ pc[n] = "dead")
                 PROVE  FALSE
    BY DEF ServiceReturns
  <2>2. ASSUME NEW d \in Procs, d <= started
        PROVE  pc[d] = "dead"
    <3>1. pc[d] # "none"
      BY <2>1, <2>2, HandoffAssumption, ProcFacts DEF IInv, Starts, TypeOK, CountTypes, Procs
    <3>2. pc[d] # "serve"
      BY <2>1, <2>2, ProcFacts DEF IInv, Serving
    <3> QED BY <2>1, <2>2, <3>1, <3>2
  <2>3. \A n \in Procs : n # 1 /\ n <= started => parent[n] # None
    BY <2>1, <2>2
  <2>4. started # 1
    BY <2>1 DEF SoloInv, Restarts
  <2>5. started \in Nat /\ \A n \in 1 .. started : n \in Procs
    BY HandoffAssumption, <2>1 DEF TypeOK, Procs
  <2>6. started = 2
    <3>1. SUFFICES ASSUME started > 2
                   PROVE  FALSE
      BY <2>1, <2>4, <2>5, ProcFacts DEF TypeOK
    <3>2. 2 \in Procs /\ 3 \in Procs /\ 2 <= started /\ 3 <= started
      <4>1. 2 \in 1 .. started /\ 3 \in 1 .. started
        BY <3>1, <2>5
      <4> QED BY <4>1, <2>5, <3>1
    <3>3. parent[2] # None /\ parent[3] # None
      BY <2>3, <3>1, <3>2
    <3> QED BY <2>1, <3>2, <3>3 DEF SoloInv, Restarts
  <2>7. 1 \in Procs /\ 2 \in Procs
    BY <2>5, <2>6
  <2>8. parent[2] = 1
    BY <2>1, <2>3, <2>6, <2>7, ProcFacts DEF IInv, Starts, TypeOK, Procs, MaybeProc, None
  <2>9. pc[1] = "dead" /\ pc[2] = "dead"
    BY <2>2, <2>6, <2>7
  <2> QED BY <2>1, <2>6, <2>7, <2>8, <2>9 DEF SoloInv, Pair, Undisturbed
<1> QED BY <1>1, HandoffInvariantHolds, PTL
=============================================================================
