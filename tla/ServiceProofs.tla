---------------------------- MODULE ServiceProofs ----------------------------
(***************************************************************************)
(* Proofs about the services that work beside the process registry: the    *)
(* tunnel manager, the children of requests, the Telegram poller and the   *)
(* access to the dashboard.  Each has an inductive invariant of its own.   *)
(*                                                                         *)
(* TunnelInv follows a tunnel from the create that spawned it to the       *)
(* watcher that takes it down, and says what a stop that holds the lock    *)
(* may rely on.  ChildInv ties each child to its request's guard and gate. *)
(* BotInv says that what lies behind an offset, wherever it is kept, was   *)
(* handled, and that what was handled is remembered or excused.  AccessInv *)
(* says what a request may rely on from the locks it holds and from the    *)
(* generation it read before it waited.                                    *)
(***************************************************************************)
EXTENDS Tunnels, RequestChildren, TelegramBot, Access, TLAPS, FiniteSetTheorems

-----------------------------------------------------------------------------
(* The tunnel manager.                                                      *)
Statuses == {"none", "starting", "active", "stopped", "failed"}
WatchStages == {"none", "scan", "found", "activate", "wait"} \cup Cleaning
CallRecords == [op : {"none", "create", "stop", "remove"},
                pc : {"idle", "lock", "spawn", "attach", "capture", "kill", "confirm",
                      "stopped", "delete"},
                id : Tunnels \cup {NoTunnel}]

EntryType == entry \in [Tunnels -> Statuses]
GroupTypes == /\ pids \subseteq Tunnels /\ descend \subseteq Tunnels
              /\ root \in [Tunnels -> {"none", "alive", "zombie", "gone"}]
WatchTypes == watch \in [Tunnels -> WatchStages]
LockType == createLock \in Callers \cup {Unheld}
CallType == call \in [Callers -> CallRecords]
CountType == calls \in 0 .. MaxCalls

(* A request beyond its first step, and any stop, is about a tunnel.       *)
Located ==
  \A c \in Callers :
    /\ call[c].pc \in {"spawn", "attach", "capture"} => call[c].op = "create"
    /\ call[c].pc \in {"kill", "confirm", "stopped", "delete"} =>
         call[c].op \in {"stop", "remove"}
    /\ call[c].op \in {"stop", "remove"} \/ call[c].pc \in {"spawn", "attach", "capture"} =>
         call[c].id \in Tunnels

(* A create under way holds the lock, and its tunnel is no one else's.     *)
CreateOwns ==
  \A c \in Callers : call[c].pc \in {"spawn", "attach", "capture"} =>
    /\ createLock = c /\ entry[call[c].id] = "starting"
    /\ call[c].id \notin pids /\ watch[call[c].id] = "none"
    /\ call[c].pc = "spawn" => ~Alive(call[c].id)

(* A stop holds the lock up to its answer. *)
StopOwns ==
  \A c \in Callers : call[c].pc \in {"kill", "confirm", "stopped"} => createLock = c

(* What a stop has confirmed, or found taken down, stays down. *)
StopConfirms ==
  \A c \in Callers :
    /\ call[c].pc = "confirm" => ~Alive(call[c].id)
    /\ call[c].pc \in {"stopped", "delete"} =>
         /\ call[c].id \notin pids
         /\ Alive(call[c].id) => watch[call[c].id] \in Cleaning
    /\ call[c].pc = "delete" => entry[call[c].id] \in {"none", "stopped"}

(* A registered tunnel has a watcher, up to where that takes it down; the  *)
(* tree of one that is not is being started or taken down.                 *)
Registered ==
  \A t \in Tunnels :
    /\ t \in pids => watch[t] \notin {"none", "mark", "drop"}
    /\ t \notin pids /\ Alive(t) => Creating(t) \/ watch[t] \in Cleaning

(* What is not listed any more, or as stopped, is down or going down.      *)
Unlisted ==
  \A t \in Tunnels :
    entry[t] \in {"none", "stopped"} /\ Alive(t) => watch[t] \in Cleaning

(* What a stop found unregistered it will mark.                            *)
Marking(t) == \E c \in Callers : call[c].id = t /\ call[c].pc = "stopped"
Recorded ==
  \A t \in Tunnels :
    /\ entry[t] = "active" => watch[t] \in {"wait", "unregister", "mark"}
    /\ entry[t] = "active" /\ watch[t] = "wait" => t \in pids \/ Marking(t)
    /\ entry[t] = "starting" /\ watch[t] = "activate" => t \in pids \/ Marking(t)

TunnelTypes == EntryType /\ GroupTypes /\ WatchTypes /\ LockType /\ CallType /\ CountType
TunnelInv == /\ Located /\ CreateOwns /\ StopOwns /\ StopConfirms
             /\ Registered /\ Unlisted /\ Recorded

LEMMA CreateRecorded ==
  ASSUME EntryType, GroupTypes, WatchTypes, LockType, CallType, CountType, Recorded,
        TunnelTypes', NEW c \in Callers, Create(c)
  PROVE  Recorded'
  BY TunnelAssumption DEF EntryType, GroupTypes, WatchTypes, LockType, CallType,
     CountType, CallRecords, Create, Unheld, Finish, Fresh, Quiet, NoTunnel, Recorded,
     Marking, TunnelTypes

LEMMA AskRegistered ==
  ASSUME EntryType, GroupTypes, WatchTypes, LockType, CallType, CountType, Registered,
        TunnelTypes', NEW c \in Callers, Ask(c)
  PROVE  Registered'
  BY TunnelAssumption DEF EntryType, GroupTypes, WatchTypes, LockType, CallType,
     CountType, CallRecords, Ask, Quiet, NoTunnel, Registered, Alive, Creating,
     Cleaning, TunnelTypes

LEMMA AskKeeps ==
  ASSUME TunnelTypes, TunnelInv, NEW c \in Callers, Ask(c)
  PROVE  TunnelTypes' /\ TunnelInv'
<1> USE DEF TunnelTypes, TunnelInv
<1>1. EntryType' /\ GroupTypes' /\ WatchTypes' /\ LockType'
  BY DEF Ask, EntryType, GroupTypes, WatchTypes, LockType
<1>2. CallType'
  BY TunnelAssumption DEF Ask, Quiet, NoTunnel, EntryType, GroupTypes, WatchTypes,
     LockType, CallType, CountType, CallRecords, Located
<1>3. CountType'
  BY TunnelAssumption DEF Ask, Quiet, NoTunnel, EntryType, GroupTypes, WatchTypes,
     LockType, CallType, CountType
<1>4. TunnelTypes'
  BY <1>1, <1>2, <1>3
<1>5. Unlisted'
  BY DEF Ask, Unlisted, Alive
<1>6. Located'
  BY <1>4, TunnelAssumption DEF EntryType, GroupTypes, WatchTypes, LockType, CallType,
     CountType, Ask, Quiet, NoTunnel, Located, CallRecords
<1>7. CreateOwns'
  BY <1>4, TunnelAssumption DEF EntryType, GroupTypes, WatchTypes, LockType, CallType,
     CountType, Ask, Quiet, NoTunnel, CreateOwns, Alive, CallRecords
<1>8. StopOwns'
  BY <1>4, TunnelAssumption DEF EntryType, GroupTypes, WatchTypes, LockType, CallType,
     CountType, Ask, Quiet, NoTunnel, StopOwns, CallRecords
<1>9. StopConfirms'
  BY <1>4, TunnelAssumption DEF EntryType, GroupTypes, WatchTypes, LockType, CallType,
     CountType, Ask, Quiet, NoTunnel, StopConfirms, Alive, Cleaning, CallRecords
<1>10. Registered'
  BY <1>4, AskRegistered
<1>11. Recorded'
  BY <1>4, TunnelAssumption DEF EntryType, GroupTypes, WatchTypes, LockType, CallType,
     CountType, Ask, Quiet, NoTunnel, Recorded, Marking, CallRecords
<1> QED BY <1>4, <1>5, <1>6, <1>7, <1>8, <1>9, <1>10, <1>11

LEMMA CreateKeeps ==
  ASSUME TunnelTypes, TunnelInv, NEW c \in Callers, Create(c)
  PROVE  TunnelTypes' /\ TunnelInv'
<1> USE DEF TunnelTypes, TunnelInv
<1>1. WatchTypes' /\ CountType'
  BY DEF Create, Finish, WatchTypes, CountType
<1>2. EntryType'
  BY TunnelAssumption DEF Create, Unheld, Finish, Fresh, Quiet, NoTunnel, EntryType,
     GroupTypes, WatchTypes, LockType, CallType, CountType, Statuses
<1>3. GroupTypes'
  BY TunnelAssumption DEF Create, Unheld, Finish, Fresh, Quiet, NoTunnel, EntryType,
     GroupTypes, WatchTypes, LockType, CallType, CountType
<1>4. LockType'
  BY TunnelAssumption DEF Create, Unheld, Finish, Fresh, Quiet, NoTunnel, EntryType,
     GroupTypes, WatchTypes, LockType, CallType, CountType
<1>5. CallType'
  BY TunnelAssumption DEF Create, Unheld, Finish, Fresh, Quiet, NoTunnel, EntryType,
     GroupTypes, WatchTypes, LockType, CallType, CountType, CallRecords, Located
<1>6. TunnelTypes'
  BY <1>1, <1>2, <1>3, <1>4, <1>5
<1>7. Located'
  BY <1>6, TunnelAssumption DEF EntryType, GroupTypes, WatchTypes, LockType, CallType,
     CountType, Create, Unheld, Finish, Fresh, Quiet, NoTunnel, Located, CallRecords
<1>8. CreateOwns'
  BY <1>6, TunnelAssumption DEF EntryType, GroupTypes, WatchTypes, LockType, CallType,
     CountType, Create, Unheld, Finish, Fresh, Quiet, NoTunnel, CreateOwns, Alive,
     CallRecords
<1>9. StopOwns'
  BY <1>6, TunnelAssumption DEF EntryType, GroupTypes, WatchTypes, LockType, CallType,
     CountType, Create, Unheld, Finish, Fresh, Quiet, NoTunnel, StopOwns, CallRecords
<1>10. StopConfirms'
  BY <1>6, TunnelAssumption DEF EntryType, GroupTypes, WatchTypes, LockType, CallType,
     CountType, Create, Unheld, Finish, Fresh, Quiet, NoTunnel, StopConfirms, Alive,
     Cleaning, CallRecords
<1>11. Registered'
  BY <1>6, TunnelAssumption DEF EntryType, GroupTypes, WatchTypes, LockType, CallType,
     CountType, Create, Unheld, Finish, Fresh, Quiet, NoTunnel, Registered, Alive,
     Creating, Cleaning, CallRecords
<1>12. Unlisted'
  BY <1>6, TunnelAssumption DEF EntryType, GroupTypes, WatchTypes, LockType, CallType,
     CountType, Create, Unheld, Finish, Fresh, Quiet, NoTunnel, Unlisted, Alive,
     Cleaning, CallRecords
<1>13. Recorded'
  BY <1>6, CreateRecorded
<1> QED BY <1>6, <1>7, <1>8, <1>9, <1>10, <1>11, <1>12, <1>13

LEMMA SpawnTunnelKeeps ==
  ASSUME TunnelTypes, TunnelInv, NEW c \in Callers, SpawnTunnel(c)
  PROVE  TunnelTypes' /\ TunnelInv'
<1> USE DEF TunnelTypes, TunnelInv
<1>1. WatchTypes' /\ CountType'
  BY DEF SpawnTunnel, Go, Release, Finish, WatchTypes, CountType
<1>2. EntryType'
  BY TunnelAssumption DEF SpawnTunnel, Go, Release, Finish, Unheld, Quiet, NoTunnel,
     EntryType, GroupTypes, WatchTypes, LockType, CallType, CountType, Statuses
<1>3. GroupTypes'
  BY TunnelAssumption DEF SpawnTunnel, Go, Release, Finish, Unheld, Quiet, NoTunnel,
     EntryType, GroupTypes, WatchTypes, LockType, CallType, CountType
<1>4. LockType'
  BY TunnelAssumption DEF SpawnTunnel, Go, Release, Finish, Unheld, Quiet, NoTunnel,
     EntryType, GroupTypes, WatchTypes, LockType, CallType, CountType
<1>5. CallType'
  BY TunnelAssumption DEF SpawnTunnel, Go, Release, Finish, Unheld, Quiet, NoTunnel,
     EntryType, GroupTypes, WatchTypes, LockType, CallType, CountType, CallRecords,
     Located
<1>6. TunnelTypes'
  BY <1>1, <1>2, <1>3, <1>4, <1>5
<1>7. Located'
  BY <1>6, TunnelAssumption DEF EntryType, GroupTypes, WatchTypes, LockType, CallType,
     CountType, SpawnTunnel, Go, Release, Finish, Unheld, Quiet, NoTunnel, Located,
     CallRecords
<1>8. CreateOwns'
  BY <1>6, TunnelAssumption DEF EntryType, GroupTypes, WatchTypes, LockType, CallType,
     CountType, SpawnTunnel, Go, Release, Finish, Unheld, Quiet, NoTunnel, CreateOwns,
     Alive, CallRecords
<1>9. StopOwns'
  BY <1>6, TunnelAssumption DEF EntryType, GroupTypes, WatchTypes, LockType, CallType,
     CountType, SpawnTunnel, Go, Release, Finish, Unheld, Quiet, NoTunnel, StopOwns,
     CallRecords
<1>10. StopConfirms'
  BY <1>6, TunnelAssumption DEF EntryType, GroupTypes, WatchTypes, LockType, CallType,
     CountType, SpawnTunnel, Go, Release, Finish, Unheld, Quiet, NoTunnel,
     StopConfirms, Alive, Cleaning, Located, CreateOwns, StopOwns, CallRecords
<1>11. Registered'
  BY <1>6, TunnelAssumption DEF EntryType, GroupTypes, WatchTypes, LockType, CallType,
     CountType, SpawnTunnel, Go, Release, Finish, Unheld, Quiet, NoTunnel, Registered,
     Alive, Creating, Cleaning, Located, CreateOwns, StopOwns, CallRecords
<1>12. Unlisted'
  BY <1>6, TunnelAssumption DEF EntryType, GroupTypes, WatchTypes, LockType, CallType,
     CountType, SpawnTunnel, Go, Release, Finish, Unheld, Quiet, NoTunnel, Unlisted,
     Alive, Cleaning, Located, CreateOwns, StopOwns, CallRecords
<1>13. Recorded'
  BY <1>6, TunnelAssumption DEF EntryType, GroupTypes, WatchTypes, LockType, CallType,
     CountType, SpawnTunnel, Go, Release, Finish, Unheld, Quiet, NoTunnel, Recorded,
     Marking, CallRecords
<1> QED BY <1>6, <1>7, <1>8, <1>9, <1>10, <1>11, <1>12, <1>13

LEMMA AttachTunnelKeeps ==
  ASSUME TunnelTypes, TunnelInv, NEW c \in Callers, AttachTunnel(c)
  PROVE  TunnelTypes' /\ TunnelInv'
<1> USE DEF TunnelTypes, TunnelInv
<1>1. WatchTypes' /\ CountType'
  BY DEF AttachTunnel, Go, KillAndForget, Release, Finish, WatchTypes, CountType
<1>2. EntryType'
  BY TunnelAssumption DEF AttachTunnel, Go, KillAndForget, Release, Finish, Unheld,
     Quiet, NoTunnel, EntryType, GroupTypes, WatchTypes, LockType, CallType,
     CountType, Statuses
<1>3. GroupTypes'
  BY TunnelAssumption DEF AttachTunnel, Go, KillAndForget, Release, Finish, Unheld,
     Quiet, NoTunnel, EntryType, GroupTypes, WatchTypes, LockType, CallType, CountType
<1>4. LockType'
  BY TunnelAssumption DEF AttachTunnel, Go, KillAndForget, Release, Finish, Unheld,
     Quiet, NoTunnel, EntryType, GroupTypes, WatchTypes, LockType, CallType, CountType
<1>5. CallType'
  BY TunnelAssumption DEF AttachTunnel, Go, KillAndForget, Release, Finish, Unheld,
     Quiet, NoTunnel, EntryType, GroupTypes, WatchTypes, LockType, CallType,
     CountType, CallRecords, Located
<1>6. TunnelTypes'
  BY <1>1, <1>2, <1>3, <1>4, <1>5
<1>7. Located'
  BY <1>6, TunnelAssumption DEF EntryType, GroupTypes, WatchTypes, LockType, CallType,
     CountType, AttachTunnel, Go, KillAndForget, Release, Finish, Unheld, Quiet,
     NoTunnel, Located, CallRecords
<1>8. CreateOwns'
  BY <1>6, TunnelAssumption DEF EntryType, GroupTypes, WatchTypes, LockType, CallType,
     CountType, AttachTunnel, Go, KillAndForget, Release, Finish, Unheld, Quiet,
     NoTunnel, CreateOwns, Alive, CallRecords
<1>9. StopOwns'
  BY <1>6, TunnelAssumption DEF EntryType, GroupTypes, WatchTypes, LockType, CallType,
     CountType, AttachTunnel, Go, KillAndForget, Release, Finish, Unheld, Quiet,
     NoTunnel, StopOwns, CallRecords
<1>10. StopConfirms'
  BY <1>6, TunnelAssumption DEF EntryType, GroupTypes, WatchTypes, LockType, CallType,
     CountType, AttachTunnel, Go, KillAndForget, Release, Finish, Unheld, Quiet,
     NoTunnel, StopConfirms, Alive, Cleaning, Located, CallRecords
<1>11. Registered'
  BY <1>6, TunnelAssumption DEF EntryType, GroupTypes, WatchTypes, LockType, CallType,
     CountType, AttachTunnel, Go, KillAndForget, Release, Finish, Unheld, Quiet,
     NoTunnel, Registered, Alive, Creating, Cleaning, CallRecords
<1>12. Unlisted'
  BY <1>6, TunnelAssumption DEF EntryType, GroupTypes, WatchTypes, LockType, CallType,
     CountType, AttachTunnel, Go, KillAndForget, Release, Finish, Unheld, Quiet,
     NoTunnel, Unlisted, Alive, Cleaning, CallRecords
<1>13. Recorded'
  BY <1>6, TunnelAssumption DEF EntryType, GroupTypes, WatchTypes, LockType, CallType,
     CountType, AttachTunnel, Go, KillAndForget, Release, Finish, Unheld, Quiet,
     NoTunnel, Recorded, Marking, CallRecords
<1> QED BY <1>6, <1>7, <1>8, <1>9, <1>10, <1>11, <1>12, <1>13

LEMMA RegisterTunnelKeeps ==
  ASSUME TunnelTypes, TunnelInv, NEW c \in Callers, RegisterTunnel(c)
  PROVE  TunnelTypes' /\ TunnelInv'
<1> USE DEF TunnelTypes, TunnelInv
<1>1. CountType'
  BY DEF RegisterTunnel, KillAndForget, Release, Finish, CountType
<1>2. EntryType'
  BY TunnelAssumption DEF RegisterTunnel, KillAndForget, Release, Finish, Unheld,
     Quiet, NoTunnel, EntryType, GroupTypes, WatchTypes, LockType, CallType,
     CountType, Statuses
<1>3. GroupTypes'
  BY TunnelAssumption DEF RegisterTunnel, KillAndForget, Release, Finish, Unheld,
     Quiet, NoTunnel, EntryType, GroupTypes, WatchTypes, LockType, CallType,
     CountType, CallRecords, Located
<1>4. WatchTypes'
  BY TunnelAssumption DEF RegisterTunnel, KillAndForget, Release, Finish, Unheld,
     Quiet, NoTunnel, EntryType, GroupTypes, WatchTypes, LockType, CallType,
     CountType, WatchStages, Cleaning
<1>5. LockType'
  BY TunnelAssumption DEF RegisterTunnel, KillAndForget, Release, Finish, Unheld,
     Quiet, NoTunnel, EntryType, GroupTypes, WatchTypes, LockType, CallType, CountType
<1>6. CallType'
  BY TunnelAssumption DEF RegisterTunnel, KillAndForget, Release, Finish, Unheld,
     Quiet, NoTunnel, EntryType, GroupTypes, WatchTypes, LockType, CallType,
     CountType, CallRecords, Located
<1>7. TunnelTypes'
  BY <1>1, <1>2, <1>3, <1>4, <1>5, <1>6
<1>8. Located'
  BY <1>7, TunnelAssumption DEF EntryType, GroupTypes, WatchTypes, LockType, CallType,
     CountType, RegisterTunnel, KillAndForget, Release, Finish, Unheld, Quiet,
     NoTunnel, Located, CallRecords
<1>9. CreateOwns'
  BY <1>7, TunnelAssumption DEF EntryType, GroupTypes, WatchTypes, LockType, CallType,
     CountType, RegisterTunnel, KillAndForget, Release, Finish, Unheld, Quiet,
     NoTunnel, CreateOwns, Alive, CallRecords
<1>10. StopOwns'
  BY <1>7, TunnelAssumption DEF EntryType, GroupTypes, WatchTypes, LockType, CallType,
     CountType, RegisterTunnel, KillAndForget, Release, Finish, Unheld, Quiet,
     NoTunnel, StopOwns, CallRecords
<1>11. StopConfirms'
  BY <1>7, TunnelAssumption DEF EntryType, GroupTypes, WatchTypes, LockType, CallType,
     CountType, RegisterTunnel, KillAndForget, Release, Finish, Unheld, Quiet,
     NoTunnel, StopConfirms, Alive, Cleaning, Located, CreateOwns, StopOwns,
     CallRecords
<1>12. Registered'
  BY <1>7, TunnelAssumption DEF EntryType, GroupTypes, WatchTypes, LockType, CallType,
     CountType, RegisterTunnel, KillAndForget, Release, Finish, Unheld, Quiet,
     NoTunnel, Registered, Alive, Creating, Cleaning, CallRecords
<1>13. Unlisted'
  BY <1>7, TunnelAssumption DEF EntryType, GroupTypes, WatchTypes, LockType, CallType,
     CountType, RegisterTunnel, KillAndForget, Release, Finish, Unheld, Quiet,
     NoTunnel, Unlisted, Alive, Cleaning, Located, CreateOwns, StopOwns, CallRecords
<1>14. Recorded'
  BY <1>7, TunnelAssumption DEF EntryType, GroupTypes, WatchTypes, LockType, CallType,
     CountType, RegisterTunnel, KillAndForget, Release, Finish, Unheld, Quiet,
     NoTunnel, Recorded, Marking, Located, CreateOwns, Alive, StopOwns, CallRecords
<1> QED BY <1>7, <1>8, <1>9, <1>10, <1>11, <1>12, <1>13, <1>14

LEMMA StopKeeps ==
  ASSUME TunnelTypes, TunnelInv, NEW c \in Callers, Stop(c)
  PROVE  TunnelTypes' /\ TunnelInv'
<1> USE DEF TunnelTypes, TunnelInv
<1>1. EntryType' /\ GroupTypes' /\ WatchTypes' /\ CountType'
  BY DEF Stop, Go, EntryType, GroupTypes, WatchTypes, CountType
<1>2. LockType'
  BY TunnelAssumption DEF Stop, Unheld, Go, EntryType, GroupTypes, WatchTypes,
     LockType, CallType, CountType
<1>3. CallType'
  BY TunnelAssumption DEF Stop, Unheld, Go, EntryType, GroupTypes, WatchTypes,
     LockType, CallType, CountType, CallRecords, NoTunnel, Located
<1>4. TunnelTypes'
  BY <1>1, <1>2, <1>3
<1>5. Unlisted'
  BY DEF Stop, Go, Unlisted, Alive
<1>6. Located'
  BY <1>4, TunnelAssumption DEF EntryType, GroupTypes, WatchTypes, LockType, CallType,
     CountType, Stop, Unheld, Go, Located, CallRecords
<1>7. CreateOwns'
  BY <1>4, TunnelAssumption DEF EntryType, GroupTypes, WatchTypes, LockType, CallType,
     CountType, Stop, Unheld, Go, CreateOwns, Alive, CallRecords
<1>8. StopOwns'
  BY <1>4, TunnelAssumption DEF EntryType, GroupTypes, WatchTypes, LockType, CallType,
     CountType, Stop, Unheld, Go, StopOwns, CallRecords
<1>9. StopConfirms'
  BY <1>4, TunnelAssumption DEF EntryType, GroupTypes, WatchTypes, LockType, CallType,
     CountType, Stop, Unheld, Go, StopConfirms, Alive, Cleaning, Located, CreateOwns,
     StopOwns, Registered, Creating, Unlisted, CallRecords
<1>10. Registered'
  BY <1>4, TunnelAssumption DEF EntryType, GroupTypes, WatchTypes, LockType, CallType,
     CountType, Stop, Unheld, Go, Registered, Alive, Creating, Cleaning, CallRecords
<1>11. Recorded'
  BY <1>4, TunnelAssumption DEF EntryType, GroupTypes, WatchTypes, LockType, CallType,
     CountType, Stop, Unheld, Go, Recorded, Marking, CallRecords
<1> QED BY <1>4, <1>5, <1>6, <1>7, <1>8, <1>9, <1>10, <1>11

LEMMA SignalTunnelKeeps ==
  ASSUME TunnelTypes, TunnelInv, NEW c \in Callers, SignalTunnel(c)
  PROVE  TunnelTypes' /\ TunnelInv'
<1> USE DEF TunnelTypes, TunnelInv
<1>1. EntryType' /\ WatchTypes' /\ CountType'
  BY DEF SignalTunnel, Release, Finish, KillGroup, Go, EntryType, WatchTypes,
     CountType
<1>2. GroupTypes'
  BY TunnelAssumption DEF SignalTunnel, Release, Finish, KillGroup, Go, Unheld, Quiet,
     Killed, NoTunnel, EntryType, GroupTypes, WatchTypes, LockType, CallType,
     CountType
<1>3. LockType'
  BY TunnelAssumption DEF SignalTunnel, Release, Finish, KillGroup, Go, Unheld, Quiet,
     Killed, NoTunnel, EntryType, GroupTypes, WatchTypes, LockType, CallType,
     CountType
<1>4. CallType'
  BY TunnelAssumption DEF SignalTunnel, Release, Finish, KillGroup, Go, Unheld, Quiet,
     Killed, NoTunnel, EntryType, GroupTypes, WatchTypes, LockType, CallType,
     CountType, CallRecords, Located
<1>5. TunnelTypes'
  BY <1>1, <1>2, <1>3, <1>4
<1>6. Located'
  BY <1>5, TunnelAssumption DEF EntryType, GroupTypes, WatchTypes, LockType, CallType,
     CountType, SignalTunnel, Release, Finish, KillGroup, Go, Unheld, Quiet, Killed,
     NoTunnel, Located, CallRecords
<1>7. CreateOwns'
  BY <1>5, TunnelAssumption DEF EntryType, GroupTypes, WatchTypes, LockType, CallType,
     CountType, SignalTunnel, Release, Finish, KillGroup, Go, Unheld, Quiet, Killed,
     NoTunnel, CreateOwns, Alive, Located, CallRecords
<1>8. StopOwns'
  BY <1>5, TunnelAssumption DEF EntryType, GroupTypes, WatchTypes, LockType, CallType,
     CountType, SignalTunnel, Release, Finish, KillGroup, Go, Unheld, Quiet, Killed,
     NoTunnel, StopOwns, CallRecords
<1>9. StopConfirms'
  BY <1>5, TunnelAssumption DEF EntryType, GroupTypes, WatchTypes, LockType, CallType,
     CountType, SignalTunnel, Release, Finish, KillGroup, Go, Unheld, Quiet, Killed,
     NoTunnel, StopConfirms, Alive, Cleaning, Located, CallRecords
<1>10. Registered'
  BY <1>5, TunnelAssumption DEF EntryType, GroupTypes, WatchTypes, LockType, CallType,
     CountType, SignalTunnel, Release, Finish, KillGroup, Go, Unheld, Quiet, Killed,
     NoTunnel, Registered, Alive, Creating, Cleaning, CallRecords
<1>11. Unlisted'
  BY <1>5, TunnelAssumption DEF EntryType, GroupTypes, WatchTypes, LockType, CallType,
     CountType, SignalTunnel, Release, Finish, KillGroup, Go, Unheld, Quiet, Killed,
     NoTunnel, Unlisted, Alive, Cleaning, CallRecords
<1>12. Recorded'
  BY <1>5, TunnelAssumption DEF EntryType, GroupTypes, WatchTypes, LockType, CallType,
     CountType, SignalTunnel, Release, Finish, KillGroup, Go, Unheld, Quiet, Killed,
     NoTunnel, Recorded, Marking, CallRecords
<1> QED BY <1>5, <1>6, <1>7, <1>8, <1>9, <1>10, <1>11, <1>12

LEMMA ConfirmStopKeeps ==
  ASSUME TunnelTypes, TunnelInv, NEW c \in Callers, ConfirmStop(c)
  PROVE  TunnelTypes' /\ TunnelInv'
<1> USE DEF TunnelTypes, TunnelInv
<1>1. EntryType' /\ WatchTypes' /\ CountType'
  BY DEF ConfirmStop, Go, Release, Finish, EntryType, WatchTypes, CountType
<1>2. GroupTypes'
  BY TunnelAssumption DEF ConfirmStop, Go, Release, Finish, Unheld, Quiet, NoTunnel,
     EntryType, GroupTypes, WatchTypes, LockType, CallType, CountType
<1>3. LockType'
  BY TunnelAssumption DEF ConfirmStop, Go, Release, Finish, Unheld, Quiet, NoTunnel,
     EntryType, GroupTypes, WatchTypes, LockType, CallType, CountType
<1>4. CallType'
  BY TunnelAssumption DEF ConfirmStop, Go, Release, Finish, Unheld, Quiet, NoTunnel,
     EntryType, GroupTypes, WatchTypes, LockType, CallType, CountType, CallRecords,
     Located
<1>5. TunnelTypes'
  BY <1>1, <1>2, <1>3, <1>4
<1>6. Unlisted'
  BY DEF ConfirmStop, Go, Release, Finish, Unlisted, Alive
<1>7. Located'
  BY <1>5, TunnelAssumption DEF EntryType, GroupTypes, WatchTypes, LockType, CallType,
     CountType, ConfirmStop, Go, Release, Finish, Unheld, Quiet, NoTunnel, Located,
     CallRecords
<1>8. CreateOwns'
  BY <1>5, TunnelAssumption DEF EntryType, GroupTypes, WatchTypes, LockType, CallType,
     CountType, ConfirmStop, Go, Release, Finish, Unheld, Quiet, NoTunnel, CreateOwns,
     Alive, CallRecords
<1>9. StopOwns'
  BY <1>5, TunnelAssumption DEF EntryType, GroupTypes, WatchTypes, LockType, CallType,
     CountType, ConfirmStop, Go, Release, Finish, Unheld, Quiet, NoTunnel, StopOwns,
     CallRecords
<1>10. StopConfirms'
  BY <1>5, TunnelAssumption DEF EntryType, GroupTypes, WatchTypes, LockType, CallType,
     CountType, ConfirmStop, Go, Release, Finish, Unheld, Quiet, NoTunnel,
     StopConfirms, Alive, Cleaning, CallRecords
<1>11. Registered'
  BY <1>5, TunnelAssumption DEF EntryType, GroupTypes, WatchTypes, LockType, CallType,
     CountType, ConfirmStop, Go, Release, Finish, Unheld, Quiet, NoTunnel, Registered,
     Alive, Creating, Cleaning, Located, CreateOwns, StopOwns, StopConfirms,
     CallRecords
<1>12. Recorded'
  BY <1>5, TunnelAssumption DEF EntryType, GroupTypes, WatchTypes, LockType, CallType,
     CountType, ConfirmStop, Go, Release, Finish, Unheld, Quiet, NoTunnel, Recorded,
     Marking, CallRecords
<1> QED BY <1>5, <1>6, <1>7, <1>8, <1>9, <1>10, <1>11, <1>12

LEMMA MarkStoppedKeeps ==
  ASSUME TunnelTypes, TunnelInv, NEW c \in Callers, MarkStopped(c)
  PROVE  TunnelTypes' /\ TunnelInv'
<1> USE DEF TunnelTypes, TunnelInv
<1>1. GroupTypes' /\ WatchTypes' /\ CountType'
  BY DEF MarkStopped, Release, Go, Finish, GroupTypes, WatchTypes, CountType
<1>2. EntryType'
  BY TunnelAssumption DEF MarkStopped, Release, Go, Finish, Unheld, Quiet, NoTunnel,
     EntryType, GroupTypes, WatchTypes, LockType, CallType, CountType, Statuses
<1>3. LockType'
  BY TunnelAssumption DEF MarkStopped, Release, Go, Finish, Unheld, Quiet, NoTunnel,
     EntryType, GroupTypes, WatchTypes, LockType, CallType, CountType
<1>4. CallType'
  BY TunnelAssumption DEF MarkStopped, Release, Go, Finish, Unheld, Quiet, NoTunnel,
     EntryType, GroupTypes, WatchTypes, LockType, CallType, CountType, CallRecords,
     Located
<1>5. TunnelTypes'
  BY <1>1, <1>2, <1>3, <1>4
<1>6. Located'
  BY <1>5, TunnelAssumption DEF EntryType, GroupTypes, WatchTypes, LockType, CallType,
     CountType, MarkStopped, Release, Go, Finish, Unheld, Quiet, NoTunnel, Located,
     CallRecords
<1>7. CreateOwns'
  BY <1>5, TunnelAssumption DEF EntryType, GroupTypes, WatchTypes, LockType, CallType,
     CountType, MarkStopped, Release, Go, Finish, Unheld, Quiet, NoTunnel, CreateOwns,
     Alive, Located, StopOwns, CallRecords
<1>8. StopOwns'
  BY <1>5, TunnelAssumption DEF EntryType, GroupTypes, WatchTypes, LockType, CallType,
     CountType, MarkStopped, Release, Go, Finish, Unheld, Quiet, NoTunnel, StopOwns,
     CallRecords
<1>9. StopConfirms'
  BY <1>5, TunnelAssumption DEF EntryType, GroupTypes, WatchTypes, LockType, CallType,
     CountType, MarkStopped, Release, Go, Finish, Unheld, Quiet, NoTunnel,
     StopConfirms, Alive, Cleaning, Located, CallRecords
<1>10. Registered'
  BY <1>5, TunnelAssumption DEF EntryType, GroupTypes, WatchTypes, LockType, CallType,
     CountType, MarkStopped, Release, Go, Finish, Unheld, Quiet, NoTunnel, Registered,
     Alive, Creating, Cleaning, CallRecords
<1>11. Unlisted'
  BY <1>5, TunnelAssumption DEF EntryType, GroupTypes, WatchTypes, LockType, CallType,
     CountType, MarkStopped, Release, Go, Finish, Unheld, Quiet, NoTunnel, Unlisted,
     Alive, Cleaning, Located, CreateOwns, StopOwns, StopConfirms, CallRecords
<1>12. Recorded'
  BY <1>5, TunnelAssumption DEF EntryType, GroupTypes, WatchTypes, LockType, CallType,
     CountType, MarkStopped, Release, Go, Finish, Unheld, Quiet, NoTunnel, Recorded,
     Marking, CallRecords
<1> QED BY <1>5, <1>6, <1>7, <1>8, <1>9, <1>10, <1>11, <1>12

LEMMA RemoveTunnelKeeps ==
  ASSUME TunnelTypes, TunnelInv, NEW c \in Callers, RemoveTunnel(c)
  PROVE  TunnelTypes' /\ TunnelInv'
<1> USE DEF TunnelTypes, TunnelInv
<1>1. WatchTypes' /\ LockType' /\ CountType'
  BY DEF RemoveTunnel, Finish, WatchTypes, LockType, CountType
<1>2. EntryType'
  BY TunnelAssumption DEF RemoveTunnel, Finish, Quiet, NoTunnel, EntryType,
     GroupTypes, WatchTypes, LockType, CallType, CountType, Statuses
<1>3. GroupTypes'
  BY TunnelAssumption DEF RemoveTunnel, Finish, Quiet, NoTunnel, EntryType,
     GroupTypes, WatchTypes, LockType, CallType, CountType
<1>4. CallType'
  BY TunnelAssumption DEF RemoveTunnel, Finish, Quiet, NoTunnel, EntryType,
     GroupTypes, WatchTypes, LockType, CallType, CountType, CallRecords, Located
<1>5. TunnelTypes'
  BY <1>1, <1>2, <1>3, <1>4
<1>6. Located'
  BY <1>5, TunnelAssumption DEF EntryType, GroupTypes, WatchTypes, LockType, CallType,
     CountType, RemoveTunnel, Finish, Quiet, NoTunnel, Located, CallRecords
<1>7. CreateOwns'
  BY <1>5, TunnelAssumption DEF EntryType, GroupTypes, WatchTypes, LockType, CallType,
     CountType, RemoveTunnel, Finish, Quiet, NoTunnel, CreateOwns, Alive, Located,
     StopOwns, StopConfirms, Cleaning, CallRecords
<1>8. StopOwns'
  BY <1>5, TunnelAssumption DEF EntryType, GroupTypes, WatchTypes, LockType, CallType,
     CountType, RemoveTunnel, Finish, Quiet, NoTunnel, StopOwns, CallRecords
<1>9. StopConfirms'
  BY <1>5, TunnelAssumption DEF EntryType, GroupTypes, WatchTypes, LockType, CallType,
     CountType, RemoveTunnel, Finish, Quiet, NoTunnel, StopConfirms, Alive, Cleaning,
     CallRecords
<1>10. Registered'
  BY <1>5, TunnelAssumption DEF EntryType, GroupTypes, WatchTypes, LockType, CallType,
     CountType, RemoveTunnel, Finish, Quiet, NoTunnel, Registered, Alive, Creating,
     Cleaning, Located, CreateOwns, StopOwns, StopConfirms, CallRecords
<1>11. Unlisted'
  BY <1>5, TunnelAssumption DEF EntryType, GroupTypes, WatchTypes, LockType, CallType,
     CountType, RemoveTunnel, Finish, Quiet, NoTunnel, Unlisted, Alive, Cleaning,
     Located, CreateOwns, StopOwns, StopConfirms, CallRecords
<1>12. Recorded'
  BY <1>5, TunnelAssumption DEF EntryType, GroupTypes, WatchTypes, LockType, CallType,
     CountType, RemoveTunnel, Finish, Quiet, NoTunnel, Recorded, Marking, CallRecords
<1> QED BY <1>5, <1>6, <1>7, <1>8, <1>9, <1>10, <1>11, <1>12

LEMMA DisconnectKeeps ==
  ASSUME TunnelTypes, TunnelInv, NEW c \in Callers, Disconnect(c)
  PROVE  TunnelTypes' /\ TunnelInv'
<1> USE DEF TunnelTypes, TunnelInv
<1>1. EntryType' /\ WatchTypes' /\ CountType'
  BY DEF Disconnect, KillAndForget, Release, Finish, EntryType, WatchTypes, CountType
<1>2. GroupTypes'
  BY TunnelAssumption DEF Disconnect, KillAndForget, Release, Finish, Unheld, Quiet,
     NoTunnel, EntryType, GroupTypes, WatchTypes, LockType, CallType, CountType
<1>3. LockType'
  BY TunnelAssumption DEF Disconnect, KillAndForget, Release, Finish, Unheld, Quiet,
     NoTunnel, EntryType, GroupTypes, WatchTypes, LockType, CallType, CountType
<1>4. CallType'
  BY TunnelAssumption DEF Disconnect, KillAndForget, Release, Finish, Unheld, Quiet,
     NoTunnel, EntryType, GroupTypes, WatchTypes, LockType, CallType, CountType,
     CallRecords, Located
<1>5. TunnelTypes'
  BY <1>1, <1>2, <1>3, <1>4
<1>6. Located'
  BY <1>5, TunnelAssumption DEF EntryType, GroupTypes, WatchTypes, LockType, CallType,
     CountType, Disconnect, KillAndForget, Release, Finish, Unheld, Quiet, NoTunnel,
     Located, CallRecords
<1>7. CreateOwns'
  BY <1>5, TunnelAssumption DEF EntryType, GroupTypes, WatchTypes, LockType, CallType,
     CountType, Disconnect, KillAndForget, Release, Finish, Unheld, Quiet, NoTunnel,
     CreateOwns, Alive, CallRecords
<1>8. StopOwns'
  BY <1>5, TunnelAssumption DEF EntryType, GroupTypes, WatchTypes, LockType, CallType,
     CountType, Disconnect, KillAndForget, Release, Finish, Unheld, Quiet, NoTunnel,
     StopOwns, CallRecords
<1>9. StopConfirms'
  BY <1>5, TunnelAssumption DEF EntryType, GroupTypes, WatchTypes, LockType, CallType,
     CountType, Disconnect, KillAndForget, Release, Finish, Unheld, Quiet, NoTunnel,
     StopConfirms, Alive, Cleaning, Located, CallRecords
<1>10. Registered'
  BY <1>5, TunnelAssumption DEF EntryType, GroupTypes, WatchTypes, LockType, CallType,
     CountType, Disconnect, KillAndForget, Release, Finish, Unheld, Quiet, NoTunnel,
     Registered, Alive, Creating, Cleaning, CallRecords
<1>11. Unlisted'
  BY <1>5, TunnelAssumption DEF EntryType, GroupTypes, WatchTypes, LockType, CallType,
     CountType, Disconnect, KillAndForget, Release, Finish, Unheld, Quiet, NoTunnel,
     Unlisted, Alive, Cleaning, CallRecords
<1>12. Recorded'
  BY <1>5, TunnelAssumption DEF EntryType, GroupTypes, WatchTypes, LockType, CallType,
     CountType, Disconnect, KillAndForget, Release, Finish, Unheld, Quiet, NoTunnel,
     Recorded, Marking, CallRecords
<1> QED BY <1>5, <1>6, <1>7, <1>8, <1>9, <1>10, <1>11, <1>12

LEMMA WatchOutputKeeps ==
  ASSUME TunnelTypes, TunnelInv, NEW t \in Tunnels, WatchOutput(t)
  PROVE  TunnelTypes' /\ TunnelInv'
<1> USE DEF TunnelTypes, TunnelInv
<1>1. EntryType' /\ GroupTypes' /\ LockType' /\ CallType' /\ CountType'
  BY DEF WatchOutput, EntryType, GroupTypes, LockType, CallType, CountType
<1>2. WatchTypes'
  BY TunnelAssumption DEF WatchOutput, Alive, EntryType, GroupTypes, WatchTypes,
     LockType, CallType, CountType, WatchStages, Cleaning
<1>3. TunnelTypes'
  BY <1>1, <1>2
<1>4. Located' /\ StopOwns'
  BY DEF WatchOutput, Located, StopOwns
<1>5. CreateOwns'
  BY <1>3, TunnelAssumption DEF EntryType, GroupTypes, WatchTypes, LockType, CallType,
     CountType, WatchOutput, Alive, CreateOwns, Located, CallRecords
<1>6. StopConfirms'
  BY <1>3, TunnelAssumption DEF EntryType, GroupTypes, WatchTypes, LockType, CallType,
     CountType, WatchOutput, Alive, StopConfirms, Cleaning, Located, CallRecords
<1>7. Registered'
  BY <1>3, TunnelAssumption DEF EntryType, GroupTypes, WatchTypes, LockType, CallType,
     CountType, WatchOutput, Alive, Registered, Creating, Cleaning, CallRecords
<1>8. Unlisted'
  BY <1>3, TunnelAssumption DEF EntryType, GroupTypes, WatchTypes, LockType, CallType,
     CountType, WatchOutput, Alive, Unlisted, Cleaning, CallRecords
<1>9. Recorded'
  BY <1>3, TunnelAssumption DEF EntryType, GroupTypes, WatchTypes, LockType, CallType,
     CountType, WatchOutput, Alive, Recorded, Marking, CallRecords
<1> QED BY <1>3, <1>4, <1>5, <1>6, <1>7, <1>8, <1>9

LEMMA FoundUrlKeeps ==
  ASSUME TunnelTypes, TunnelInv, NEW t \in Tunnels, FoundUrl(t)
  PROVE  TunnelTypes' /\ TunnelInv'
<1> USE DEF TunnelTypes, TunnelInv
<1>1. EntryType' /\ GroupTypes' /\ LockType' /\ CallType' /\ CountType'
  BY DEF FoundUrl, EntryType, GroupTypes, LockType, CallType, CountType
<1>2. WatchTypes'
  BY TunnelAssumption DEF FoundUrl, EntryType, GroupTypes, WatchTypes, LockType,
     CallType, CountType, WatchStages, Cleaning
<1>3. TunnelTypes'
  BY <1>1, <1>2
<1>4. Located' /\ StopOwns'
  BY DEF FoundUrl, Located, StopOwns
<1>5. CreateOwns'
  BY <1>3, TunnelAssumption DEF EntryType, GroupTypes, WatchTypes, LockType, CallType,
     CountType, FoundUrl, CreateOwns, Alive, CallRecords
<1>6. StopConfirms'
  BY <1>3, TunnelAssumption DEF EntryType, GroupTypes, WatchTypes, LockType, CallType,
     CountType, FoundUrl, StopConfirms, Alive, Cleaning, CallRecords
<1>7. Registered'
  BY <1>3, TunnelAssumption DEF EntryType, GroupTypes, WatchTypes, LockType, CallType,
     CountType, FoundUrl, Registered, Alive, Creating, Cleaning, CallRecords
<1>8. Unlisted'
  BY <1>3, TunnelAssumption DEF EntryType, GroupTypes, WatchTypes, LockType, CallType,
     CountType, FoundUrl, Unlisted, Alive, Cleaning, CallRecords
<1>9. Recorded'
  BY <1>3, TunnelAssumption DEF EntryType, GroupTypes, WatchTypes, LockType, CallType,
     CountType, FoundUrl, Recorded, Marking, CallRecords
<1> QED BY <1>3, <1>4, <1>5, <1>6, <1>7, <1>8, <1>9

LEMMA ActivateKeeps ==
  ASSUME TunnelTypes, TunnelInv, NEW t \in Tunnels, Activate(t)
  PROVE  TunnelTypes' /\ TunnelInv'
<1> USE DEF TunnelTypes, TunnelInv
<1>1. GroupTypes' /\ LockType' /\ CallType' /\ CountType'
  BY DEF Activate, GroupTypes, LockType, CallType, CountType
<1>2. EntryType'
  BY TunnelAssumption DEF Activate, EntryType, GroupTypes, WatchTypes, LockType,
     CallType, CountType, Statuses
<1>3. WatchTypes'
  BY TunnelAssumption DEF Activate, EntryType, GroupTypes, WatchTypes, LockType,
     CallType, CountType, WatchStages, Cleaning
<1>4. TunnelTypes'
  BY <1>1, <1>2, <1>3
<1>5. Located' /\ StopOwns'
  BY DEF Activate, Located, StopOwns
<1>6. CreateOwns'
  BY <1>4, TunnelAssumption DEF EntryType, GroupTypes, WatchTypes, LockType, CallType,
     CountType, Activate, CreateOwns, Alive, CallRecords
<1>7. StopConfirms'
  BY <1>4, TunnelAssumption DEF EntryType, GroupTypes, WatchTypes, LockType, CallType,
     CountType, Activate, StopConfirms, Alive, Cleaning, CallRecords
<1>8. Registered'
  BY <1>4, TunnelAssumption DEF EntryType, GroupTypes, WatchTypes, LockType, CallType,
     CountType, Activate, Registered, Alive, Creating, Cleaning, CallRecords
<1>9. Unlisted'
  BY <1>4, TunnelAssumption DEF EntryType, GroupTypes, WatchTypes, LockType, CallType,
     CountType, Activate, Unlisted, Alive, Cleaning, CallRecords
<1>10. Recorded'
  BY <1>4, TunnelAssumption DEF EntryType, GroupTypes, WatchTypes, LockType, CallType,
     CountType, Activate, Recorded, Marking, CallRecords
<1> QED BY <1>4, <1>5, <1>6, <1>7, <1>8, <1>9, <1>10

LEMMA GiveUpKeeps ==
  ASSUME TunnelTypes, TunnelInv, NEW t \in Tunnels, GiveUp(t)
  PROVE  TunnelTypes' /\ TunnelInv'
<1> USE DEF TunnelTypes, TunnelInv
<1>1. EntryType' /\ LockType' /\ CallType' /\ CountType'
  BY DEF GiveUp, EntryType, LockType, CallType, CountType
<1>2. GroupTypes'
  BY TunnelAssumption DEF GiveUp, EntryType, GroupTypes, WatchTypes, LockType,
     CallType, CountType
<1>3. WatchTypes'
  BY TunnelAssumption DEF GiveUp, EntryType, GroupTypes, WatchTypes, LockType,
     CallType, CountType, WatchStages, Cleaning
<1>4. TunnelTypes'
  BY <1>1, <1>2, <1>3
<1>5. Located' /\ StopOwns'
  BY DEF GiveUp, Located, StopOwns
<1>6. CreateOwns'
  BY <1>4, TunnelAssumption DEF EntryType, GroupTypes, WatchTypes, LockType, CallType,
     CountType, GiveUp, CreateOwns, Alive, CallRecords
<1>7. StopConfirms'
  BY <1>4, TunnelAssumption DEF EntryType, GroupTypes, WatchTypes, LockType, CallType,
     CountType, GiveUp, StopConfirms, Alive, Cleaning, CallRecords
<1>8. Registered'
  BY <1>4, TunnelAssumption DEF EntryType, GroupTypes, WatchTypes, LockType, CallType,
     CountType, GiveUp, Registered, Alive, Creating, Cleaning, CallRecords
<1>9. Unlisted'
  BY <1>4, TunnelAssumption DEF EntryType, GroupTypes, WatchTypes, LockType, CallType,
     CountType, GiveUp, Unlisted, Alive, Cleaning, CallRecords
<1>10. Recorded'
  BY <1>4, TunnelAssumption DEF EntryType, GroupTypes, WatchTypes, LockType, CallType,
     CountType, GiveUp, Recorded, Marking, CallRecords
<1> QED BY <1>4, <1>5, <1>6, <1>7, <1>8, <1>9, <1>10

LEMMA ReapTunnelKeeps ==
  ASSUME TunnelTypes, TunnelInv, NEW t \in Tunnels, ReapTunnel(t)
  PROVE  TunnelTypes' /\ TunnelInv'
<1> USE DEF TunnelTypes, TunnelInv
<1>1. EntryType' /\ LockType' /\ CallType' /\ CountType'
  BY DEF ReapTunnel, EntryType, LockType, CallType, CountType
<1>2. GroupTypes'
  BY TunnelAssumption DEF ReapTunnel, EntryType, GroupTypes, WatchTypes, LockType,
     CallType, CountType
<1>3. WatchTypes'
  BY TunnelAssumption DEF ReapTunnel, EntryType, GroupTypes, WatchTypes, LockType,
     CallType, CountType, WatchStages, Cleaning
<1>4. TunnelTypes'
  BY <1>1, <1>2, <1>3
<1>5. Located' /\ StopOwns'
  BY DEF ReapTunnel, Located, StopOwns
<1>6. CreateOwns'
  BY <1>4, TunnelAssumption DEF EntryType, GroupTypes, WatchTypes, LockType, CallType,
     CountType, ReapTunnel, CreateOwns, Alive, CallRecords
<1>7. StopConfirms'
  BY <1>4, TunnelAssumption DEF EntryType, GroupTypes, WatchTypes, LockType, CallType,
     CountType, ReapTunnel, StopConfirms, Alive, Cleaning, CallRecords
<1>8. Registered'
  BY <1>4, TunnelAssumption DEF EntryType, GroupTypes, WatchTypes, LockType, CallType,
     CountType, ReapTunnel, Registered, Alive, Creating, Cleaning, CallRecords
<1>9. Unlisted'
  BY <1>4, TunnelAssumption DEF EntryType, GroupTypes, WatchTypes, LockType, CallType,
     CountType, ReapTunnel, Unlisted, Alive, Cleaning, CallRecords
<1>10. Recorded'
  BY <1>4, TunnelAssumption DEF EntryType, GroupTypes, WatchTypes, LockType, CallType,
     CountType, ReapTunnel, Recorded, Marking, CallRecords
<1> QED BY <1>4, <1>5, <1>6, <1>7, <1>8, <1>9, <1>10

LEMMA UnregisterKeeps ==
  ASSUME TunnelTypes, TunnelInv, NEW t \in Tunnels, Unregister(t)
  PROVE  TunnelTypes' /\ TunnelInv'
<1> USE DEF TunnelTypes, TunnelInv
<1>1. EntryType' /\ LockType' /\ CallType' /\ CountType'
  BY DEF Unregister, EntryType, LockType, CallType, CountType
<1>2. GroupTypes'
  BY TunnelAssumption DEF Unregister, EntryType, GroupTypes, WatchTypes, LockType,
     CallType, CountType
<1>3. WatchTypes'
  BY TunnelAssumption DEF Unregister, EntryType, GroupTypes, WatchTypes, LockType,
     CallType, CountType, WatchStages, Cleaning
<1>4. TunnelTypes'
  BY <1>1, <1>2, <1>3
<1>5. Located' /\ StopOwns'
  BY DEF Unregister, Located, StopOwns
<1>6. CreateOwns'
  BY <1>4, TunnelAssumption DEF EntryType, GroupTypes, WatchTypes, LockType, CallType,
     CountType, Unregister, CreateOwns, Alive, CallRecords
<1>7. StopConfirms'
  BY <1>4, TunnelAssumption DEF EntryType, GroupTypes, WatchTypes, LockType, CallType,
     CountType, Unregister, StopConfirms, Alive, Cleaning, CallRecords
<1>8. Registered'
  BY <1>4, TunnelAssumption DEF EntryType, GroupTypes, WatchTypes, LockType, CallType,
     CountType, Unregister, Registered, Alive, Creating, Cleaning, CallRecords
<1>9. Unlisted'
  BY <1>4, TunnelAssumption DEF EntryType, GroupTypes, WatchTypes, LockType, CallType,
     CountType, Unregister, Unlisted, Alive, Cleaning, CallRecords
<1>10. Recorded'
  BY <1>4, TunnelAssumption DEF EntryType, GroupTypes, WatchTypes, LockType, CallType,
     CountType, Unregister, Recorded, Marking, CallRecords
<1> QED BY <1>4, <1>5, <1>6, <1>7, <1>8, <1>9, <1>10

LEMMA MarkFailedKeeps ==
  ASSUME TunnelTypes, TunnelInv, NEW t \in Tunnels, MarkFailed(t)
  PROVE  TunnelTypes' /\ TunnelInv'
<1> USE DEF TunnelTypes, TunnelInv
<1>1. GroupTypes' /\ LockType' /\ CallType' /\ CountType'
  BY DEF MarkFailed, GroupTypes, LockType, CallType, CountType
<1>2. EntryType'
  BY TunnelAssumption DEF MarkFailed, EntryType, GroupTypes, WatchTypes, LockType,
     CallType, CountType, Statuses
<1>3. WatchTypes'
  BY TunnelAssumption DEF MarkFailed, EntryType, GroupTypes, WatchTypes, LockType,
     CallType, CountType, WatchStages, Cleaning
<1>4. TunnelTypes'
  BY <1>1, <1>2, <1>3
<1>5. Located' /\ StopOwns'
  BY DEF MarkFailed, Located, StopOwns
<1>6. CreateOwns'
  BY <1>4, TunnelAssumption DEF EntryType, GroupTypes, WatchTypes, LockType, CallType,
     CountType, MarkFailed, CreateOwns, Alive, Located, CallRecords
<1>7. StopConfirms'
  BY <1>4, TunnelAssumption DEF EntryType, GroupTypes, WatchTypes, LockType, CallType,
     CountType, MarkFailed, StopConfirms, Alive, Cleaning, Located, CallRecords
<1>8. Registered'
  BY <1>4, TunnelAssumption DEF EntryType, GroupTypes, WatchTypes, LockType, CallType,
     CountType, MarkFailed, Registered, Alive, Creating, Cleaning, CallRecords
<1>9. Unlisted'
  BY <1>4, TunnelAssumption DEF EntryType, GroupTypes, WatchTypes, LockType, CallType,
     CountType, MarkFailed, Unlisted, Alive, Cleaning, CallRecords
<1>10. Recorded'
  BY <1>4, TunnelAssumption DEF EntryType, GroupTypes, WatchTypes, LockType, CallType,
     CountType, MarkFailed, Recorded, Marking, CallRecords
<1> QED BY <1>4, <1>5, <1>6, <1>7, <1>8, <1>9, <1>10

LEMMA DropTunnelTreeKeeps ==
  ASSUME TunnelTypes, TunnelInv, NEW t \in Tunnels, DropTunnelTree(t)
  PROVE  TunnelTypes' /\ TunnelInv'
<1> USE DEF TunnelTypes, TunnelInv
<1>1. EntryType' /\ LockType' /\ CallType' /\ CountType'
  BY DEF DropTunnelTree, KillGroup, EntryType, LockType, CallType, CountType
<1>2. GroupTypes'
  BY TunnelAssumption DEF DropTunnelTree, KillGroup, Killed, EntryType, GroupTypes,
     WatchTypes, LockType, CallType, CountType
<1>3. WatchTypes'
  BY TunnelAssumption DEF DropTunnelTree, KillGroup, Killed, EntryType, GroupTypes,
     WatchTypes, LockType, CallType, CountType, WatchStages, Cleaning
<1>4. TunnelTypes'
  BY <1>1, <1>2, <1>3
<1>5. Located' /\ StopOwns'
  BY DEF DropTunnelTree, KillGroup, Located, StopOwns
<1>6. CreateOwns'
  BY <1>4, TunnelAssumption DEF EntryType, GroupTypes, WatchTypes, LockType, CallType,
     CountType, DropTunnelTree, KillGroup, Killed, CreateOwns, Alive, CallRecords
<1>7. StopConfirms'
  BY <1>4, TunnelAssumption DEF EntryType, GroupTypes, WatchTypes, LockType, CallType,
     CountType, DropTunnelTree, KillGroup, Killed, StopConfirms, Alive, Cleaning,
     CallRecords
<1>8. Registered'
  BY <1>4, TunnelAssumption DEF EntryType, GroupTypes, WatchTypes, LockType, CallType,
     CountType, DropTunnelTree, KillGroup, Killed, Registered, Alive, Creating,
     Cleaning, CallRecords
<1>9. Unlisted'
  BY <1>4, TunnelAssumption DEF EntryType, GroupTypes, WatchTypes, LockType, CallType,
     CountType, DropTunnelTree, KillGroup, Killed, Unlisted, Alive, Cleaning,
     CallRecords
<1>10. Recorded'
  BY <1>4, TunnelAssumption DEF EntryType, GroupTypes, WatchTypes, LockType, CallType,
     CountType, DropTunnelTree, KillGroup, Killed, Recorded, Marking, CallRecords
<1> QED BY <1>4, <1>5, <1>6, <1>7, <1>8, <1>9, <1>10

LEMMA ProviderMovesKeeps ==
  ASSUME TunnelTypes, TunnelInv, NEW t \in Tunnels, ProviderMoves(t)
  PROVE  TunnelTypes' /\ TunnelInv'
<1> USE DEF TunnelTypes, TunnelInv
<1>1. EntryType' /\ WatchTypes' /\ LockType' /\ CallType' /\ CountType'
  BY DEF ProviderMoves, EntryType, WatchTypes, LockType, CallType, CountType
<1>2. GroupTypes'
  BY TunnelAssumption DEF ProviderMoves, EntryType, GroupTypes, WatchTypes, LockType,
     CallType, CountType
<1>3. TunnelTypes'
  BY <1>1, <1>2
<1>4. Located' /\ StopOwns' /\ Recorded'
  BY DEF ProviderMoves, Located, StopOwns, Recorded, Marking
<1>5. CreateOwns'
  BY <1>3, TunnelAssumption DEF EntryType, GroupTypes, WatchTypes, LockType, CallType,
     CountType, ProviderMoves, CreateOwns, Alive, Located, CallRecords
<1>6. StopConfirms'
  BY <1>3, TunnelAssumption DEF EntryType, GroupTypes, WatchTypes, LockType, CallType,
     CountType, ProviderMoves, StopConfirms, Alive, Cleaning, Located, CallRecords
<1>7. Registered'
  BY <1>3, TunnelAssumption DEF EntryType, GroupTypes, WatchTypes, LockType, CallType,
     CountType, ProviderMoves, Registered, Alive, Creating, Cleaning, CallRecords
<1>8. Unlisted'
  BY <1>3, TunnelAssumption DEF EntryType, GroupTypes, WatchTypes, LockType, CallType,
     CountType, ProviderMoves, Unlisted, Alive, Cleaning, CallRecords
<1> QED BY <1>3, <1>4, <1>5, <1>6, <1>7, <1>8

LEMMA TunnelInitKeeps == TunnelInit => TunnelTypes /\ TunnelInv
<1>1. SUFFICES ASSUME TunnelInit
               PROVE  TunnelTypes /\ TunnelInv
  OBVIOUS
<1>2. Quiet \in CallRecords /\ Quiet.pc = "idle" /\ Quiet.op = "none"
  BY DEF Quiet, CallRecords
<1>3. TunnelTypes
  BY <1>1, <1>2, TunnelAssumption DEF TunnelInit, TunnelTypes, EntryType, GroupTypes, WatchTypes,
     LockType, CallType, CountType, Statuses, WatchStages
<1> QED BY <1>1, <1>2, <1>3 DEF TunnelInit, TunnelInv, Located, CreateOwns, StopOwns, StopConfirms,
        Registered, Unlisted, Recorded, Alive

LEMMA TunnelStep ==
  TunnelTypes /\ TunnelInv /\ [TunnelNext]_tunnelVars => TunnelTypes' /\ TunnelInv'
<1> SUFFICES ASSUME TunnelTypes, TunnelInv, [TunnelNext]_tunnelVars
             PROVE  TunnelTypes' /\ TunnelInv'
  OBVIOUS
<1>1. ASSUME NEW c \in Callers, Ask(c)
      PROVE  TunnelTypes' /\ TunnelInv'
  BY <1>1, AskKeeps
<1>2. ASSUME NEW c \in Callers, Create(c)
      PROVE  TunnelTypes' /\ TunnelInv'
  BY <1>2, CreateKeeps
<1>3. ASSUME NEW c \in Callers, SpawnTunnel(c)
      PROVE  TunnelTypes' /\ TunnelInv'
  BY <1>3, SpawnTunnelKeeps
<1>4. ASSUME NEW c \in Callers, AttachTunnel(c)
      PROVE  TunnelTypes' /\ TunnelInv'
  BY <1>4, AttachTunnelKeeps
<1>5. ASSUME NEW c \in Callers, RegisterTunnel(c)
      PROVE  TunnelTypes' /\ TunnelInv'
  BY <1>5, RegisterTunnelKeeps
<1>6. ASSUME NEW c \in Callers, Stop(c)
      PROVE  TunnelTypes' /\ TunnelInv'
  BY <1>6, StopKeeps
<1>7. ASSUME NEW c \in Callers, SignalTunnel(c)
      PROVE  TunnelTypes' /\ TunnelInv'
  BY <1>7, SignalTunnelKeeps
<1>8. ASSUME NEW c \in Callers, ConfirmStop(c)
      PROVE  TunnelTypes' /\ TunnelInv'
  BY <1>8, ConfirmStopKeeps
<1>9. ASSUME NEW c \in Callers, MarkStopped(c)
      PROVE  TunnelTypes' /\ TunnelInv'
  BY <1>9, MarkStoppedKeeps
<1>10. ASSUME NEW c \in Callers, RemoveTunnel(c)
      PROVE  TunnelTypes' /\ TunnelInv'
  BY <1>10, RemoveTunnelKeeps
<1>11. ASSUME NEW c \in Callers, Disconnect(c)
      PROVE  TunnelTypes' /\ TunnelInv'
  BY <1>11, DisconnectKeeps
<1>12. ASSUME NEW t \in Tunnels, WatchOutput(t)
      PROVE  TunnelTypes' /\ TunnelInv'
  BY <1>12, WatchOutputKeeps
<1>13. ASSUME NEW t \in Tunnels, FoundUrl(t)
      PROVE  TunnelTypes' /\ TunnelInv'
  BY <1>13, FoundUrlKeeps
<1>14. ASSUME NEW t \in Tunnels, Activate(t)
      PROVE  TunnelTypes' /\ TunnelInv'
  BY <1>14, ActivateKeeps
<1>15. ASSUME NEW t \in Tunnels, GiveUp(t)
      PROVE  TunnelTypes' /\ TunnelInv'
  BY <1>15, GiveUpKeeps
<1>16. ASSUME NEW t \in Tunnels, ReapTunnel(t)
      PROVE  TunnelTypes' /\ TunnelInv'
  BY <1>16, ReapTunnelKeeps
<1>17. ASSUME NEW t \in Tunnels, Unregister(t)
      PROVE  TunnelTypes' /\ TunnelInv'
  BY <1>17, UnregisterKeeps
<1>18. ASSUME NEW t \in Tunnels, MarkFailed(t)
      PROVE  TunnelTypes' /\ TunnelInv'
  BY <1>18, MarkFailedKeeps
<1>19. ASSUME NEW t \in Tunnels, DropTunnelTree(t)
      PROVE  TunnelTypes' /\ TunnelInv'
  BY <1>19, DropTunnelTreeKeeps
<1>20. ASSUME NEW t \in Tunnels, ProviderMoves(t)
      PROVE  TunnelTypes' /\ TunnelInv'
  BY <1>20, ProviderMovesKeeps
<1>21. CASE UNCHANGED tunnelVars
  BY <1>21 DEF tunnelVars, TunnelTypes, TunnelInv, EntryType, GroupTypes, WatchTypes, LockType,
     CallType, CountType, Located, CreateOwns, StopOwns, StopConfirms, Registered, Unlisted,
     Recorded, Alive, Creating, Marking
<1> QED BY <1>1, <1>2, <1>3, <1>4, <1>5, <1>6, <1>7, <1>8, <1>9, <1>10, <1>11, <1>12,
   <1>13, <1>14, <1>15, <1>16, <1>17, <1>18, <1>19, <1>20, <1>21 DEF TunnelNext

(* The inductive invariant of the tunnel manager.                         *)
THEOREM TunnelInvariantHolds == TunnelSpec => [](TunnelTypes /\ TunnelInv)
<1>1. TunnelInit => TunnelTypes /\ TunnelInv
  BY TunnelInitKeeps
<1>2. TunnelTypes /\ TunnelInv /\ [TunnelNext]_tunnelVars => (TunnelTypes /\ TunnelInv)'
  BY TunnelStep
<1> QED BY <1>1, <1>2, PTL DEF TunnelSpec

(* No tunnel runs unseen, and none is reported as what it is not, whatever  *)
(* the number of requests, tunnels and disconnects (create, stop, remove    *)
(* and the watcher task).                                                   *)
THEOREM TunnelsAreAccounted == TunnelSpec => []TunnelsAccounted
<1>1. TunnelTypes /\ TunnelInv => TunnelsAccounted
  BY DEF TunnelInv, Registered, Unlisted, Recorded, TunnelsAccounted, Marking, Cleaning
<1> QED BY <1>1, TunnelInvariantHolds, PTL

-----------------------------------------------------------------------------
(* The children of requests.                                                *)
Stages == {"idle", "upgrade", "attach", "run", "limited", "terminate", "report", "unwind",
           "after"}
JobType == job \in [Requests -> [kind : Kinds \cup {"none"}, pc : Stages]]
TreeType == tree \in [Requests -> [pid : Pids \cup {0}, guard : BOOLEAN, descend : BOOLEAN,
                                   root : {"none", "alive", "zombie", "gone"}]]
SetTypes == held \subseteq Requests /\ terminals \subseteq Requests /\ foreign \subseteq Pids

(* A request holds its gate from its first step to its last.               *)
GateKept ==
  \A r \in Requests :
    /\ r \in held <=> job[r].pc # "idle"
    /\ job[r].pc = "idle" <=> job[r].kind = "none"
    /\ job[r].pc = "upgrade" => job[r].kind = "terminal"
    /\ r \in terminals => job[r].kind = "terminal"

(* A guard is there from the attachment to the end, and before and after   *)
(* that nothing runs but the child about to be attached.                   *)
Guarded ==
  \A r \in Requests :
    /\ tree[r].guard <=> job[r].pc \in {"run", "limited", "terminate", "report", "unwind"}
    /\ job[r].pc \in {"idle", "upgrade", "after"} => ~Running(r)

(* Nobody else gets a PID that is taken.                                   *)
PidsApart == \A r \in Requests : \A p \in foreign : ~Takes(r, p)

(* No gate is exceeded.                                                    *)
Gates == {Gate(k) : k \in Kinds}
GatesKept == \A g \in Gates : Cardinality(Holders(g)) <= Capacity(g)

TreeRecords == [pid : Pids \cup {0}, guard : BOOLEAN, descend : BOOLEAN,
                root : {"none", "alive", "zombie", "gone"}]
ChildTypes == JobType /\ TreeType /\ SetTypes
ChildInv == GateKept /\ Guarded /\ PidsApart /\ ForeignSpared /\ GatesKept

LEMMA HoldersFinite ==
  ASSUME ChildTypes, NEW g
  PROVE  IsFiniteSet(Holders(g)) /\ Cardinality(Holders(g)) \in Nat
<1>1. Holders(g) \subseteq Requests
  BY DEF ChildTypes, SetTypes, Holders
<1> QED BY <1>1, ChildAssumption, FS_Subset, FS_CardinalityType

LEMMA CapacityNat ==
  ASSUME NEW k \in Kinds
  PROVE  Capacity(Gate(k)) \in Nat
<1>1. Cardinality(Requests) \in Nat
  BY ChildAssumption, FS_CardinalityType
<1> QED BY <1>1, ChildAssumption DEF Capacity, Gate, Kinds

(* A request that keeps its kind, or gives its gate back.                  *)
LEMMA GateStays ==
  ASSUME ChildTypes, GatesKept, held' \subseteq held,
         \A s \in held' : job'[s].kind = job[s].kind
  PROVE  GatesKept'
<1>1. SUFFICES ASSUME NEW k \in Kinds
               PROVE  Cardinality(Holders(Gate(k))') <= Capacity(Gate(k))
  BY DEF GatesKept, Gates
<1> DEFINE g == Gate(k)
<1>2. Holders(g)' \subseteq Holders(g)
  BY DEF Holders
<1>3. Cardinality(Holders(g)') <= Cardinality(Holders(g)) /\ Cardinality(Holders(g)') \in Nat
  BY <1>2, HoldersFinite, FS_Subset, FS_CardinalityType
<1>4. Cardinality(Holders(g)) <= Capacity(g)
  BY DEF GatesKept, Gates
<1> HIDE DEF g
<1> QED BY <1>3, <1>4, HoldersFinite, CapacityNat DEF g

(* A request that takes a gate which has room.                             *)
LEMMA GateTaken ==
  ASSUME ChildTypes, GateKept, GatesKept, NEW r \in Requests, NEW k \in Kinds,
         Admitted(r, k), NEW x, job' = [job EXCEPT ![r] = [kind |-> k, pc |-> x]]
  PROVE  GatesKept'
<1>1. r \notin held /\ held' = held \cup {r}
  BY DEF GateKept, Admitted, NoJob
<1>2. job'[r].kind = k /\ \A s \in held : job'[s].kind = job[s].kind
  BY <1>1 DEF ChildTypes, JobType, SetTypes
<1>3. ASSUME NEW m \in Kinds
      PROVE  Cardinality(Holders(Gate(m))') <= Capacity(Gate(m))
  <2> DEFINE g == Gate(m)
  <2>1. Cardinality(Holders(g)) <= Capacity(g) /\ Cardinality(Holders(g)) \in Nat
        /\ Capacity(g) \in Nat
    BY HoldersFinite, CapacityNat DEF GatesKept, Gates
  <2>2. CASE Gate(k) # g
    <3>1. Holders(g)' = Holders(g)
      BY <1>1, <1>2, <2>2 DEF Holders
    <3> QED BY <2>1, <3>1
  <2>3. CASE Gate(k) = g
    <3>1. Holders(g)' = Holders(g) \cup {r} /\ r \notin Holders(g)
      BY <1>1, <1>2, <2>3 DEF Holders
    <3>2. Cardinality(Holders(g)') = Cardinality(Holders(g)) + 1
      BY <3>1, HoldersFinite, FS_AddElement
    <3>3. Cardinality(Holders(g)) < Capacity(g)
      BY <2>3 DEF Admitted
    <3> QED BY <2>1, <3>2, <3>3
  <2> QED BY <2>2, <2>3
<1> QED BY <1>3 DEF GatesKept, Gates

LEMMA EndTypes ==
  ASSUME TreeType, NEW r \in Requests, NEW k, Exited(r, k) \/ Expired(r, k)
  PROVE  TreeType'
<1>1. tree' = tree \/ tree' = [tree EXCEPT ![r] = Reaped(@)]
  BY DEF Exited, Expired
<1>2. CASE tree' = tree
  BY <1>2 DEF TreeType
<1>3. CASE tree' = [tree EXCEPT ![r] = Reaped(@)]
  BY <1>3 DEF TreeType, Reaped
<1> QED BY <1>1, <1>2, <1>3


(* A spawn leaves the request with a child that has a free PID, or without *)
(* one.                                                                    *)
LEMMA SpawnEffect ==
  ASSUME TreeType, NEW r \in Requests, NEW k, SpawnChild(r, k)
  PROVE  \E x \in {"attach", "after"}, y \in TreeRecords :
           /\ job' = [job EXCEPT ![r] = [kind |-> k, pc |-> x]]
           /\ tree' = [tree EXCEPT ![r] = y]
           /\ ~y.guard /\ ~y.descend
           /\ y.root = "none" \/ (y.root = "alive" /\ x = "attach" /\ FreePid(y.pid))
<1>1. NoTree \in TreeRecords /\ ~NoTree.guard /\ ~NoTree.descend /\ NoTree.root = "none"
  BY DEF NoTree, TreeRecords
<1>2. ASSUME NEW q \in Pids, NEW y, y = [NoTree EXCEPT !.pid = q, !.root = "alive"]
      PROVE  y \in TreeRecords /\ ~y.guard /\ ~y.descend /\ y.root = "alive" /\ y.pid = q
  BY <1>1, <1>2 DEF TreeRecords
<1>3. ASSUME NEW q \in Pids, FreePid(q),
             job' = [job EXCEPT ![r] = [kind |-> k, pc |-> "attach"]],
             tree' = [tree EXCEPT ![r] = [NoTree EXCEPT !.pid = q, !.root = "alive"]]
      PROVE  \E x \in {"attach", "after"}, y \in TreeRecords :
               /\ job' = [job EXCEPT ![r] = [kind |-> k, pc |-> x]]
               /\ tree' = [tree EXCEPT ![r] = y]
               /\ ~y.guard /\ ~y.descend
               /\ y.root = "none" \/ (y.root = "alive" /\ x = "attach" /\ FreePid(y.pid))
  <2> DEFINE y == [NoTree EXCEPT !.pid = q, !.root = "alive"]
  <2>1. y \in TreeRecords /\ ~y.guard /\ ~y.descend /\ y.root = "alive" /\ y.pid = q
    BY <1>2
  <2>2. tree' = [tree EXCEPT ![r] = y]
    BY <1>3
  <2> HIDE DEF y
  <2> QED BY <1>3, <2>1, <2>2
<1> QED BY <1>1, <1>3 DEF SpawnChild

(* What a request does at the start of a child.                            *)
LEMMA StartKeeps ==
  ASSUME ChildTypes, ChildInv, NEW r \in Requests, NEW k \in Kinds, SpawnChild(r, k),
         Admitted(r, k) \/ ( /\ At(r, "upgrade") /\ k = "terminal"
                             /\ UNCHANGED <<held, terminals, foreign, struck>>)
  PROVE  ChildTypes' /\ GateKept' /\ Guarded' /\ PidsApart' /\ ForeignSpared'
<1> USE DEF ChildTypes, ChildInv
<1>1. PICK x \in {"attach", "after"}, y \in TreeRecords :
         /\ job' = [job EXCEPT ![r] = [kind |-> k, pc |-> x]]
         /\ tree' = [tree EXCEPT ![r] = y]
         /\ ~y.guard /\ ~y.descend
         /\ y.root = "none" \/ (y.root = "alive" /\ x = "attach" /\ FreePid(y.pid))
  BY SpawnEffect
<1>2. held' = held \cup {r} /\ UNCHANGED <<terminals, foreign, struck>>
  BY DEF Admitted, At, GateKept
<1>3. JobType' /\ SetTypes'
  BY <1>1, <1>2 DEF JobType, SetTypes, Stages
<1>4. TreeType'
  BY <1>1 DEF TreeType, TreeRecords
<1>5. GateKept'
  BY <1>1, <1>2 DEF GateKept, JobType, Admitted, At, NoJob, Kinds
<1>6. Guarded'
  BY <1>1, <1>2 DEF Guarded, JobType, TreeType, Running
<1>7. PidsApart'
  BY <1>1, <1>2 DEF PidsApart, JobType, TreeType, Takes, Unreaped, FreePid
<1> QED BY <1>2, <1>3, <1>4, <1>5, <1>6, <1>7 DEF ForeignSpared

(* The end of a guard leaves nothing of its group, and hits no other.      *)
LEMMA SignalEffect ==
  ASSUME ChildTypes, ChildInv, NEW r \in Requests, tree[r].guard, SignalGroup(r)
  PROVE  /\ ~struck'
         /\ \E y \in TreeRecords :
              /\ tree' = [tree EXCEPT ![r] = y]
              /\ ~y.guard /\ ~y.descend /\ y.root # "alive" /\ y.pid = tree[r].pid
              /\ y.root \in {"zombie", tree[r].root}
              /\ y.root = "zombie" => Unreaped(r)
<1> USE DEF ChildTypes, ChildInv
<1> DEFINE t == tree[r]
<1>1. t \in TreeRecords
  BY DEF TreeType, TreeRecords
<1>2. ~(Takes(r, t.pid) /\ t.pid \in foreign)
  BY DEF PidsApart
<1>3. CASE OwnedGroupExists(r)
  <2> DEFINE y == [GroupKilled(t) EXCEPT !.guard = FALSE]
  <2>1. t.pid \notin foreign
    BY <1>2, <1>3 DEF OwnedGroupExists, Takes
  <2>2. tree' = [tree EXCEPT ![r] = y] /\ ~struck'
    BY <1>3, <2>1 DEF SignalGroup, ForeignSpared
  <2>3. /\ y \in TreeRecords /\ ~y.guard /\ ~y.descend /\ y.pid = t.pid
        /\ y.root = IF t.root = "alive" THEN "zombie" ELSE t.root
    BY <1>1 DEF GroupKilled, TreeRecords
  <2> HIDE DEF y
  <2> QED BY <2>2, <2>3 DEF Unreaped
<1>4. CASE ~OwnedGroupExists(r)
  <2> DEFINE y == [t EXCEPT !.guard = FALSE]
  <2>1. ~Unreaped(r) /\ ~t.descend
    BY <1>2, <1>4 DEF OwnedGroupExists, Takes, Unreaped
  <2>2. tree' = [tree EXCEPT ![r] = y] /\ ~struck'
    BY <1>4 DEF SignalGroup, TreeType, ForeignSpared
  <2>3. /\ y \in TreeRecords /\ ~y.guard /\ y.descend = t.descend /\ y.pid = t.pid
        /\ y.root = t.root
    BY <1>1 DEF TreeRecords
  <2> HIDE DEF y
  <2> QED BY <2>1, <2>2, <2>3 DEF Unreaped
<1> QED BY <1>3, <1>4

LEMMA SignalKeeps ==
  ASSUME ChildTypes, ChildInv, NEW r \in Requests, tree[r].guard, SignalGroup(r),
         To(r, "after"), UNCHANGED <<held, terminals, foreign>>,
         job[r].pc \in {"terminate", "unwind"}
  PROVE  ChildTypes' /\ GateKept' /\ Guarded' /\ PidsApart' /\ ForeignSpared'
<1> USE DEF ChildTypes, ChildInv
<1>1. ~struck'
  BY SignalEffect
<1>2. PICK y \in TreeRecords :
         /\ tree' = [tree EXCEPT ![r] = y]
         /\ ~y.guard /\ ~y.descend /\ y.root # "alive" /\ y.pid = tree[r].pid
         /\ y.root \in {"zombie", tree[r].root}
         /\ y.root = "zombie" => Unreaped(r)
  BY SignalEffect
<1>3. JobType' /\ SetTypes'
  BY DEF To, JobType, SetTypes, Stages
<1>4. TreeType'
  BY <1>2 DEF TreeType, TreeRecords
<1>5. GateKept'
  BY DEF To, GateKept, JobType
<1>6. Guarded'
  BY <1>2 DEF To, Guarded, JobType, TreeType, Running
<1>7. PidsApart'
  BY <1>2 DEF PidsApart, TreeType, Takes, Unreaped
<1> QED BY <1>1, <1>3, <1>4, <1>5, <1>6, <1>7 DEF ForeignSpared

LEMMA ChildMovesKeeps ==
  ASSUME ChildTypes, ChildInv, NEW r \in Requests, ChildMoves(r)
  PROVE  ChildTypes' /\ GateKept' /\ Guarded' /\ PidsApart' /\ ForeignSpared'
<1> USE DEF ChildTypes, ChildInv
<1> DEFINE Moved(y) ==
      /\ tree' = [tree EXCEPT ![r] = y]
      /\ y.guard = tree[r].guard /\ y.pid = tree[r].pid
      /\ y.root \in {"zombie", tree[r].root} /\ (y.root = "zombie" => Unreaped(r))
      /\ y.descend \/ y.root = "alive" => Running(r)
<1>1. \E y \in TreeRecords : Moved(y)
  <2> DEFINE t == tree[r]
  <2>1. t \in TreeRecords
    BY DEF TreeType, TreeRecords
  <2>2. CASE t.root = "alive" /\ tree' = [tree EXCEPT ![r].root = "zombie"]
    <3> DEFINE y == [t EXCEPT !.root = "zombie"]
    <3>1. y \in TreeRecords /\ y.guard = t.guard /\ y.pid = t.pid /\ y.root = "zombie"
          /\ y.descend = t.descend
      BY <2>1 DEF TreeRecords
    <3>2. tree' = [tree EXCEPT ![r] = y]
      BY <2>2 DEF TreeType
    <3> HIDE DEF y
    <3> QED BY <2>2, <3>1, <3>2 DEF Running, Unreaped
  <2>3. ASSUME NEW b \in BOOLEAN, tree' = [tree EXCEPT ![r].descend = b],
               t.root = "alive" \/ t.descend
        PROVE  \E y \in TreeRecords : Moved(y)
    <3> DEFINE y == [t EXCEPT !.descend = b]
    <3>1. y \in TreeRecords /\ y.guard = t.guard /\ y.pid = t.pid /\ y.root = t.root
      BY <2>1 DEF TreeRecords
    <3>2. tree' = [tree EXCEPT ![r] = y]
      BY <2>3 DEF TreeType
    <3> HIDE DEF y
    <3> QED BY <2>3, <3>1, <3>2 DEF Running, Unreaped
  <2> QED BY <2>2, <2>3 DEF ChildMoves
<1>2. PICK y \in TreeRecords : Moved(y)
  BY <1>1
<1>3. UNCHANGED <<job, held, terminals, foreign, struck>>
  BY DEF ChildMoves
<1>4. JobType' /\ SetTypes' /\ GateKept' /\ ForeignSpared'
  BY <1>3 DEF JobType, SetTypes, GateKept, ForeignSpared
<1>5. TreeType'
  BY <1>2 DEF TreeType, TreeRecords
<1>6. Guarded'
  BY <1>2, <1>3 DEF Guarded, TreeType, Running
<1>7. PidsApart'
  BY <1>2, <1>3 DEF PidsApart, TreeType, Takes, Unreaped, Running
<1> QED BY <1>4, <1>5, <1>6, <1>7

(* What a request that had no child does to start one.                     *)
LEMMA AdmittedKeeps ==
  ASSUME ChildTypes, ChildInv, NEW r \in Requests, NEW k \in Kinds, Admitted(r, k), SpawnChild(r, k)
  PROVE  ChildTypes' /\ ChildInv'
<1>1. ChildTypes' /\ GateKept' /\ Guarded' /\ PidsApart' /\ ForeignSpared'
  BY StartKeeps
<1>2. \E x : job' = [job EXCEPT ![r] = [kind |-> k, pc |-> x]]
  BY DEF SpawnChild
<1>3. GatesKept'
  BY <1>2, GateTaken DEF ChildInv
<1> QED BY <1>1, <1>3 DEF ChildInv

LEMMA HandleTerminalKeeps ==
  ASSUME ChildTypes, ChildInv, NEW r \in Requests, HandleTerminal(r)
  PROVE  ChildTypes' /\ ChildInv'
<1>1. /\ At(r, "upgrade") /\ SpawnChild(r, "terminal") /\ "terminal" \in Kinds
      /\ UNCHANGED <<held, terminals, foreign, struck>>
  BY DEF HandleTerminal, Kinds
<1>2. ChildTypes' /\ GateKept' /\ Guarded' /\ PidsApart' /\ ForeignSpared'
  BY <1>1, StartKeeps
<1>3. job[r].kind = "terminal"
  BY <1>1 DEF ChildInv, GateKept, At
<1>4. \A s \in Requests : job'[s].kind = job[s].kind
  <2>1. PICK x : job' = [job EXCEPT ![r] = [kind |-> "terminal", pc |-> x]]
    BY <1>1 DEF SpawnChild
  <2> QED BY <1>3, <2>1 DEF ChildTypes, JobType
<1>5. GatesKept'
  BY <1>1, <1>2, <1>4, GateStays DEF ChildInv, ChildTypes, SetTypes
<1> QED BY <1>2, <1>5 DEF ChildInv

LEMMA WsHandlerKeeps ==
  ASSUME ChildTypes, ChildInv, NEW r \in Requests, WsHandler(r)
  PROVE  ChildTypes' /\ ChildInv'
<1> USE DEF ChildTypes, ChildInv
<1>1. /\ Admitted(r, "terminal") /\ "terminal" \in Kinds /\ tree' = tree
      /\ job' = [job EXCEPT ![r] = [kind |-> "terminal", pc |-> "upgrade"]]
  BY DEF WsHandler, Kinds
<1>2. held' = held \cup {r} /\ UNCHANGED <<terminals, foreign, struck>> /\ job[r] = NoJob
  BY <1>1 DEF Admitted
<1>3. JobType' /\ TreeType' /\ SetTypes'
  BY <1>1, <1>2 DEF JobType, TreeType, SetTypes, Stages
<1>4. GateKept'
  BY <1>1, <1>2 DEF GateKept, JobType, NoJob
<1>5. Guarded'
  BY <1>1, <1>2 DEF Guarded, JobType, NoJob, Running
<1>6. PidsApart' /\ ForeignSpared'
  BY <1>1, <1>2 DEF PidsApart, ForeignSpared, Takes, Unreaped
<1>7. GatesKept'
  BY <1>1, GateTaken
<1> QED BY <1>3, <1>4, <1>5, <1>6, <1>7

LEMMA TerminateKeeps ==
  ASSUME ChildTypes, ChildInv, NEW r \in Requests, Terminate(r)
  PROVE  ChildTypes' /\ ChildInv'
<1>1. /\ SignalGroup(r) /\ To(r, "after") /\ UNCHANGED <<held, terminals, foreign>>
      /\ job[r].pc \in {"terminate", "unwind"}
  BY DEF Terminate, At
<1>2. tree[r].guard
  BY <1>1 DEF ChildInv, Guarded
<1>3. ChildTypes' /\ GateKept' /\ Guarded' /\ PidsApart' /\ ForeignSpared'
  BY <1>1, <1>2, SignalKeeps
<1>4. \A s \in Requests : job'[s].kind = job[s].kind
  BY <1>1 DEF ChildTypes, JobType, To
<1>5. GatesKept'
  BY <1>1, <1>3, <1>4, GateStays DEF ChildInv, ChildTypes, SetTypes
<1> QED BY <1>3, <1>5 DEF ChildInv

LEMMA DropGuardKeeps ==
  ASSUME ChildTypes, ChildInv, NEW r \in Requests, DropGuard(r)
  PROVE  ChildTypes' /\ ChildInv'
<1>1. /\ SignalGroup(r) /\ To(r, "after") /\ UNCHANGED <<held, terminals, foreign>>
      /\ job[r].pc \in {"terminate", "unwind"}
  BY DEF DropGuard, At
<1>2. tree[r].guard
  BY <1>1 DEF ChildInv, Guarded
<1>3. ChildTypes' /\ GateKept' /\ Guarded' /\ PidsApart' /\ ForeignSpared'
  BY <1>1, <1>2, SignalKeeps
<1>4. \A s \in Requests : job'[s].kind = job[s].kind
  BY <1>1 DEF ChildTypes, JobType, To
<1>5. GatesKept'
  BY <1>1, <1>3, <1>4, GateStays DEF ChildInv, ChildTypes, SetTypes
<1> QED BY <1>3, <1>5 DEF ChildInv

LEMMA AttachKeeps ==
  ASSUME ChildTypes, ChildInv, NEW r \in Requests, Attach(r)
  PROVE  ChildTypes' /\ ChildInv'
<1> USE DEF ChildTypes, ChildInv
<1>1. JobType'
  BY DEF Attach, At, To, JobType, TreeType, SetTypes, Stages
<1>2. TreeType'
  BY DEF Attach, At, To, JobType, TreeType, SetTypes
<1>3. SetTypes'
  BY DEF Attach, At, To, JobType, TreeType, SetTypes
<1>4. ChildTypes'
  BY <1>1, <1>2, <1>3
<1>5. ForeignSpared'
  BY DEF Attach, To, ForeignSpared
<1>6. GateKept'
  BY <1>4 DEF JobType, TreeType, SetTypes, Attach, At, To, GateKept
<1>7. Guarded'
  BY <1>4 DEF JobType, TreeType, SetTypes, Attach, At, To, Guarded, Running
<1>8. PidsApart'
  BY <1>4 DEF JobType, TreeType, SetTypes, Attach, At, To, PidsApart, Takes, Unreaped
<1>9. GatesKept'
  BY <1>4, GateStays DEF JobType, SetTypes, Attach, To
<1> QED BY <1>4, <1>5, <1>6, <1>7, <1>8, <1>9

LEMMA CleanupUnownedKeeps ==
  ASSUME ChildTypes, ChildInv, NEW r \in Requests, CleanupUnowned(r)
  PROVE  ChildTypes' /\ ChildInv'
<1> USE DEF ChildTypes, ChildInv
<1>1. SetTypes'
  BY DEF CleanupUnowned, To, SetTypes
<1>2. JobType'
  BY DEF CleanupUnowned, At, To, Reaped, GroupKilled, JobType, TreeType, SetTypes,
     Stages
<1>3. TreeType'
  BY DEF CleanupUnowned, At, To, Reaped, GroupKilled, JobType, TreeType, SetTypes
<1>4. ChildTypes'
  BY <1>1, <1>2, <1>3
<1>5. ForeignSpared'
  BY DEF CleanupUnowned, To, ForeignSpared
<1>6. GateKept'
  BY <1>4 DEF JobType, TreeType, SetTypes, CleanupUnowned, At, To, Reaped,
     GroupKilled, GateKept
<1>7. Guarded'
  BY <1>4 DEF JobType, TreeType, SetTypes, CleanupUnowned, At, To, Reaped,
     GroupKilled, Guarded, Running
<1>8. PidsApart'
  BY <1>4 DEF JobType, TreeType, SetTypes, CleanupUnowned, At, To, Reaped,
     GroupKilled, PidsApart, Takes, Unreaped
<1>9. GatesKept'
  BY <1>4, GateStays DEF JobType, SetTypes, CleanupUnowned, To
<1> QED BY <1>4, <1>5, <1>6, <1>7, <1>8, <1>9

LEMMA CleanupRefusedKeeps ==
  ASSUME ChildTypes, ChildInv, NEW r \in Requests, CleanupRefused(r)
  PROVE  ChildTypes' /\ ChildInv'
<1> USE DEF ChildTypes, ChildInv
<1>1. SetTypes'
  BY DEF CleanupRefused, To, SetTypes
<1>2. JobType'
  BY DEF CleanupRefused, At, To, NoTree, JobType, TreeType, SetTypes, Stages
<1>3. TreeType'
  BY DEF CleanupRefused, At, To, NoTree, JobType, TreeType, SetTypes
<1>4. ChildTypes'
  BY <1>1, <1>2, <1>3
<1>5. ForeignSpared'
  BY DEF CleanupRefused, To, ForeignSpared
<1>6. GateKept'
  BY <1>4 DEF JobType, TreeType, SetTypes, CleanupRefused, At, To, NoTree, GateKept
<1>7. Guarded'
  BY <1>4 DEF JobType, TreeType, SetTypes, CleanupRefused, At, To, NoTree, Guarded,
     Running
<1>8. PidsApart'
  BY <1>4 DEF JobType, TreeType, SetTypes, CleanupRefused, At, To, NoTree, PidsApart,
     Takes, Unreaped
<1>9. GatesKept'
  BY <1>4, GateStays DEF JobType, SetTypes, CleanupRefused, To
<1> QED BY <1>4, <1>5, <1>6, <1>7, <1>8, <1>9

LEMMA ScriptExitsKeeps ==
  ASSUME ChildTypes, ChildInv, NEW r \in Requests, ScriptExits(r)
  PROVE  ChildTypes' /\ ChildInv'
<1> USE DEF ChildTypes, ChildInv
<1>1. SetTypes'
  BY DEF ScriptExits, Exited, To, SetTypes
<1>2. JobType'
  BY DEF ScriptExits, Exited, To, Waits, Reaped, Is, JobType, TreeType, SetTypes,
     Stages
<1>3. TreeType'
  BY DEF ScriptExits, Exited, To, Waits, Reaped, Is, JobType, TreeType, SetTypes
<1>4. ChildTypes'
  BY <1>1, <1>2, <1>3
<1>5. ForeignSpared'
  BY DEF ScriptExits, Exited, To, ForeignSpared
<1>6. GateKept'
  BY <1>4 DEF JobType, TreeType, SetTypes, ScriptExits, Exited, To, Waits, Reaped, Is,
     GateKept
<1>7. Guarded'
  BY <1>4 DEF JobType, TreeType, SetTypes, ScriptExits, Exited, To, Waits, Reaped, Is,
     Guarded, Running
<1>8. PidsApart'
  BY <1>4 DEF JobType, TreeType, SetTypes, ScriptExits, Exited, To, Waits, Reaped, Is,
     PidsApart, Takes, Unreaped
<1>9. GatesKept'
  BY <1>4, GateStays DEF JobType, SetTypes, ScriptExits, Exited, To
<1> QED BY <1>4, <1>5, <1>6, <1>7, <1>8, <1>9

LEMMA ForwardScriptOutputKeeps ==
  ASSUME ChildTypes, ChildInv, NEW r \in Requests, ForwardScriptOutput(r)
  PROVE  ChildTypes' /\ ChildInv'
<1> USE DEF ChildTypes, ChildInv
<1>1. TreeType' /\ SetTypes'
  BY DEF ForwardScriptOutput, To, TreeType, SetTypes
<1>2. JobType'
  BY DEF ForwardScriptOutput, Is, At, To, JobType, TreeType, SetTypes, Stages
<1>3. ChildTypes'
  BY <1>1, <1>2
<1>4. PidsApart' /\ ForeignSpared'
  BY DEF ForwardScriptOutput, To, PidsApart, Takes, Unreaped, ForeignSpared
<1>5. GateKept'
  BY <1>3 DEF JobType, TreeType, SetTypes, ForwardScriptOutput, Is, At, To, GateKept
<1>6. Guarded'
  BY <1>3 DEF JobType, TreeType, SetTypes, ForwardScriptOutput, Is, At, To, Guarded,
     Running
<1>7. GatesKept'
  BY <1>3, GateStays DEF JobType, SetTypes, ForwardScriptOutput, To
<1> QED BY <1>3, <1>4, <1>5, <1>6, <1>7

LEMMA ScriptStoppedKeeps ==
  ASSUME ChildTypes, ChildInv, NEW r \in Requests, ScriptStopped(r)
  PROVE  ChildTypes' /\ ChildInv'
<1> USE DEF ChildTypes, ChildInv
<1>1. SetTypes'
  BY DEF ScriptStopped, To, SetTypes
<1>2. JobType'
  BY DEF ScriptStopped, Waits, To, Reaped, Is, JobType, TreeType, SetTypes, Stages
<1>3. TreeType'
  BY DEF ScriptStopped, Waits, To, Reaped, Is, JobType, TreeType, SetTypes
<1>4. ChildTypes'
  BY <1>1, <1>2, <1>3
<1>5. ForeignSpared'
  BY DEF ScriptStopped, To, ForeignSpared
<1>6. GateKept'
  BY <1>4 DEF JobType, TreeType, SetTypes, ScriptStopped, Waits, To, Reaped, Is,
     GateKept
<1>7. Guarded'
  BY <1>4 DEF JobType, TreeType, SetTypes, ScriptStopped, Waits, To, Reaped, Is,
     Guarded, Running
<1>8. PidsApart'
  BY <1>4 DEF JobType, TreeType, SetTypes, ScriptStopped, Waits, To, Reaped, Is,
     PidsApart, Takes, Unreaped
<1>9. GatesKept'
  BY <1>4, GateStays DEF JobType, SetTypes, ScriptStopped, To
<1> QED BY <1>4, <1>5, <1>6, <1>7, <1>8, <1>9

LEMMA ScriptClosesKeeps ==
  ASSUME ChildTypes, ChildInv, NEW r \in Requests, ScriptCloses(r)
  PROVE  ChildTypes' /\ ChildInv'
<1> USE DEF ChildTypes, ChildInv
<1>1. TreeType' /\ SetTypes'
  BY DEF ScriptCloses, To, TreeType, SetTypes
<1>2. JobType'
  BY DEF ScriptCloses, Is, At, To, JobType, TreeType, SetTypes, Stages
<1>3. ChildTypes'
  BY <1>1, <1>2
<1>4. PidsApart' /\ ForeignSpared'
  BY DEF ScriptCloses, To, PidsApart, Takes, Unreaped, ForeignSpared
<1>5. GateKept'
  BY <1>3 DEF JobType, TreeType, SetTypes, ScriptCloses, Is, At, To, GateKept
<1>6. Guarded'
  BY <1>3 DEF JobType, TreeType, SetTypes, ScriptCloses, Is, At, To, Guarded, Running
<1>7. GatesKept'
  BY <1>3, GateStays DEF JobType, SetTypes, ScriptCloses, To
<1> QED BY <1>3, <1>4, <1>5, <1>6, <1>7

LEMMA ScriptDoneKeeps ==
  ASSUME ChildTypes, ChildInv, NEW r \in Requests, ScriptDone(r)
  PROVE  ChildTypes' /\ ChildInv'
<1> USE DEF ChildTypes, ChildInv
<1>1. TreeType' /\ SetTypes'
  BY DEF ScriptDone, To, TreeType, SetTypes
<1>2. JobType'
  BY DEF ScriptDone, At, To, JobType, TreeType, SetTypes, Stages
<1>3. ChildTypes'
  BY <1>1, <1>2
<1>4. PidsApart' /\ ForeignSpared'
  BY DEF ScriptDone, To, PidsApart, Takes, Unreaped, ForeignSpared
<1>5. GateKept'
  BY <1>3 DEF JobType, TreeType, SetTypes, ScriptDone, At, To, GateKept
<1>6. Guarded'
  BY <1>3 DEF JobType, TreeType, SetTypes, ScriptDone, At, To, Guarded, Running
<1>7. GatesKept'
  BY <1>3, GateStays DEF JobType, SetTypes, ScriptDone, To
<1> QED BY <1>3, <1>4, <1>5, <1>6, <1>7

LEMMA InstallExitsKeeps ==
  ASSUME ChildTypes, ChildInv, NEW r \in Requests, InstallExits(r)
  PROVE  ChildTypes' /\ ChildInv'
<1> USE DEF ChildTypes, ChildInv
<1>1. SetTypes'
  BY DEF InstallExits, Exited, To, SetTypes
<1>2. JobType'
  BY DEF InstallExits, Exited, To, Waits, Reaped, Is, JobType, TreeType, SetTypes,
     Stages
<1>3. TreeType'
  BY DEF InstallExits, Exited, To, Waits, Reaped, Is, JobType, TreeType, SetTypes
<1>4. ChildTypes'
  BY <1>1, <1>2, <1>3
<1>5. ForeignSpared'
  BY DEF InstallExits, Exited, To, ForeignSpared
<1>6. GateKept'
  BY <1>4 DEF JobType, TreeType, SetTypes, InstallExits, Exited, To, Waits, Reaped,
     Is, GateKept
<1>7. Guarded'
  BY <1>4 DEF JobType, TreeType, SetTypes, InstallExits, Exited, To, Waits, Reaped,
     Is, Guarded, Running
<1>8. PidsApart'
  BY <1>4 DEF JobType, TreeType, SetTypes, InstallExits, Exited, To, Waits, Reaped,
     Is, PidsApart, Takes, Unreaped
<1>9. GatesKept'
  BY <1>4, GateStays DEF JobType, SetTypes, InstallExits, Exited, To
<1> QED BY <1>4, <1>5, <1>6, <1>7, <1>8, <1>9

LEMMA InstallExpiresKeeps ==
  ASSUME ChildTypes, ChildInv, NEW r \in Requests, InstallExpires(r)
  PROVE  ChildTypes' /\ ChildInv'
<1> USE DEF ChildTypes, ChildInv
<1>1. SetTypes'
  BY DEF InstallExpires, Expired, To, SetTypes
<1>2. JobType'
  BY DEF InstallExpires, Expired, To, Waits, Reaped, Is, JobType, TreeType, SetTypes,
     Stages
<1>3. TreeType'
  BY DEF InstallExpires, Expired, To, Waits, Reaped, Is, JobType, TreeType, SetTypes
<1>4. ChildTypes'
  BY <1>1, <1>2, <1>3
<1>5. ForeignSpared'
  BY DEF InstallExpires, Expired, To, ForeignSpared
<1>6. GateKept'
  BY <1>4 DEF JobType, TreeType, SetTypes, InstallExpires, Expired, To, Waits, Reaped,
     Is, GateKept
<1>7. Guarded'
  BY <1>4 DEF JobType, TreeType, SetTypes, InstallExpires, Expired, To, Waits, Reaped,
     Is, Guarded, Running
<1>8. PidsApart'
  BY <1>4 DEF JobType, TreeType, SetTypes, InstallExpires, Expired, To, Waits, Reaped,
     Is, PidsApart, Takes, Unreaped
<1>9. GatesKept'
  BY <1>4, GateStays DEF JobType, SetTypes, InstallExpires, Expired, To
<1> QED BY <1>4, <1>5, <1>6, <1>7, <1>8, <1>9

LEMMA StreamEndsKeeps ==
  ASSUME ChildTypes, ChildInv, NEW r \in Requests, StreamEnds(r)
  PROVE  ChildTypes' /\ ChildInv'
<1> USE DEF ChildTypes, ChildInv
<1>1. SetTypes'
  BY DEF StreamEnds, Exited, Expired, To, SetTypes
<1>2. JobType'
  BY DEF StreamEnds, Exited, Expired, To, Waits, Reaped, Is, JobType, TreeType,
     SetTypes, Stages
<1>3. TreeType'
  BY EndTypes DEF StreamEnds
<1>4. ChildTypes'
  BY <1>1, <1>2, <1>3
<1>5. ForeignSpared'
  BY DEF StreamEnds, Exited, Expired, To, ForeignSpared
<1>6. GateKept'
  BY <1>4 DEF JobType, TreeType, SetTypes, StreamEnds, Exited, Expired, To, Waits,
     Reaped, Is, GateKept
<1>7. Guarded'
  BY <1>4 DEF JobType, TreeType, SetTypes, StreamEnds, Exited, Expired, To, Waits,
     Reaped, Is, Guarded, Running
<1>8. PidsApart'
  BY <1>4 DEF JobType, TreeType, SetTypes, StreamEnds, Exited, Expired, To, Waits,
     Reaped, Is, PidsApart, Takes, Unreaped
<1>9. GatesKept'
  BY <1>4, GateStays DEF JobType, SetTypes, StreamEnds, Exited, Expired, To
<1> QED BY <1>4, <1>5, <1>6, <1>7, <1>8, <1>9

LEMMA ProbeEndsKeeps ==
  ASSUME ChildTypes, ChildInv, NEW r \in Requests, ProbeEnds(r)
  PROVE  ChildTypes' /\ ChildInv'
<1> USE DEF ChildTypes, ChildInv
<1>1. SetTypes'
  BY DEF ProbeEnds, Exited, Expired, To, SetTypes
<1>2. JobType'
  BY DEF ProbeEnds, Exited, Expired, To, Waits, Reaped, Is, JobType, TreeType,
     SetTypes, Stages
<1>3. TreeType'
  BY EndTypes DEF ProbeEnds
<1>4. ChildTypes'
  BY <1>1, <1>2, <1>3
<1>5. ForeignSpared'
  BY DEF ProbeEnds, Exited, Expired, To, ForeignSpared
<1>6. GateKept'
  BY <1>4 DEF JobType, TreeType, SetTypes, ProbeEnds, Exited, Expired, To, Waits,
     Reaped, Is, GateKept
<1>7. Guarded'
  BY <1>4 DEF JobType, TreeType, SetTypes, ProbeEnds, Exited, Expired, To, Waits,
     Reaped, Is, Guarded, Running
<1>8. PidsApart'
  BY <1>4 DEF JobType, TreeType, SetTypes, ProbeEnds, Exited, Expired, To, Waits,
     Reaped, Is, PidsApart, Takes, Unreaped
<1>9. GatesKept'
  BY <1>4, GateStays DEF JobType, SetTypes, ProbeEnds, Exited, Expired, To
<1> QED BY <1>4, <1>5, <1>6, <1>7, <1>8, <1>9

LEMMA GitEndsKeeps ==
  ASSUME ChildTypes, ChildInv, NEW r \in Requests, GitEnds(r)
  PROVE  ChildTypes' /\ ChildInv'
<1> USE DEF ChildTypes, ChildInv
<1>1. SetTypes'
  BY DEF GitEnds, Exited, Expired, To, SetTypes
<1>2. JobType'
  BY DEF GitEnds, Exited, Expired, To, Waits, Reaped, Is, JobType, TreeType, SetTypes,
     Stages
<1>3. TreeType'
  BY EndTypes DEF GitEnds
<1>4. ChildTypes'
  BY <1>1, <1>2, <1>3
<1>5. ForeignSpared'
  BY DEF GitEnds, Exited, Expired, To, ForeignSpared
<1>6. GateKept'
  BY <1>4 DEF JobType, TreeType, SetTypes, GitEnds, Exited, Expired, To, Waits,
     Reaped, Is, GateKept
<1>7. Guarded'
  BY <1>4 DEF JobType, TreeType, SetTypes, GitEnds, Exited, Expired, To, Waits,
     Reaped, Is, Guarded, Running
<1>8. PidsApart'
  BY <1>4 DEF JobType, TreeType, SetTypes, GitEnds, Exited, Expired, To, Waits,
     Reaped, Is, PidsApart, Takes, Unreaped
<1>9. GatesKept'
  BY <1>4, GateStays DEF JobType, SetTypes, GitEnds, Exited, Expired, To
<1> QED BY <1>4, <1>5, <1>6, <1>7, <1>8, <1>9

LEMMA HookExitsKeeps ==
  ASSUME ChildTypes, ChildInv, NEW r \in Requests, HookExits(r)
  PROVE  ChildTypes' /\ ChildInv'
<1> USE DEF ChildTypes, ChildInv
<1>1. SetTypes'
  BY DEF HookExits, Exited, To, SetTypes
<1>2. JobType'
  BY DEF HookExits, Exited, To, Waits, Reaped, Is, JobType, TreeType, SetTypes, Stages
<1>3. TreeType'
  BY DEF HookExits, Exited, To, Waits, Reaped, Is, JobType, TreeType, SetTypes
<1>4. ChildTypes'
  BY <1>1, <1>2, <1>3
<1>5. ForeignSpared'
  BY DEF HookExits, Exited, To, ForeignSpared
<1>6. GateKept'
  BY <1>4 DEF JobType, TreeType, SetTypes, HookExits, Exited, To, Waits, Reaped, Is,
     GateKept
<1>7. Guarded'
  BY <1>4 DEF JobType, TreeType, SetTypes, HookExits, Exited, To, Waits, Reaped, Is,
     Guarded, Running
<1>8. PidsApart'
  BY <1>4 DEF JobType, TreeType, SetTypes, HookExits, Exited, To, Waits, Reaped, Is,
     PidsApart, Takes, Unreaped
<1>9. GatesKept'
  BY <1>4, GateStays DEF JobType, SetTypes, HookExits, Exited, To
<1> QED BY <1>4, <1>5, <1>6, <1>7, <1>8, <1>9

LEMMA HookExpiresKeeps ==
  ASSUME ChildTypes, ChildInv, NEW r \in Requests, HookExpires(r)
  PROVE  ChildTypes' /\ ChildInv'
<1> USE DEF ChildTypes, ChildInv
<1>1. TreeType' /\ SetTypes'
  BY DEF HookExpires, To, TreeType, SetTypes
<1>2. JobType'
  BY DEF HookExpires, Waits, To, Is, JobType, TreeType, SetTypes, Stages
<1>3. ChildTypes'
  BY <1>1, <1>2
<1>4. PidsApart' /\ ForeignSpared'
  BY DEF HookExpires, To, PidsApart, Takes, Unreaped, ForeignSpared
<1>5. GateKept'
  BY <1>3 DEF JobType, TreeType, SetTypes, HookExpires, Waits, To, Is, GateKept
<1>6. Guarded'
  BY <1>3 DEF JobType, TreeType, SetTypes, HookExpires, Waits, To, Is, Guarded,
     Running
<1>7. GatesKept'
  BY <1>3, GateStays DEF JobType, SetTypes, HookExpires, To
<1> QED BY <1>3, <1>4, <1>5, <1>6, <1>7

LEMMA TerminalClosesKeeps ==
  ASSUME ChildTypes, ChildInv, NEW r \in Requests, TerminalCloses(r)
  PROVE  ChildTypes' /\ ChildInv'
<1> USE DEF ChildTypes, ChildInv
<1>1. TreeType' /\ SetTypes'
  BY DEF TerminalCloses, To, TreeType, SetTypes
<1>2. JobType'
  BY DEF TerminalCloses, Waits, To, Is, JobType, TreeType, SetTypes, Stages
<1>3. ChildTypes'
  BY <1>1, <1>2
<1>4. PidsApart' /\ ForeignSpared'
  BY DEF TerminalCloses, To, PidsApart, Takes, Unreaped, ForeignSpared
<1>5. GateKept'
  BY <1>3 DEF JobType, TreeType, SetTypes, TerminalCloses, Waits, To, Is, GateKept
<1>6. Guarded'
  BY <1>3 DEF JobType, TreeType, SetTypes, TerminalCloses, Waits, To, Is, Guarded,
     Running
<1>7. GatesKept'
  BY <1>3, GateStays DEF JobType, SetTypes, TerminalCloses, To
<1> QED BY <1>3, <1>4, <1>5, <1>6, <1>7

LEMMA ClientGoneKeeps ==
  ASSUME ChildTypes, ChildInv, NEW r \in Requests, ClientGone(r)
  PROVE  ChildTypes' /\ ChildInv'
<1> USE DEF ChildTypes, ChildInv
<1>1. TreeType' /\ SetTypes'
  BY DEF ClientGone, To, TreeType, SetTypes
<1>2. JobType'
  BY DEF ClientGone, At, To, Is, JobType, TreeType, SetTypes, Stages
<1>3. ChildTypes'
  BY <1>1, <1>2
<1>4. PidsApart' /\ ForeignSpared'
  BY DEF ClientGone, To, PidsApart, Takes, Unreaped, ForeignSpared
<1>5. GateKept'
  BY <1>3 DEF JobType, TreeType, SetTypes, ClientGone, At, To, Is, GateKept
<1>6. Guarded'
  BY <1>3 DEF JobType, TreeType, SetTypes, ClientGone, At, To, Is, Guarded, Running
<1>7. GatesKept'
  BY <1>3, GateStays DEF JobType, SetTypes, ClientGone, To
<1> QED BY <1>3, <1>4, <1>5, <1>6, <1>7

LEMMA LeaveKeeps ==
  ASSUME ChildTypes, ChildInv, NEW r \in Requests, Leave(r)
  PROVE  ChildTypes' /\ ChildInv'
<1> USE DEF ChildTypes, ChildInv
<1>1. JobType'
  BY DEF Leave, At, NoJob, Running, NoTree, JobType, TreeType, SetTypes, Stages
<1>2. TreeType'
  BY DEF Leave, At, NoJob, Running, NoTree, JobType, TreeType, SetTypes
<1>3. SetTypes'
  BY DEF Leave, At, NoJob, Running, NoTree, JobType, TreeType, SetTypes
<1>4. ChildTypes'
  BY <1>1, <1>2, <1>3
<1>5. ForeignSpared'
  BY DEF Leave, ForeignSpared
<1>6. GateKept'
  BY <1>4 DEF JobType, TreeType, SetTypes, Leave, At, NoJob, Running, NoTree, GateKept
<1>7. Guarded'
  BY <1>4 DEF JobType, TreeType, SetTypes, Leave, At, NoJob, Running, NoTree, Guarded
<1>8. PidsApart'
  BY <1>4 DEF JobType, TreeType, SetTypes, Leave, At, NoJob, Running, NoTree,
     PidsApart, Takes, Unreaped
<1>9. GatesKept'
  BY <1>4, GateStays DEF JobType, SetTypes, Leave, NoJob
<1> QED BY <1>4, <1>5, <1>6, <1>7, <1>8, <1>9

LEMMA OtherProgramKeeps ==
  ASSUME ChildTypes, ChildInv, NEW p \in Pids, OtherProgram(p)
  PROVE  ChildTypes' /\ ChildInv'
<1> USE DEF ChildTypes, ChildInv
<1>1. JobType' /\ TreeType'
  BY DEF OtherProgram, JobType, TreeType
<1>2. SetTypes'
  BY DEF OtherProgram, FreePid, Takes, Unreaped, JobType, TreeType, SetTypes
<1>3. ChildTypes'
  BY <1>1, <1>2
<1>4. GateKept' /\ Guarded' /\ ForeignSpared' /\ GatesKept'
  BY DEF OtherProgram, GateKept, Guarded, Running, ForeignSpared, GatesKept, Holders
<1>5. PidsApart'
  BY <1>3 DEF JobType, TreeType, SetTypes, OtherProgram, FreePid, Takes, Unreaped,
     PidsApart
<1> QED BY <1>3, <1>4, <1>5

LEMMA ChildMovesAll ==
  ASSUME ChildTypes, ChildInv, NEW r \in Requests, ChildMoves(r)
  PROVE  ChildTypes' /\ ChildInv'
<1>1. ChildTypes' /\ GateKept' /\ Guarded' /\ PidsApart' /\ ForeignSpared'
  BY ChildMovesKeeps
<1>2. job' = job /\ held' = held
  BY DEF ChildMoves
<1>3. GatesKept'
  BY <1>2, GateStays DEF ChildInv
<1> QED BY <1>1, <1>3 DEF ChildInv

LEMMA ChildInitKeeps == ChildInit => ChildTypes /\ ChildInv
<1> SUFFICES ASSUME ChildInit
             PROVE  ChildTypes /\ ChildInv
  OBVIOUS
<1>1. /\ NoJob.kind = "none" /\ NoJob.pc = "idle"
      /\ NoJob \in [kind : Kinds \cup {"none"}, pc : Stages]
  BY DEF NoJob, Kinds, Stages
<1>2. NoTree \in TreeRecords /\ ~NoTree.guard /\ ~NoTree.descend /\ NoTree.root = "none"
  BY DEF NoTree, TreeRecords
<1>3. ChildTypes
  BY <1>1, <1>2 DEF ChildInit, ChildTypes, JobType, TreeType, SetTypes, TreeRecords
<1>4. GateKept /\ Guarded /\ PidsApart /\ ForeignSpared
  BY <1>1, <1>2 DEF ChildInit, GateKept, Guarded, PidsApart, ForeignSpared, Running
<1>5. ASSUME NEW k \in Kinds
      PROVE  Cardinality(Holders(Gate(k))) <= Capacity(Gate(k))
  <2>1. Holders(Gate(k)) = {}
    BY DEF ChildInit, Holders
  <2>2. Cardinality({}) = 0
    BY FS_EmptySet
  <2> QED BY <2>1, <2>2, CapacityNat
<1> QED BY <1>3, <1>4, <1>5 DEF ChildInv, GatesKept, Gates

LEMMA ChildStep == ChildTypes /\ ChildInv /\ [ChildNext]_childVars => ChildTypes' /\ ChildInv'
<1> SUFFICES ASSUME ChildTypes, ChildInv, [ChildNext]_childVars
             PROVE  ChildTypes' /\ ChildInv'
  OBVIOUS
<1>1. ASSUME NEW r \in Requests, RunScript(r)
      PROVE  ChildTypes' /\ ChildInv'
  BY <1>1, AdmittedKeeps DEF RunScript, Kinds
<1>2. ASSUME NEW r \in Requests, InstallProvider(r)
      PROVE  ChildTypes' /\ ChildInv'
  BY <1>2, AdmittedKeeps DEF InstallProvider, Kinds
<1>3. ASSUME NEW r \in Requests, InstallProviderStream(r)
      PROVE  ChildTypes' /\ ChildInv'
  BY <1>3, AdmittedKeeps DEF InstallProviderStream, Kinds
<1>4. ASSUME NEW r \in Requests, CheckProvider(r)
      PROVE  ChildTypes' /\ ChildInv'
  BY <1>4, AdmittedKeeps DEF CheckProvider, Kinds
<1>5. ASSUME NEW r \in Requests, WsHandler(r)
      PROVE  ChildTypes' /\ ChildInv'
  BY <1>5, WsHandlerKeeps
<1>6. ASSUME NEW r \in Requests, HandleTerminal(r)
      PROVE  ChildTypes' /\ ChildInv'
  BY <1>6, HandleTerminalKeeps
<1>7. ASSUME NEW r \in Requests, RunHook(r)
      PROVE  ChildTypes' /\ ChildInv'
  BY <1>7, AdmittedKeeps DEF RunHook, Kinds
<1>8. ASSUME NEW r \in Requests, CmdOutput(r)
      PROVE  ChildTypes' /\ ChildInv'
  BY <1>8, AdmittedKeeps DEF CmdOutput, Kinds
<1>9. ASSUME NEW r \in Requests, Attach(r)
      PROVE  ChildTypes' /\ ChildInv'
  BY <1>9, AttachKeeps
<1>10. ASSUME NEW r \in Requests, CleanupUnowned(r)
      PROVE  ChildTypes' /\ ChildInv'
  BY <1>10, CleanupUnownedKeeps
<1>11. ASSUME NEW r \in Requests, CleanupRefused(r)
      PROVE  ChildTypes' /\ ChildInv'
  BY <1>11, CleanupRefusedKeeps
<1>12. ASSUME NEW r \in Requests, ScriptExits(r)
      PROVE  ChildTypes' /\ ChildInv'
  BY <1>12, ScriptExitsKeeps
<1>13. ASSUME NEW r \in Requests, ForwardScriptOutput(r)
      PROVE  ChildTypes' /\ ChildInv'
  BY <1>13, ForwardScriptOutputKeeps
<1>14. ASSUME NEW r \in Requests, ScriptStopped(r)
      PROVE  ChildTypes' /\ ChildInv'
  BY <1>14, ScriptStoppedKeeps
<1>15. ASSUME NEW r \in Requests, ScriptCloses(r)
      PROVE  ChildTypes' /\ ChildInv'
  BY <1>15, ScriptClosesKeeps
<1>16. ASSUME NEW r \in Requests, ScriptDone(r)
      PROVE  ChildTypes' /\ ChildInv'
  BY <1>16, ScriptDoneKeeps
<1>17. ASSUME NEW r \in Requests, InstallExits(r)
      PROVE  ChildTypes' /\ ChildInv'
  BY <1>17, InstallExitsKeeps
<1>18. ASSUME NEW r \in Requests, InstallExpires(r)
      PROVE  ChildTypes' /\ ChildInv'
  BY <1>18, InstallExpiresKeeps
<1>19. ASSUME NEW r \in Requests, StreamEnds(r)
      PROVE  ChildTypes' /\ ChildInv'
  BY <1>19, StreamEndsKeeps
<1>20. ASSUME NEW r \in Requests, ProbeEnds(r)
      PROVE  ChildTypes' /\ ChildInv'
  BY <1>20, ProbeEndsKeeps
<1>21. ASSUME NEW r \in Requests, GitEnds(r)
      PROVE  ChildTypes' /\ ChildInv'
  BY <1>21, GitEndsKeeps
<1>22. ASSUME NEW r \in Requests, HookExits(r)
      PROVE  ChildTypes' /\ ChildInv'
  BY <1>22, HookExitsKeeps
<1>23. ASSUME NEW r \in Requests, HookExpires(r)
      PROVE  ChildTypes' /\ ChildInv'
  BY <1>23, HookExpiresKeeps
<1>24. ASSUME NEW r \in Requests, TerminalCloses(r)
      PROVE  ChildTypes' /\ ChildInv'
  BY <1>24, TerminalClosesKeeps
<1>25. ASSUME NEW r \in Requests, Terminate(r)
      PROVE  ChildTypes' /\ ChildInv'
  BY <1>25, TerminateKeeps
<1>26. ASSUME NEW r \in Requests, ClientGone(r)
      PROVE  ChildTypes' /\ ChildInv'
  BY <1>26, ClientGoneKeeps
<1>27. ASSUME NEW r \in Requests, DropGuard(r)
      PROVE  ChildTypes' /\ ChildInv'
  BY <1>27, DropGuardKeeps
<1>28. ASSUME NEW r \in Requests, Leave(r)
      PROVE  ChildTypes' /\ ChildInv'
  BY <1>28, LeaveKeeps
<1>29. ASSUME NEW r \in Requests, ChildMoves(r)
      PROVE  ChildTypes' /\ ChildInv'
  BY <1>29, ChildMovesAll
<1>30. ASSUME NEW p \in Pids, OtherProgram(p)
      PROVE  ChildTypes' /\ ChildInv'
  BY <1>30, OtherProgramKeeps
<1>31. CASE UNCHANGED childVars
  BY <1>31 DEF childVars, ChildTypes, ChildInv, JobType, TreeType, SetTypes, GateKept, Guarded,
     PidsApart, ForeignSpared, GatesKept, Running, Takes, Unreaped, Holders
<1> QED BY <1>1, <1>2, <1>3, <1>4, <1>5, <1>6, <1>7, <1>8, <1>9, <1>10, <1>11, <1>12,
   <1>13, <1>14, <1>15, <1>16, <1>17, <1>18, <1>19, <1>20, <1>21, <1>22, <1>23, <1>24,
   <1>25, <1>26, <1>27, <1>28, <1>29, <1>30, <1>31 DEF ChildNext

(* The inductive invariant of the children of requests.                    *)
THEOREM ChildInvariantHolds == ChildSpec => [](ChildTypes /\ ChildInv)
<1>1. ChildInit => ChildTypes /\ ChildInv
  BY ChildInitKeeps
<1>2. ChildTypes /\ ChildInv /\ [ChildNext]_childVars => (ChildTypes /\ ChildInv)'
  BY ChildStep
<1> QED BY <1>1, <1>2, PTL DEF ChildSpec

(* Nothing a request started runs on after it or beyond its gate, and no    *)
(* guard signals a program that was given its PID, for any number of        *)
(* requests, PIDs and permits (run_script, install_provider, check_provider, *)
(* handle_terminal, run_hook, cmd_output, Drop for ProcessTreeGuard).       *)
THEOREM ChildrenAreContained == ChildSpec => []ChildrenContained
<1>1. ASSUME ChildTypes, ChildInv
      PROVE  ChildrenContained
  <2> USE <1>1 DEF ChildInv
  <2>1. ASSUME NEW r \in Requests, Running(r)
        PROVE  r \in held /\ (At(r, "attach") \/ tree[r].guard)
    BY <2>1 DEF ChildTypes, JobType, Stages, Guarded, GateKept, At
  <2>2. ASSUME NEW k \in Kinds
        PROVE  Cardinality({r \in Requests : Running(r) /\ Gate(job[r].kind) = Gate(k)})
                 <= Capacity(Gate(k))
    <3> DEFINE S == {r \in Requests : Running(r) /\ Gate(job[r].kind) = Gate(k)}
    <3>1. S \subseteq Holders(Gate(k))
      BY <2>1 DEF Holders
    <3>2. Cardinality(S) <= Cardinality(Holders(Gate(k))) /\ Cardinality(S) \in Nat
      BY <3>1, HoldersFinite, FS_Subset, FS_CardinalityType
    <3>3. Cardinality(Holders(Gate(k))) <= Capacity(Gate(k))
      BY DEF GatesKept, Gates
    <3> HIDE DEF S
    <3> QED BY <3>2, <3>3, HoldersFinite, CapacityNat DEF S
  <2>3. \A r \in terminals : job[r].kind = "terminal" /\ r \in held
    BY DEF ChildTypes, SetTypes, JobType, GateKept, Kinds
  <2> QED BY <2>1, <2>2, <2>3 DEF ChildrenContained
<1> QED BY <1>1, ChildInvariantHolds, PTL

-----------------------------------------------------------------------------
(* The Telegram poller.                                                     *)
Offsets == 0 .. MaxUpdates
Checkpoints == [token : Fingerprints, next : Offsets]
Positions == [pc : {"off", "cycle", "poll", "handle", "handled", "save"},
              token : Fingerprints, active : Fingerprints, offset : Offsets,
              checkpoint : Checkpoints, batch : SUBSET Ids]
Updates == BotTokens \X Ids

ConfigType == config \in [on : BOOLEAN, token : BotTokens]
TelegramTypes == posted \in [BotTokens -> Offsets] /\ forgotten \in [BotTokens -> Offsets]
SavedTypes == disk \in Checkpoints /\ detached \in Checkpoints
BotType == bot \in Positions
HistoryTypes == handled \in [Updates -> Nat] /\ excused \subseteq Updates

Polling == {"poll", "handle", "handled", "save"}
Reading == {"handle", "handled", "save"}

(* The poller's offset is that of its checkpoint, if that is the token's.  *)
Follows ==
  /\ bot.pc \in Polling => bot.token = bot.active /\ bot.active \in BotTokens
  /\ bot.active \in BotTokens =>
       bot.offset = IF bot.checkpoint.token = bot.active THEN bot.checkpoint.next ELSE 0

(* A batch is handled in order, and what comes before it is behind.        *)
InOrder ==
  bot.pc \in Reading => \E i, j \in Ids :
    /\ i <= j /\ bot.batch = i .. j
    /\ i <= bot.offset \/ i <= forgotten[bot.token]
    /\ forgotten[bot.token] <= bot.offset \/ forgotten[bot.token] <= i
    /\ bot.pc # "handle" => bot.offset <= i /\ handled[<<bot.token, i>>] > 0

(* What is behind an offset, wherever it is, was handled.                  *)
Behind(t, next) == \A i \in Ids : i < next => handled[<<t, i>>] > 0
DoneBehind ==
  /\ \A t \in BotTokens : Behind(t, forgotten[t])
  /\ \A c \in {disk, detached, bot.checkpoint} : c.token \in BotTokens => Behind(c.token, c.next)

(* What was handled is remembered, or may be handled again.                *)
Remembered(t, i) ==
  \/ <<t, i>> \in excused \/ i < forgotten[t]
  \/ disk.token = t /\ i < disk.next
HandledKnown ==
  \A t \in BotTokens, i \in Ids : handled[<<t, i>>] > 0 =>
    Remembered(t, i) \/ <<t, i>> \in Unsettled

(* So is what a save of an aborted poller is about.                        *)
DetachedKnown ==
  detached.token \in BotTokens => \A i \in Ids : i < detached.next => Remembered(detached.token, i)

(* A poller that did not see what the file says will be excused.           *)
Unseen(t, i) == ~(bot.checkpoint.token = t /\ i < bot.checkpoint.next)
UnseenExcused ==
  bot.pc # "off" /\ disk.token \in BotTokens =>
    \A i \in Ids : i < disk.next /\ Unseen(disk.token, i) =>
      <<disk.token, i>> \in excused \/ i < forgotten[disk.token]

OnceOrExcused == \A u \in Updates : handled[u] > 1 => u \in excused

BotTypes == ConfigType /\ TelegramTypes /\ SavedTypes /\ BotType /\ HistoryTypes
BotInv == /\ Follows /\ InOrder /\ DoneBehind /\ HandledKnown /\ DetachedKnown
          /\ UnseenExcused /\ OnceOrExcused

LEMMA FirstOf ==
  ASSUME NEW i \in Nat, NEW j \in Nat, i <= j
  PROVE  First(i .. j) = i /\ (i .. j) \ {i} = (i + 1) .. j
<1>1. i \in i .. j /\ \A k \in i .. j : i <= k
  OBVIOUS
<1>2. ASSUME NEW x \in i .. j, \A k \in i .. j : x <= k
      PROVE  x = i
  BY <1>1, <1>2
<1>3. First(i .. j) = i
  BY <1>1, <1>2 DEF First
<1> QED BY <1>3


LEMMA BotFacts ==
  /\ 0 \in Offsets /\ (\A i \in Ids : i \in Nat) /\ \A o \in Offsets : o \in Nat
  /\ \A i \in Ids : i \in Offsets /\ i + 1 \in Offsets
  /\ Nobody \in Fingerprints /\ BotTokens \subseteq Fingerprints /\ Nobody \notin BotTokens
  /\ Fresh0 \in Checkpoints /\ Fresh0.token = Nobody
  BY BotAssumption DEF Ids, Offsets, Fingerprints, Nobody, Checkpoints, Fresh0

LEMMA OffPosition ==
  Off \in Positions /\ Off.pc = "off" /\ Off.active = Nobody /\ Off.token = Nobody
  /\ Off.checkpoint = Fresh0
  BY BotFacts DEF Off, Positions

(* The update at hand, and the checkpoint that follows it.                 *)
LEMMA AtHand ==
  ASSUME BotTypes, BotInv, bot.pc \in Reading
  PROVE  \E i, j \in Ids :
           /\ i <= j /\ bot.batch = i .. j /\ First(bot.batch) = i
           /\ bot.batch \ {i} = (i + 1) .. j
           /\ bot.token \in BotTokens /\ bot.token = bot.active
           /\ Current = <<bot.token, i>> /\ Current \in Updates
           /\ NextCheckpoint = [token |-> bot.token, next |-> i + 1]
           /\ NextCheckpoint \in Checkpoints
           /\ i <= bot.offset \/ i <= forgotten[bot.token]
           /\ forgotten[bot.token] <= bot.offset \/ forgotten[bot.token] <= i
           /\ bot.pc # "handle" => bot.offset <= i /\ handled[<<bot.token, i>>] > 0
<1>1. bot.token \in BotTokens /\ bot.token = bot.active
  BY DEF BotInv, Follows, Reading, Polling
<1>2. PICK i \in Ids, j \in Ids :
         /\ i <= j /\ bot.batch = i .. j
         /\ i <= bot.offset \/ i <= forgotten[bot.token]
         /\ forgotten[bot.token] <= bot.offset \/ forgotten[bot.token] <= i
         /\ bot.pc # "handle" => bot.offset <= i /\ handled[<<bot.token, i>>] > 0
  BY DEF BotInv, InOrder
<1>3. i \in Nat /\ j \in Nat
  BY BotFacts
<1>4. First(bot.batch) = i /\ bot.batch \ {i} = (i + 1) .. j
  BY <1>2, <1>3, FirstOf
<1>5. Current = <<bot.token, i>> /\ Current \in Updates
  BY <1>1, <1>4 DEF Current, Updates
<1>6. NextCheckpoint = [token |-> bot.token, next |-> i + 1] /\ NextCheckpoint \in Checkpoints
  BY <1>1, <1>4, BotFacts DEF NextCheckpoint, Checkpoints
<1> QED BY <1>1, <1>2, <1>4, <1>5, <1>6

LEMMA StartBotTypes ==
  ASSUME BotTypes, StartBot
  PROVE  BotType'
<1> bot' = [Off EXCEPT !.pc = "cycle", !.checkpoint = disk]
  BY DEF StartBot
<1> disk \in Checkpoints
  BY DEF BotTypes, SavedTypes
<1> QED BY OffPosition DEF BotType, Positions

LEMMA CycleTypes ==
  ASSUME BotTypes, Cycle
  PROVE  BotType'
<1>1. PICK o : /\ o = IF bot.active = config.token THEN bot.offset
                      ELSE IF bot.checkpoint.token = config.token
                           THEN bot.checkpoint.next ELSE 0
               /\ bot' = [bot EXCEPT !.pc = "poll", !.token = config.token,
                                     !.active = config.token, !.offset = o]
  BY DEF Cycle
<1>2. o \in Offsets
  BY <1>1, BotFacts DEF BotTypes, BotType, Positions, Checkpoints
<1>3. config.token \in Fingerprints
  BY BotFacts DEF BotTypes, ConfigType
<1> HIDE DEF BotTypes
<1>4. bot \in Positions
  BY DEF BotTypes, BotType
<1> QED BY <1>1, <1>2, <1>3, <1>4 DEF BotType, Positions

LEMMA GetUpdatesEffect ==
  ASSUME BotTypes, BotInv, GetUpdates
  PROVE  \E k \in Offsets :
           /\ bot.token \in BotTokens /\ bot.token = bot.active
           /\ k = IF bot.offset > forgotten[bot.token] THEN bot.offset
                     ELSE forgotten[bot.token]
           /\ \/ forgotten' = [forgotten EXCEPT ![bot.token] = k]
              \/ UNCHANGED forgotten
           /\ \/ bot' = [bot EXCEPT !.pc = "cycle"]
              \/ /\ forgotten'[bot.token] = k
                 /\ \E i, j \in Ids :
                      /\ i \in forgotten[bot.token] .. k /\ i <= j
                      /\ bot' = [bot EXCEPT !.pc = "handle", !.batch = i .. j]
           /\ UNCHANGED <<config, posted, disk, detached, handled, excused, spent>>
<1> DEFINE t == bot.token
           kept == IF bot.offset > forgotten[t] THEN bot.offset ELSE forgotten[t]
<1>1. t \in BotTokens /\ t = bot.active
  BY DEF BotInv, Follows, GetUpdates, Polling
<1>2. /\ kept \in Offsets /\ forgotten[t] \in Offsets /\ posted[t] \in Offsets
  BY <1>1 DEF BotTypes, BotType, Positions, TelegramTypes
<1>3. \A i \in forgotten[t] .. kept : \A j \in i .. (posted[t] - 1) :
         i \in Ids /\ j \in Ids /\ i <= j
  BY <1>2, BotAssumption DEF Offsets, Ids
<1>4. /\ \/ forgotten' = [forgotten EXCEPT ![t] = kept]
         \/ UNCHANGED forgotten
      /\ \/ bot' = [bot EXCEPT !.pc = "cycle"]
         \/ /\ forgotten'[t] = kept
            /\ \E i \in forgotten[t] .. kept : \E j \in i .. (posted[t] - 1) :
                 bot' = [bot EXCEPT !.pc = "handle", !.batch = i .. j]
      /\ UNCHANGED <<config, posted, disk, detached, handled, excused, spent>>
  BY DEF GetUpdates
<1> HIDE DEF kept, t
<1>5. \/ bot' = [bot EXCEPT !.pc = "cycle"]
      \/ /\ forgotten'[t] = kept
         /\ \E i, j \in Ids :
              /\ i \in forgotten[t] .. kept /\ i <= j
              /\ bot' = [bot EXCEPT !.pc = "handle", !.batch = i .. j]
  BY <1>3, <1>4
<1>6. kept = IF bot.offset > forgotten[t] THEN bot.offset ELSE forgotten[t]
  BY DEF kept
<1> QED BY <1>1, <1>2, <1>4, <1>5, <1>6 DEF t


(* Telegram forgets what the poller has behind it.                         *)
LEMMA GetUpdatesKeeps ==
  ASSUME BotTypes, BotInv, GetUpdates
  PROVE  BotTypes' /\ BotInv'
<1> DEFINE t == bot.token
<1>1. PICK k \in Offsets :
        /\ t \in BotTokens /\ t = bot.active
        /\ k = IF bot.offset > forgotten[t] THEN bot.offset ELSE forgotten[t]
        /\ \/ forgotten' = [forgotten EXCEPT ![t] = k]
           \/ UNCHANGED forgotten
        /\ \/ bot' = [bot EXCEPT !.pc = "cycle"]
           \/ /\ forgotten'[t] = k
              /\ \E i, j \in Ids :
                   /\ i \in forgotten[t] .. k /\ i <= j
                   /\ bot' = [bot EXCEPT !.pc = "handle", !.batch = i .. j]
        /\ UNCHANGED <<config, posted, disk, detached, handled, excused, spent>>
  BY GetUpdatesEffect
<1>2. bot.pc = "poll"
  BY DEF GetUpdates
<1>3. /\ \A u \in BotTokens : forgotten[u] \in Nat /\ forgotten'[u] \in Nat
      /\ \A u \in BotTokens : forgotten[u] <= forgotten'[u]
      /\ \A u \in BotTokens \ {t} : forgotten'[u] = forgotten[u]
      /\ forgotten'[t] \in {forgotten[t], k} /\ k \in Nat /\ bot.offset \in Nat
      /\ (k = bot.offset /\ forgotten[t] < k) \/ (k = forgotten[t] /\ bot.offset <= k)
  <2>1. forgotten \in [BotTokens -> Offsets] /\ bot.offset \in Nat /\ k \in Nat
    BY BotFacts DEF BotTypes, TelegramTypes, BotType, Positions
  <2>2. \A u \in BotTokens : forgotten[u] \in Nat
    BY <2>1, BotFacts
  <2>3. forgotten[t] \in Nat /\ k = IF bot.offset > forgotten[t] THEN bot.offset
                                    ELSE forgotten[t]
    BY <1>1, <2>2
  <2>4. (k = bot.offset /\ forgotten[t] < k) \/ (k = forgotten[t] /\ bot.offset <= k)
    BY <2>1, <2>3
  <2>7. t \in BotTokens
    BY <1>1
  <2> HIDE DEF t
  <2>5. CASE forgotten' = forgotten
    <3>1. \A u \in BotTokens : forgotten'[u] = forgotten[u]
      BY <2>5
    <3> QED BY <2>1, <2>2, <2>4, <2>7, <3>1
  <2>6. CASE forgotten' = [forgotten EXCEPT ![t] = k]
    <3>1. forgotten'[t] = k /\ \A u \in BotTokens \ {t} : forgotten'[u] = forgotten[u]
      BY <1>1, <2>1, <2>6
    <3> QED BY <2>1, <2>2, <2>4, <3>1
  <2> QED BY <1>1, <2>5, <2>6
<1>4. TelegramTypes'
  BY <1>1 DEF BotTypes, TelegramTypes
<1>5. BotType' /\ bot'.pc \in {"cycle", "handle"} /\ bot'.token = t /\ bot'.active = t
      /\ bot'.offset = bot.offset /\ bot'.checkpoint = bot.checkpoint
  <2>1. bot \in Positions
    BY DEF BotTypes, BotType
  <2>2. \A i, j \in Ids : i .. j \in SUBSET Ids
    BY BotAssumption DEF Ids
  <2> HIDE DEF t
  <2>3. CASE bot' = [bot EXCEPT !.pc = "cycle"]
    BY <2>1, <2>3, <1>1 DEF BotType, Positions, t
  <2>4. CASE \E i, j \in Ids : bot' = [bot EXCEPT !.pc = "handle", !.batch = i .. j]
    BY <2>1, <2>2, <2>4, <1>1 DEF BotType, Positions, t
  <2> QED BY <1>1, <2>3, <2>4
<1>6. BotTypes'
  BY <1>1, <1>4, <1>5 DEF BotTypes, ConfigType, SavedTypes, HistoryTypes
<1>7. Follows'
  BY <1>1, <1>5 DEF BotInv, Follows
<1>8. InOrder'
  <2>1. SUFFICES ASSUME bot'.pc = "handle"
                 PROVE  InOrder'
    BY <1>5 DEF InOrder, Reading
  <2>2. PICK i \in Ids, j \in Ids :
          /\ i \in forgotten[t] .. k /\ i <= j /\ forgotten'[t] = k
          /\ bot' = [bot EXCEPT !.pc = "handle", !.batch = i .. j]
    BY <1>1, <2>1 DEF BotTypes, BotType, Positions
  <2>3. bot'.batch = i .. j
    BY <2>2 DEF BotTypes, BotType, Positions
  <2>4. i <= forgotten'[t] /\ (forgotten'[t] <= bot.offset \/ forgotten'[t] <= i)
    BY <1>3, <2>2, BotFacts
  <2> QED BY <1>5, <2>1, <2>2, <2>3, <2>4 DEF InOrder
<1>9. \A i \in Ids : i < k => handled[<<t, i>>] > 0
  <2>1. Behind(t, forgotten[t])
    BY <1>1 DEF BotInv, DoneBehind
  <2>2. bot.checkpoint.token = t => Behind(t, bot.checkpoint.next)
    BY <1>1 DEF BotInv, DoneBehind
  <2>3. \A i \in Ids : ~(i < 0)
    BY BotFacts
  <2>4. bot.offset = IF bot.checkpoint.token = t THEN bot.checkpoint.next ELSE 0
    BY <1>1 DEF BotInv, Follows
  <2> QED BY <1>3, <2>1, <2>2, <2>3, <2>4 DEF Behind
<1>10. DoneBehind'
  <2>1. \A u \in BotTokens : \A i \in Ids : i < forgotten'[u] => handled[<<u, i>>] > 0
    BY <1>3, <1>9 DEF BotInv, DoneBehind, Behind
  <2> QED BY <1>1, <1>5, <2>1 DEF BotInv, DoneBehind, Behind
<1>11. \A u \in BotTokens, i \in Ids : i < forgotten[u] => i < forgotten'[u]
  BY <1>3, BotFacts
<1>15. \A u \in BotTokens, i \in Ids : Remembered(u, i) => Remembered(u, i)'
  BY <1>1, <1>11 DEF Remembered
<1>12. HandledKnown' /\ DetachedKnown'
  BY <1>1, <1>2, <1>5, <1>15 DEF BotInv, HandledKnown, DetachedKnown, Unsettled
<1>13. UnseenExcused'
  BY <1>1, <1>2, <1>11, <1>5 DEF BotInv, UnseenExcused, Unseen
<1>14. OnceOrExcused'
  BY <1>1 DEF BotInv, OnceOrExcused
<1> QED BY <1>6, <1>7, <1>8, <1>10, <1>12, <1>13, <1>14 DEF BotInv

(* An update is handled for the first time, or was excused.                *)
LEMMA HandleKeeps ==
  ASSUME BotTypes, BotInv, Handle
  PROVE  BotTypes' /\ BotInv'
<1> DEFINE t == bot.token
<1>1. PICK i \in Ids, j \in Ids :
           /\ i <= j /\ bot.batch = i .. j /\ First(bot.batch) = i
           /\ bot.batch \ {i} = (i + 1) .. j
           /\ t \in BotTokens /\ t = bot.active
           /\ Current = <<t, i>> /\ Current \in Updates
           /\ i <= bot.offset \/ i <= forgotten[t]
           /\ forgotten[t] <= bot.offset \/ forgotten[t] <= i
  BY AtHand DEF Handle, Reading
<1>2. bot.pc = "handle" /\ bot \in Positions
      /\ UNCHANGED <<config, posted, forgotten, disk, detached, excused, spent>>
  BY DEF Handle, BotTypes, BotType
<1>3. i \in Nat /\ j \in Nat /\ bot.offset \in Nat /\ forgotten[t] \in Nat
  BY <1>1, <1>2, BotFacts DEF BotTypes, TelegramTypes, Positions
<1>4. \A u \in BotTokens, m \in Ids : Remembered(u, m) => Remembered(u, m)'
  BY <1>2 DEF Remembered
<1>5. CASE i < bot.offset
  <2>1. handled' = handled
        /\ bot' = [bot EXCEPT !.batch = (i + 1) .. j,
                              !.pc = IF bot.batch = {i} THEN "cycle" ELSE "handle"]
    BY <1>1, <1>2, <1>5 DEF Handle
  <2>2. (i + 1) .. j \in SUBSET Ids
    BY <1>1, <1>3, BotAssumption DEF Ids
  <2>3. /\ BotType' /\ bot'.pc \in {"cycle", "handle"} /\ bot'.token = t /\ bot'.active = t
        /\ bot'.offset = bot.offset /\ bot'.checkpoint = bot.checkpoint
        /\ bot'.batch = (i + 1) .. j /\ (bot'.pc = "handle" => bot.batch # {i})
    <3> HIDE DEF t
    <3> QED BY <1>1, <1>2, <2>1, <2>2 DEF BotType, Positions, t
  <2>4. BotTypes'
    BY <1>2, <2>1, <2>3 DEF BotTypes, ConfigType, TelegramTypes, SavedTypes, HistoryTypes
  <2>5. Follows'
    BY <1>1, <1>2, <2>3 DEF BotInv, Follows
  <2>6. InOrder'
    <3>1. SUFFICES ASSUME bot'.pc = "handle"
                   PROVE  InOrder'
      BY <2>3 DEF InOrder, Reading
    <3>2. i + 1 <= j
      BY <1>1, <1>3, <2>3, <3>1
    <3>3. i + 1 \in Ids
      BY <1>1, <1>3, <3>2, BotAssumption DEF Ids
    <3>4. i + 1 <= bot.offset
      BY <1>3, <1>5
    <3>5. forgotten[t] <= bot.offset \/ forgotten[t] <= i + 1
      BY <1>1, <1>3
    <3> QED BY <1>1, <1>2, <2>3, <3>1, <3>2, <3>3, <3>4, <3>5 DEF InOrder
  <2>7. DoneBehind'
    BY <1>2, <2>1, <2>3 DEF BotInv, DoneBehind, Behind
  <2>8. HandledKnown' /\ DetachedKnown'
    BY <1>2, <1>4, <2>1, <2>3 DEF BotInv, HandledKnown, DetachedKnown, Unsettled
  <2>9. UnseenExcused' /\ OnceOrExcused'
    BY <1>2, <2>1, <2>3 DEF BotInv, UnseenExcused, Unseen, OnceOrExcused
  <2> QED BY <2>4, <2>5, <2>6, <2>7, <2>8, <2>9 DEF BotInv
<1>6. CASE bot.offset <= i
  <2>1. handled' = [handled EXCEPT ![<<t, i>>] = @ + 1]
        /\ bot' = [bot EXCEPT !.pc = "handled"]
    BY <1>1, <1>2, <1>3, <1>6 DEF Handle
  <2>2. /\ BotType' /\ bot'.pc = "handled" /\ bot'.token = t /\ bot'.active = t
        /\ bot'.offset = bot.offset /\ bot'.checkpoint = bot.checkpoint
        /\ bot'.batch = bot.batch
    <3> HIDE DEF t
    <3> QED BY <1>2, <1>1, <2>1 DEF BotType, Positions, t
  <2>3. /\ HistoryTypes' /\ handled'[<<t, i>>] = handled[<<t, i>>] + 1
        /\ \A u \in Updates \ {<<t, i>>} : handled'[u] = handled[u]
        /\ \A u \in Updates : handled[u] \in Nat /\ handled'[u] \in Nat
                              /\ handled'[u] >= handled[u]
    BY <1>1, <1>2, <2>1 DEF BotTypes, HistoryTypes
  <2>4. BotTypes'
    BY <1>2, <2>2, <2>3 DEF BotTypes, ConfigType, TelegramTypes, SavedTypes
  <2>5. Follows'
    BY <1>1, <1>2, <2>2 DEF BotInv, Follows
  <2>6. handled'[<<t, i>>] > 0
    BY <1>1, <2>3
  <2>7. InOrder'
    BY <1>1, <1>2, <1>6, <2>2, <2>6 DEF InOrder
  <2>8. \A u \in BotTokens, m \in Ids : <<u, m>> \in Updates
    BY DEF Updates
  <2>9. DoneBehind'
    BY <1>1, <1>2, <2>2, <2>3, <2>6, <2>8 DEF BotInv, DoneBehind, Behind
  <2>10. Unsettled' = {<<t, i>>} /\ Unsettled = {}
    BY <1>1, <1>2, <2>2 DEF Unsettled, Current
  <2>11. HandledKnown'
    BY <1>4, <2>3, <2>8, <2>10 DEF BotInv, HandledKnown
  <2>12. DetachedKnown' /\ UnseenExcused'
    BY <1>2, <1>4, <2>2 DEF BotInv, DetachedKnown, UnseenExcused, Unseen
  <2>13. handled[<<t, i>>] > 0 => <<t, i>> \in excused
    <3>1. SUFFICES ASSUME handled[<<t, i>>] > 0, <<t, i>> \notin excused
                   PROVE  FALSE
      OBVIOUS
    <3>2. Remembered(t, i)
      BY <1>1, <2>10, <3>1 DEF BotInv, HandledKnown
    <3>3. ~(i < forgotten[t])
      BY <1>1, <1>3, <1>6
    <3>4. disk.token = t /\ i < disk.next
      BY <3>1, <3>2, <3>3 DEF Remembered
    <3>5. Unseen(t, i)
      BY <1>1, <1>3, <1>6 DEF BotInv, Follows, Unseen
    <3> QED BY <1>1, <1>2, <3>1, <3>3, <3>4, <3>5 DEF BotInv, UnseenExcused
  <2>14. OnceOrExcused'
    BY <1>1, <1>2, <2>3, <2>13 DEF BotInv, OnceOrExcused
  <2> QED BY <2>4, <2>5, <2>7, <2>9, <2>11, <2>12, <2>14 DEF BotInv
<1> QED BY <1>3, <1>5, <1>6


LEMMA UnsettledTyped ==
  ASSUME BotTypes, BotInv
  PROVE  Unsettled \subseteq Updates
  BY AtHand DEF Unsettled, Reading

(* What the file forgets when its token changes may be handled again.      *)
LEMMA RememberedAcrossSave ==
  ASSUME BotTypes, BotTypes', NEW c \in Checkpoints, disk' = c, Monotonic(c),
         forgotten' = forgotten,
         excused \subseteq excused', Dropped(c) \subseteq excused',
         NEW t \in BotTokens, NEW i \in Ids, Remembered(t, i)
  PROVE  Remembered(t, i)'
<1>1. CASE c.token = disk.token
  <2>1. i \in Nat /\ c.next \in Nat /\ disk.next \in Nat /\ c.next >= disk.next
    BY <1>1, BotFacts DEF BotTypes, SavedTypes, Checkpoints, Monotonic
  <2> QED BY <1>1, <2>1 DEF Remembered
<1>2. CASE c.token # disk.token
  <2>1. i \in Nat /\ forgotten[t] \in Nat
    BY BotFacts DEF BotTypes, TelegramTypes
  <2>2. disk.token = t /\ i < disk.next /\ i >= forgotten[t] => <<t, i>> \in Dropped(c)
    BY <1>2 DEF Dropped
  <2> QED BY <2>1, <2>2 DEF Remembered
<1> QED BY <1>1, <1>2

(* All up to the update at hand is behind.                                 *)
LEMMA BehindHand ==
  ASSUME BotTypes, BotInv, bot.pc \in {"handled", "save"}
  PROVE  \E i \in Ids : /\ bot.token \in BotTokens /\ Current = <<bot.token, i>>
                        /\ NextCheckpoint = [token |-> bot.token, next |-> i + 1]
                        /\ NextCheckpoint \in Checkpoints
                        /\ Behind(bot.token, i + 1)
<1>1. PICK i \in Ids, j \in Ids :
        /\ bot.token \in BotTokens /\ bot.token = bot.active
        /\ Current = <<bot.token, i>>
        /\ NextCheckpoint = [token |-> bot.token, next |-> i + 1]
        /\ NextCheckpoint \in Checkpoints
        /\ i <= bot.offset \/ i <= forgotten[bot.token]
        /\ bot.offset <= i /\ handled[<<bot.token, i>>] > 0
  <2>1. bot.pc \in Reading /\ bot.pc # "handle"
    BY DEF Reading
  <2> QED BY <2>1, AtHand
<1> DEFINE t == bot.token
<1>2. Behind(t, forgotten[t]) /\ (bot.checkpoint.token = t => Behind(t, bot.checkpoint.next))
      /\ bot.offset = IF bot.checkpoint.token = t THEN bot.checkpoint.next ELSE 0
  BY <1>1 DEF BotInv, Follows, DoneBehind
<1>3. bot.offset \in Nat /\ forgotten[t] \in Nat /\ \A m \in Ids : m \in Nat
  BY <1>1, BotFacts DEF BotTypes, BotType, Positions, TelegramTypes
<1>4. ASSUME NEW m \in Ids, m < i + 1
      PROVE  handled[<<t, m>>] > 0
  <2>1. m \in Nat /\ i \in Nat /\ (m < i \/ m = i)
    BY <1>3, <1>4
  <2>2. CASE m = i
    BY <1>1, <2>2
  <2>3. CASE m < i /\ i <= forgotten[t]
    BY <1>2, <1>3, <2>1, <2>3 DEF Behind
  <2>4. CASE m < i /\ i <= bot.offset
    <3>1. m < bot.offset /\ ~(m < 0)
      BY <1>3, <2>1, <2>4
    <3> QED BY <1>2, <3>1 DEF Behind
  <2> QED BY <1>1, <2>1, <2>2, <2>3, <2>4
<1>5. Behind(t, i + 1)
  BY <1>4 DEF Behind
<1> QED BY <1>1, <1>5

LEMMA SaveCheckpointKeeps ==
  ASSUME BotTypes, BotInv, SaveCheckpoint
  PROVE  BotTypes' /\ BotInv'
<1> DEFINE t == bot.token
<1>1. PICK i \in Ids, j \in Ids :
           /\ i <= j /\ First(bot.batch) = i /\ bot.batch \ {i} = (i + 1) .. j
           /\ t \in BotTokens /\ t = bot.active
           /\ Current = <<t, i>> /\ Current \in Updates
           /\ NextCheckpoint = [token |-> t, next |-> i + 1]
           /\ NextCheckpoint \in Checkpoints
           /\ forgotten[t] <= bot.offset \/ forgotten[t] <= i
           /\ bot.offset <= i /\ handled[<<t, i>>] > 0
  <2>1. bot.pc \in Reading /\ bot.pc # "handle"
    BY DEF Reading, SaveCheckpoint
  <2> QED BY <2>1, AtHand
<1>2. /\ bot.pc = "save" /\ bot \in Positions /\ Monotonic(NextCheckpoint)
      /\ disk' = NextCheckpoint /\ excused' = excused \cup Dropped(NextCheckpoint)
      /\ UNCHANGED <<config, posted, forgotten, detached, handled, spent>>
  BY DEF SaveCheckpoint, BotTypes, BotType
<1>3. i \in Nat /\ j \in Nat /\ bot.offset \in Nat /\ forgotten[t] \in Nat
      /\ i + 1 \in Offsets
  BY <1>1, <1>2, BotFacts DEF BotTypes, TelegramTypes, Positions
<1>4. bot' = [bot EXCEPT !.checkpoint = NextCheckpoint, !.offset = i + 1,
                         !.batch = (i + 1) .. j,
                         !.pc = IF (i + 1) .. j = {} THEN "cycle" ELSE "handle"]
  BY <1>1 DEF SaveCheckpoint
<1>5. (i + 1) .. j \in SUBSET Ids
  BY <1>1, <1>3, BotAssumption DEF Ids
<1>6. /\ BotType' /\ bot'.pc \in {"cycle", "handle"} /\ bot'.token = t /\ bot'.active = t
      /\ bot'.offset = i + 1 /\ bot'.checkpoint = NextCheckpoint
      /\ bot'.batch = (i + 1) .. j /\ (bot'.pc = "handle" => (i + 1) .. j # {})
  <2> HIDE DEF t
  <2>1. /\ NextCheckpoint \in Checkpoints /\ i + 1 \in Offsets /\ t = bot.active
        /\ bot \in Positions
    BY <1>1, <1>2, <1>3
  <2> QED BY <1>4, <1>5, <2>1 DEF BotType, Positions, t
<1>7. BotTypes'
  BY <1>1, <1>2, <1>6 DEF BotTypes, ConfigType, TelegramTypes, SavedTypes, HistoryTypes,
     Dropped, Updates
<1>8. Follows'
  BY <1>1, <1>6 DEF Follows
<1>9. InOrder'
  <2>1. SUFFICES ASSUME bot'.pc = "handle"
                 PROVE  InOrder'
    BY <1>6 DEF InOrder, Reading
  <2>2. i + 1 <= j /\ i + 1 \in Ids
    BY <1>1, <1>3, <1>6, <2>1, BotAssumption DEF Ids
  <2>3. forgotten[t] <= i + 1
    BY <1>1, <1>3
  <2> QED BY <1>2, <1>3, <1>6, <2>1, <2>2, <2>3 DEF InOrder
<1>10. Behind(t, i + 1)
  <2>1. PICK m \in Ids : /\ NextCheckpoint = [token |-> t, next |-> m + 1]
                         /\ Behind(t, m + 1)
    BY <1>2, BehindHand
  <2>2. m + 1 = i + 1
    BY <1>1, <2>1
  <2> QED BY <2>1, <2>2
<1>11. DoneBehind'
  BY <1>1, <1>2, <1>6, <1>10 DEF BotInv, DoneBehind, Behind
<1>12. \A u \in BotTokens, m \in Ids : Remembered(u, m) => Remembered(u, m)'
  <2>1. PICK c \in Checkpoints : /\ disk' = c /\ Monotonic(c) /\ Dropped(c) \subseteq excused'
                                 /\ excused \subseteq excused' /\ forgotten' = forgotten
    BY <1>1, <1>2 DEF Monotonic, Dropped
  <2> HIDE DEF t
  <2> QED BY <2>1, <1>7, RememberedAcrossSave
<1>13. Remembered(t, i)'
  BY <1>1, <1>2, <1>3, <1>6 DEF Remembered
<1>14. Unsettled = {<<t, i>>}
  BY <1>1, <1>2 DEF Unsettled
<1>15. HandledKnown'
  <2>1. ASSUME NEW u \in BotTokens, NEW m \in Ids, handled[<<u, m>>] > 0
        PROVE  Remembered(u, m)'
    <3>1. Remembered(u, m) \/ <<u, m>> \in Unsettled
      BY <2>1 DEF BotInv, HandledKnown
    <3>2. <<u, m>> \in Unsettled => u = t /\ m = i
      BY <1>14
    <3>3. CASE Remembered(u, m)
      BY <1>12, <3>3
    <3>4. CASE u = t /\ m = i
      BY <1>6, <1>13, <3>4 DEF Remembered
    <3> QED BY <3>1, <3>2, <3>3, <3>4
  <2> QED BY <1>2, <2>1 DEF HandledKnown
<1>16. DetachedKnown'
  BY <1>2, <1>12 DEF BotInv, DetachedKnown
<1>17. UnseenExcused' /\ OnceOrExcused'
  BY <1>2, <1>6 DEF BotInv, UnseenExcused, Unseen, OnceOrExcused
<1> QED BY <1>7, <1>8, <1>9, <1>11, <1>15, <1>16, <1>17 DEF BotInv

LEMMA SaveFailsKeeps ==
  ASSUME BotTypes, BotInv, SaveFails
  PROVE  BotTypes' /\ BotInv'
<1> DEFINE t == bot.token
<1>1. PICK i \in Ids : /\ t \in BotTokens /\ Current = <<t, i>>
                       /\ NextCheckpoint = [token |-> t, next |-> i + 1]
                       /\ NextCheckpoint \in Checkpoints
                       /\ Behind(t, i + 1)
  BY BehindHand DEF SaveFails
<1>2. /\ bot.pc = "save" /\ bot' = Off
      /\ UNCHANGED <<config, posted, forgotten, detached, handled>>
      /\ Current \in excused' /\ excused \subseteq excused'
      /\ excused' \subseteq excused \cup {Current} \cup Dropped(NextCheckpoint)
      /\ \/ disk' = disk
         \/ /\ disk' = NextCheckpoint /\ Monotonic(NextCheckpoint)
            /\ Dropped(NextCheckpoint) \subseteq excused'
  BY DEF SaveFails, Write
<1>3. BotTypes'
  BY <1>1, <1>2, OffPosition DEF BotTypes, ConfigType, TelegramTypes, SavedTypes, BotType,
     HistoryTypes, Dropped, Updates
<1>4. Follows' /\ InOrder' /\ UnseenExcused'
  BY <1>2, OffPosition, BotFacts DEF Follows, InOrder, UnseenExcused, Polling, Reading
<1>5. DoneBehind'
  BY <1>1, <1>2, OffPosition, BotFacts DEF BotInv, DoneBehind, Behind
<1>6. \A u \in BotTokens, m \in Ids : Remembered(u, m) => Remembered(u, m)'
  <2>1. CASE disk' = disk
    BY <1>2, <2>1 DEF Remembered
  <2>2. CASE disk' = NextCheckpoint /\ Monotonic(NextCheckpoint)
             /\ Dropped(NextCheckpoint) \subseteq excused'
    BY <1>1, <1>2, <1>3, <2>2, RememberedAcrossSave
  <2> QED BY <1>2, <2>1, <2>2
<1>7. Unsettled = {Current}
  BY <1>2 DEF Unsettled
<1>8. HandledKnown'
  <2>1. ASSUME NEW u \in BotTokens, NEW m \in Ids, handled[<<u, m>>] > 0
        PROVE  Remembered(u, m)'
    <3>1. Remembered(u, m) \/ <<u, m>> = Current
      BY <1>7, <2>1 DEF BotInv, HandledKnown
    <3> QED BY <1>2, <1>6, <3>1 DEF Remembered
  <2> QED BY <1>2, <2>1 DEF HandledKnown
<1>9. DetachedKnown' /\ OnceOrExcused'
  BY <1>2, <1>6 DEF BotInv, DetachedKnown, OnceOrExcused
<1> QED BY <1>3, <1>4, <1>5, <1>8, <1>9 DEF BotInv

(* The end of a poller, by a crash or an abort.                            *)
LEMMA EndKeeps ==
  ASSUME BotTypes, BotInv, bot' = Off, excused' = excused \cup Unsettled,
         UNCHANGED <<config, posted, forgotten, disk, handled>>,
         \/ detached' \in {detached, Fresh0}
         \/ bot.pc = "save" /\ detached' = NextCheckpoint
  PROVE  BotTypes' /\ BotInv'
<1>1. bot.pc = "save" => \E i \in Ids : /\ bot.token \in BotTokens
                                        /\ Current = <<bot.token, i>>
                                        /\ NextCheckpoint = [token |-> bot.token, next |-> i + 1]
                                        /\ NextCheckpoint \in Checkpoints
                                        /\ Behind(bot.token, i + 1)
  BY BehindHand
<1>2. BotTypes'
  <2>1. SavedTypes'
    BY <1>1, BotFacts DEF BotTypes, SavedTypes
  <2> QED BY <2>1, UnsettledTyped, OffPosition DEF BotTypes, ConfigType, TelegramTypes, BotType,
     HistoryTypes
<1>3. Follows' /\ InOrder' /\ UnseenExcused' /\ OnceOrExcused'
  BY OffPosition, BotFacts DEF Follows, InOrder, UnseenExcused, Polling, Reading, BotInv,
     OnceOrExcused
<1>4. DoneBehind'
  BY <1>1, OffPosition, BotFacts DEF BotInv, DoneBehind, Behind
<1>5. \A u \in BotTokens, m \in Ids :
         Remembered(u, m) \/ <<u, m>> \in Unsettled => Remembered(u, m)'
  BY DEF Remembered
<1>6. HandledKnown'
  BY <1>5 DEF BotInv, HandledKnown
<1>7. DetachedKnown'
  <2>1. CASE detached' \in {detached, Fresh0}
    BY <1>5, <2>1, BotFacts DEF BotInv, DetachedKnown
  <2>2. CASE bot.pc = "save" /\ detached' = NextCheckpoint
    <3>1. PICK t \in BotTokens, i \in Ids : /\ detached' = [token |-> t, next |-> i + 1]
                                            /\ Behind(t, i + 1)
      BY <1>1, <2>2
    <3>2. ASSUME NEW m \in Ids, m < i + 1
          PROVE  Remembered(t, m)'
      <4>1. handled[<<t, m>>] > 0
        BY <3>1, <3>2 DEF Behind
      <4>2. Remembered(t, m) \/ <<t, m>> \in Unsettled
        BY <4>1 DEF BotInv, HandledKnown
      <4> QED BY <1>5, <4>2
    <3>3. detached'.token = t /\ detached'.next = i + 1
      BY <3>1
    <3>4. \A m \in Ids : m < detached'.next => Remembered(t, m)'
      BY <3>2, <3>3
    <3> QED BY <3>3, <3>4 DEF DetachedKnown, Remembered
  <2> QED BY <2>1, <2>2
<1> QED BY <1>2, <1>3, <1>4, <1>6, <1>7 DEF BotInv

LEMMA DetachedSaveUnseen ==
  ASSUME BotTypes, BotInv, DetachedSave
  PROVE  UnseenExcused'
<1>1. SUFFICES ASSUME bot.pc # "off", disk'.token \in BotTokens, NEW i \in Ids, i < disk'.next,
                      Unseen(disk'.token, i)
               PROVE  <<disk'.token, i>> \in excused' \/ i < forgotten[disk'.token]
  BY DEF UnseenExcused, Unseen, DetachedSave
<1>2. excused \subseteq excused'
  BY DEF DetachedSave
<1>3. CASE disk' = disk
  BY <1>1, <1>2, <1>3 DEF BotInv, UnseenExcused
<1>4. CASE disk' = detached
  <2>1. Remembered(detached.token, i)
    BY <1>1, <1>4 DEF BotInv, DetachedKnown
  <2>2. CASE disk.token = detached.token /\ i < disk.next
    BY <1>1, <1>2, <1>4, <2>2 DEF BotInv, UnseenExcused
  <2> QED BY <1>2, <1>4, <2>1, <2>2 DEF Remembered
<1> QED BY <1>3, <1>4 DEF DetachedSave, Write

LEMMA BeginSaveOrder ==
  ASSUME BotTypes, BotInv, BeginSave
  PROVE  InOrder'
<1>1. bot.pc = "handled" /\ bot'.pc = "save" /\ bot'.batch = bot.batch /\ bot'.token = bot.token
      /\ bot'.offset = bot.offset /\ UNCHANGED <<forgotten, handled>>
  BY DEF BotTypes, BotType, Positions, BeginSave
<1>2. PICK i \in Ids, j \in Ids :
        /\ i <= j /\ bot.batch = i .. j
        /\ i <= bot.offset \/ i <= forgotten[bot.token]
        /\ forgotten[bot.token] <= bot.offset \/ forgotten[bot.token] <= i
        /\ bot.offset <= i /\ handled[<<bot.token, i>>] > 0
  BY <1>1 DEF BotInv, InOrder, Reading
<1> QED BY <1>1, <1>2 DEF InOrder

LEMMA DetachedSaveKnown ==
  ASSUME BotTypes, BotInv, DetachedSave, BotTypes'
  PROVE  HandledKnown'
<1>1. UNCHANGED <<forgotten, bot, handled>> /\ excused \subseteq excused'
  BY DEF DetachedSave
<1>2. Unsettled' = Unsettled
  BY <1>1 DEF Unsettled, Current
<1>3. \A u \in BotTokens, m \in Ids : Remembered(u, m) => Remembered(u, m)'
  <2>1. CASE disk' = disk
    BY <1>1, <2>1 DEF Remembered
  <2>2. CASE disk' # disk
    <3>1. PICK c \in Checkpoints : disk' = c /\ Monotonic(c) /\ Dropped(c) \subseteq excused'
      BY <2>2 DEF DetachedSave, Write, BotTypes, SavedTypes, Monotonic, Dropped
    <3> QED BY <1>1, <3>1, RememberedAcrossSave
  <2> QED BY <2>1, <2>2
<1> QED BY <1>1, <1>2, <1>3 DEF BotInv, HandledKnown

LEMMA PostKeeps ==
  ASSUME BotTypes, BotInv, NEW t \in BotTokens, Post(t)
  PROVE  BotTypes' /\ BotInv'
<1> USE DEF BotTypes, BotInv
<1>1. ConfigType' /\ SavedTypes' /\ BotType' /\ HistoryTypes'
  BY DEF Post, ConfigType, SavedTypes, BotType, HistoryTypes
<1>2. TelegramTypes'
  BY BotAssumption DEF Post, ConfigType, TelegramTypes, SavedTypes, BotType,
     HistoryTypes, Offsets
<1>3. BotTypes'
  BY <1>1, <1>2
<1>4. Follows' /\ InOrder' /\ DoneBehind' /\ HandledKnown'
      /\ DetachedKnown' /\ UnseenExcused' /\ OnceOrExcused'
  BY DEF Post, Follows, InOrder, DoneBehind, Behind, HandledKnown, Remembered,
     Unsettled, Current, DetachedKnown, Remembered, UnseenExcused, Unseen,
     OnceOrExcused
<1> QED BY <1>3, <1>4

LEMMA UpdateConfigKeeps ==
  ASSUME BotTypes, BotInv, UpdateConfig
  PROVE  BotTypes' /\ BotInv'
<1> USE DEF BotTypes, BotInv
<1>1. TelegramTypes' /\ SavedTypes' /\ BotType' /\ HistoryTypes'
  BY DEF UpdateConfig, TelegramTypes, SavedTypes, BotType, HistoryTypes
<1>2. ConfigType'
  BY BotAssumption DEF UpdateConfig, ConfigType, TelegramTypes, SavedTypes, BotType,
     HistoryTypes
<1>3. BotTypes'
  BY <1>1, <1>2
<1>4. Follows' /\ InOrder' /\ DoneBehind' /\ HandledKnown'
      /\ DetachedKnown' /\ UnseenExcused' /\ OnceOrExcused'
  BY DEF UpdateConfig, Follows, InOrder, DoneBehind, Behind, HandledKnown, Remembered,
     Unsettled, Current, DetachedKnown, Remembered, UnseenExcused, Unseen,
     OnceOrExcused
<1> QED BY <1>3, <1>4

LEMMA StartBotKeeps ==
  ASSUME BotTypes, BotInv, StartBot
  PROVE  BotTypes' /\ BotInv'
<1> USE DEF BotTypes, BotInv
<1>1. ConfigType' /\ TelegramTypes' /\ SavedTypes' /\ HistoryTypes'
  BY DEF StartBot, ConfigType, TelegramTypes, SavedTypes, HistoryTypes
<1>2. BotType'
  BY StartBotTypes
<1>3. BotTypes'
  BY <1>1, <1>2
<1>4. DetachedKnown' /\ OnceOrExcused'
  BY DEF StartBot, DetachedKnown, Remembered, OnceOrExcused
<1>5. Follows'
  BY <1>3, BotAssumption DEF ConfigType, TelegramTypes, SavedTypes, BotType,
     HistoryTypes, StartBot, Off, Nobody, Fresh0, Follows, Polling
<1>6. InOrder'
  BY <1>3, BotAssumption DEF ConfigType, TelegramTypes, SavedTypes, BotType,
     HistoryTypes, StartBot, Off, Nobody, Fresh0, InOrder, Reading, Ids
<1>7. DoneBehind'
  BY <1>3, BotAssumption DEF ConfigType, TelegramTypes, SavedTypes, BotType,
     HistoryTypes, StartBot, Off, Nobody, Fresh0, DoneBehind, Behind, Ids
<1>8. HandledKnown'
  BY <1>3, BotAssumption DEF ConfigType, TelegramTypes, SavedTypes, BotType,
     HistoryTypes, StartBot, Off, Nobody, Fresh0, HandledKnown, Ids, Remembered,
     Unsettled, Current
<1>9. UnseenExcused'
  BY <1>3, BotAssumption DEF ConfigType, TelegramTypes, SavedTypes, BotType,
     HistoryTypes, StartBot, Off, Nobody, Fresh0, UnseenExcused, Ids, Unseen
<1> QED BY <1>3, <1>4, <1>5, <1>6, <1>7, <1>8, <1>9

LEMMA CycleKeeps ==
  ASSUME BotTypes, BotInv, Cycle
  PROVE  BotTypes' /\ BotInv'
<1> USE DEF BotTypes, BotInv
<1>1. ConfigType' /\ TelegramTypes' /\ SavedTypes' /\ HistoryTypes'
  BY DEF Cycle, ConfigType, TelegramTypes, SavedTypes, HistoryTypes
<1>2. BotType'
  BY CycleTypes
<1>3. BotTypes'
  BY <1>1, <1>2
<1>4. DetachedKnown' /\ OnceOrExcused'
  BY DEF Cycle, DetachedKnown, Remembered, OnceOrExcused
<1>5. Follows'
  BY <1>3, BotAssumption DEF ConfigType, TelegramTypes, SavedTypes, BotType,
     HistoryTypes, Cycle, Follows, Polling
<1>6. InOrder'
  BY <1>3, BotAssumption DEF ConfigType, TelegramTypes, SavedTypes, BotType,
     HistoryTypes, Cycle, InOrder, Reading, Ids
<1>7. DoneBehind'
  BY <1>3, BotAssumption DEF ConfigType, TelegramTypes, SavedTypes, BotType,
     HistoryTypes, Cycle, DoneBehind, Behind, Ids
<1>8. HandledKnown'
  BY <1>3, BotAssumption DEF ConfigType, TelegramTypes, SavedTypes, BotType,
     HistoryTypes, Cycle, HandledKnown, Ids, Remembered, Unsettled, Current
<1>9. UnseenExcused'
  BY <1>3, BotAssumption DEF ConfigType, TelegramTypes, SavedTypes, BotType,
     HistoryTypes, Cycle, UnseenExcused, Ids, Unseen
<1> QED BY <1>3, <1>4, <1>5, <1>6, <1>7, <1>8, <1>9

LEMMA BeginSaveKeeps ==
  ASSUME BotTypes, BotInv, BeginSave
  PROVE  BotTypes' /\ BotInv'
<1> USE DEF BotTypes, BotInv
<1>1. ConfigType' /\ TelegramTypes' /\ SavedTypes' /\ HistoryTypes'
  BY DEF BeginSave, ConfigType, TelegramTypes, SavedTypes, HistoryTypes
<1>2. BotType'
  BY BotAssumption DEF BeginSave, ConfigType, TelegramTypes, SavedTypes, BotType,
     HistoryTypes, Positions, Fingerprints, Offsets, Checkpoints, Ids, Nobody
<1>3. BotTypes'
  BY <1>1, <1>2
<1>4. DetachedKnown' /\ OnceOrExcused'
  BY DEF BeginSave, DetachedKnown, Remembered, OnceOrExcused
<1>5. Follows'
  BY <1>3, BotAssumption DEF ConfigType, TelegramTypes, SavedTypes, BotType,
     HistoryTypes, BeginSave, Follows, Polling
<1>6. InOrder'
  BY BeginSaveOrder
<1>7. DoneBehind'
  BY <1>3, BotAssumption DEF ConfigType, TelegramTypes, SavedTypes, BotType,
     HistoryTypes, BeginSave, DoneBehind, Behind, Ids
<1>8. HandledKnown'
  BY <1>3, BotAssumption DEF ConfigType, TelegramTypes, SavedTypes, BotType,
     HistoryTypes, BeginSave, HandledKnown, Ids, Remembered, Unsettled, Current
<1>9. UnseenExcused'
  BY <1>3, BotAssumption DEF ConfigType, TelegramTypes, SavedTypes, BotType,
     HistoryTypes, BeginSave, UnseenExcused, Ids, Unseen
<1> QED BY <1>3, <1>4, <1>5, <1>6, <1>7, <1>8, <1>9

LEMMA DetachedSaveKeeps ==
  ASSUME BotTypes, BotInv, DetachedSave
  PROVE  BotTypes' /\ BotInv'
<1> USE DEF BotTypes, BotInv
<1>1. ConfigType' /\ TelegramTypes' /\ BotType'
  BY DEF DetachedSave, Write, ConfigType, TelegramTypes, BotType
<1>2. SavedTypes'
  BY BotAssumption DEF DetachedSave, Nobody, Fresh0, Write, Monotonic, Dropped, Ids,
     ConfigType, TelegramTypes, SavedTypes, BotType, HistoryTypes, Checkpoints,
     Fingerprints, Offsets
<1>3. HistoryTypes'
  BY BotAssumption DEF DetachedSave, Nobody, Fresh0, Write, Monotonic, Dropped, Ids,
     ConfigType, TelegramTypes, SavedTypes, BotType, HistoryTypes, Updates
<1>4. BotTypes'
  BY <1>1, <1>2, <1>3
<1>5. Follows' /\ InOrder'
  BY DEF DetachedSave, Write, Follows, InOrder
<1>6. DoneBehind'
  BY <1>4, BotAssumption DEF ConfigType, TelegramTypes, SavedTypes, BotType,
     HistoryTypes, DetachedSave, Nobody, Fresh0, Write, Monotonic, Dropped, Ids,
     DoneBehind, Behind
<1>7. HandledKnown'
  BY <1>4, DetachedSaveKnown
<1>8. DetachedKnown'
  BY <1>4, BotAssumption DEF ConfigType, TelegramTypes, SavedTypes, BotType,
     HistoryTypes, DetachedSave, Nobody, Fresh0, Write, Monotonic, Dropped, Ids,
     DetachedKnown, Remembered
<1>9. UnseenExcused'
  BY DetachedSaveUnseen
<1>10. OnceOrExcused'
  BY <1>4, BotAssumption DEF ConfigType, TelegramTypes, SavedTypes, BotType,
     HistoryTypes, DetachedSave, Nobody, Fresh0, Write, Monotonic, Dropped, Ids,
     OnceOrExcused, Updates
<1> QED BY <1>4, <1>5, <1>6, <1>7, <1>8, <1>9, <1>10

LEMMA BotInitKeeps == BotInit => BotTypes /\ BotInv
<1> SUFFICES ASSUME BotInit
             PROVE  BotTypes /\ BotInv
  OBVIOUS
<1>1. /\ config \in [on : BOOLEAN, token : BotTokens] /\ bot = Off /\ disk = Fresh0
      /\ detached = Fresh0 /\ excused = {}
      /\ posted = [t \in BotTokens |-> 0] /\ forgotten = [t \in BotTokens |-> 0]
      /\ handled = [u \in Updates |-> 0]
  BY DEF BotInit, Updates
<1>2. BotTypes
  BY <1>1, OffPosition, BotFacts DEF BotTypes, ConfigType, TelegramTypes, SavedTypes, BotType,
     HistoryTypes
<1>3. \A i \in Ids : ~(i < 0)
  BY BotFacts
<1>4. \A t \in BotTokens, i \in Ids : handled[<<t, i>>] = 0
  BY <1>1 DEF Updates
<1>5. Follows /\ InOrder /\ UnseenExcused
  BY <1>1, OffPosition, BotFacts DEF Follows, InOrder, UnseenExcused, Polling, Reading
<1>6. DoneBehind /\ DetachedKnown
  BY <1>1, <1>3, OffPosition, BotFacts DEF DoneBehind, Behind, DetachedKnown
<1>7. HandledKnown /\ OnceOrExcused
  BY <1>1, <1>4 DEF HandledKnown, OnceOrExcused, Updates
<1> QED BY <1>2, <1>5, <1>6, <1>7 DEF BotInv

LEMMA BotStep == BotTypes /\ BotInv /\ [BotNext]_botVars => BotTypes' /\ BotInv'
<1> SUFFICES ASSUME BotTypes, BotInv, [BotNext]_botVars
             PROVE  BotTypes' /\ BotInv'
  OBVIOUS
<1>1. ASSUME NEW t \in BotTokens, Post(t)
      PROVE  BotTypes' /\ BotInv'
  BY <1>1, PostKeeps
<1>2. CASE UpdateConfig
  BY <1>2, UpdateConfigKeeps
<1>3. CASE StartBot
  BY <1>3, StartBotKeeps
<1>4. CASE Cycle
  BY <1>4, CycleKeeps
<1>5. CASE GetUpdates
  BY <1>5, GetUpdatesKeeps
<1>6. CASE Handle
  BY <1>6, HandleKeeps
<1>7. CASE BeginSave
  BY <1>7, BeginSaveKeeps
<1>8. CASE SaveCheckpoint
  BY <1>8, SaveCheckpointKeeps
<1>9. CASE SaveFails
  BY <1>9, SaveFailsKeeps
<1>10. CASE AbortBot
  BY <1>10, EndKeeps DEF AbortBot
<1>11. CASE DetachedSave
  BY <1>11, DetachedSaveKeeps
<1>12. CASE BotCrash
  BY <1>12, EndKeeps DEF BotCrash
<1>13. CASE UNCHANGED botVars
  BY <1>13 DEF botVars, BotTypes, BotInv, ConfigType, TelegramTypes, SavedTypes, BotType,
     HistoryTypes, Follows, InOrder, DoneBehind, Behind, HandledKnown, Remembered, Unsettled,
     Current, DetachedKnown, UnseenExcused, Unseen, OnceOrExcused
<1> QED BY <1>1, <1>2, <1>3, <1>4, <1>5, <1>6, <1>7, <1>8, <1>9, <1>10, <1>11, <1>12,
   <1>13 DEF BotNext

(* The inductive invariant of the Telegram poller.                         *)
THEOREM BotInvariantHolds == BotSpec => [](BotTypes /\ BotInv)
<1>1. BotInit => BotTypes /\ BotInv
  BY BotInitKeeps
<1>2. BotTypes /\ BotInv /\ [BotNext]_botVars => (BotTypes /\ BotInv)'
  BY BotStep
<1> QED BY <1>1, <1>2, PTL DEF BotSpec

(* No Telegram command is lost, and none is repeated without a cause, for   *)
(* any number of bots, updates, changes of the configuration and mishaps    *)
(* (bot::run and its checkpoint file).                                      *)
THEOREM CommandsAreAccounted == BotSpec => []CommandsAccounted
<1>1. ASSUME BotTypes, BotInv
      PROVE  CommandsAccounted
  BY <1>1 DEF BotInv, DoneBehind, Behind, OnceOrExcused, CommandsAccounted, Updates
<1> QED BY <1>1, BotInvariantHolds, PTL

-----------------------------------------------------------------------------
(* Dashboard access: the types of what a request carries, of sessions and  *)
(* of tickets.                                                             *)
Ops == {"none", "ticket"} \cup Logins \cup ConfigOps
Configs == [password : Passwords \cup {Unset, Locked}, pin : Pins \cup {Unset}]
AccessSteps == {"idle", "generation", "verify", "create", "ticket", "issue", "config",
                "session", "recheck", "save", "commit", "bump", "clear",
                "clear tickets"}
AccessRecords ==
  [op : Ops,
   pc : AccessSteps,
   token : Tokens \cup {Master, Free}, secret : Passwords \cup Pins \cup {Unset},
   gen : Nat, next : Configs, epoch : Nat]
Validity == {"none", "live", "expired"}

AuthType == auth \in Configs
FileType == file \in Configs \cup {Damaged}
CounterTypes == generation \in Nat /\ epoch \in Nat /\ attempts \in 0 .. MaxLogins
SessionType == sessions \in [Tokens -> [state : Validity, epoch : Nat, fresh : BOOLEAN]]
TicketType == tickets \in [Tickets -> [state : Validity, epoch : Nat]]
AccessLockType == lock \in [{"config", "session", "ticket"} -> Clients \cup {Free}]
ReqType == req \in [Clients -> AccessRecords]
HistoryType == owned \in BOOLEAN /\ late \in BOOLEAN
OrphanType == orphans \subseteq Configs

(* What a request does at each of its steps, and with what secret.         *)
Shaped ==
  \A c \in Clients :
    /\ req[c].pc \in {"generation", "verify"} => req[c].op \in Logins
    /\ req[c].pc = "create" => req[c].op \in Logins \cup {"setup"}
    /\ req[c].pc = "issue" => req[c].op = "ticket"
    /\ req[c].pc = "ticket" => req[c].op \in Revoking \cup {"ticket"}
    /\ req[c].pc \in {"config", "session", "recheck", "save", "commit", "bump"} =>
         req[c].op \in ConfigOps
    /\ req[c].pc \in {"clear", "clear tickets"} => req[c].op \in Revoking
    /\ req[c].op \in {"setup", "change"} => req[c].secret \in Passwords
    /\ req[c].op = "set_pin" => req[c].secret \in Pins

(* The locks a change of the configuration holds, from where it waits for  *)
(* the next one to where its answer gives them back.                       *)
Changing == {"recheck", "save", "commit", "bump", "clear", "clear tickets"}
LocksHeld ==
  \A c \in Clients :
    /\ req[c].op \in ConfigOps /\ req[c].pc \in Changing \cup {"session", "ticket"} =>
         lock["config"] = c
    /\ req[c].op \in ConfigOps /\ req[c].pc \in Changing \cup {"ticket"} =>
         lock["session"] = c
    /\ req[c].op \in Revoking /\ req[c].pc \in Changing => lock["ticket"] = c
    /\ req[c].pc = "issue" => lock["ticket"] = c

(* What is being saved or committed is the change of the configuration in  *)
(* force, and it opens the dashboard only if somebody entitled asked for   *)
(* that.                                                                   *)
Prepared ==
  \A c \in Clients : req[c].pc \in {"save", "commit"} =>
    /\ req[c].next = Candidate(req[c])
    /\ req[c].op = "disable" => ~owned \/ late
    /\ req[c].op = "setup" /\ req[c].pc = "commit" => file.password # Unset \/ late

(* A password that is owned is set in memory and in the file.              *)
StaysClosed == owned /\ ~late => Enabled(auth) /\ file.password # Unset

(* A login whose generation still holds was verified against the           *)
(* configuration in force, unless a change is about to be counted.         *)
ChangePending == \E d \in Clients : req[d].pc = "bump" /\ req[d].op # "settings"
LoginsCounted ==
  \A c \in Clients :
    /\ req[c].pc \in {"verify", "create"} => req[c].gen <= generation
    /\ req[c].pc = "create" /\ req[c].gen = generation =>
         \/ ChangePending
         \/ req[c].epoch = epoch /\ (req[c].op = "setup" \/ Verified(c))
    /\ req[c].pc = "issue" => req[c].epoch = epoch

(* Sessions and tickets are of the credentials in force, unless a change   *)
(* is about to remove them.                                                *)
SessionsCurrent ==
  \/ \E d \in Clients : req[d].pc \in {"bump", "clear"} /\ req[d].op \in Revoking
  \/ \A t \in Tokens : sessions[t].state = "live" =>
       sessions[t].epoch = epoch /\ sessions[t].fresh
TicketsCurrent ==
  \/ \E d \in Clients : /\ req[d].pc \in {"bump", "clear", "clear tickets"}
                        /\ req[d].op \in Revoking
  \/ \A k \in Tickets : tickets[k].state = "live" => tickets[k].epoch = epoch

AccessTypes == /\ AuthType /\ FileType /\ CounterTypes /\ SessionType /\ TicketType
               /\ AccessLockType /\ ReqType /\ HistoryType /\ OrphanType
AccessInv == /\ Shaped /\ LocksHeld /\ Prepared /\ StaysClosed /\ LoginsCounted
             /\ SessionsCurrent /\ TicketsCurrent


(* What a step makes of the request of one client.                         *)
Became(c, op, pc, secret, gen, next, at) ==
  /\ req' \in [Clients -> AccessRecords]
  /\ \A d \in Clients : d # c => req'[d] = req[d]
  /\ req'[c].op = op /\ req'[c].pc = pc /\ req'[c].secret = secret
  /\ req'[c].gen = gen /\ req'[c].next = next /\ req'[c].epoch = at
Moved(c, pc) == Became(c, req[c].op, pc, req[c].secret, req[c].gen, req[c].next,
                       req[c].epoch)
Cleared(c) == Became(c, "none", "idle", Unset, 0, Unconfigured, 0)
GivesBack(c) == \A l \in {"config", "session", "ticket"} :
                  lock'[l] = IF lock[l] = c THEN Free ELSE lock[l]

LEMMA RequestBecomes ==
  ASSUME ReqType, NEW c \in Clients, NEW r \in AccessRecords,
         req' = [req EXCEPT ![c] = r]
  PROVE  Became(c, r.op, r.pc, r.secret, r.gen, r.next, r.epoch)
  BY DEF ReqType, Became

LEMMA MoveBecomes ==
  ASSUME ReqType, NEW c \in Clients, NEW pc \in AccessSteps, MoveTo(c, pc)
  PROVE  Moved(c, pc)
<1> DEFINE r == [req[c] EXCEPT !.pc = pc]
<1>1. req[c] \in AccessRecords
  BY DEF ReqType
<1>2. /\ r \in AccessRecords /\ r.pc = pc /\ r.op = req[c].op
      /\ r.secret = req[c].secret /\ r.gen = req[c].gen /\ r.next = req[c].next
      /\ r.epoch = req[c].epoch
  BY <1>1 DEF AccessRecords
<1>3. req' = [req EXCEPT ![c] = r]
  BY DEF MoveTo
<1>4. Became(c, r.op, r.pc, r.secret, r.gen, r.next, r.epoch)
  BY <1>2, <1>3, RequestBecomes
<1> QED BY <1>2, <1>4 DEF Moved

LEMMA ReplyClears ==
  ASSUME ReqType, NEW c \in Clients, Reply(c)
  PROVE  Cleared(c)
<1>1. /\ Idle \in AccessRecords /\ Idle.op = "none" /\ Idle.pc = "idle"
      /\ Idle.secret = Unset /\ Idle.gen = 0 /\ Idle.next = Unconfigured
      /\ Idle.epoch = 0
  BY DEF Idle, AccessRecords, AccessSteps, Ops, Configs, Unconfigured, Unset, Free
<1>2. req' = [req EXCEPT ![c] = Idle]
  BY DEF Reply
<1> QED BY <1>1, <1>2, RequestBecomes DEF Cleared

LEMMA ReleaseGivesBack ==
  ASSUME AccessLockType, NEW c \in Clients, lock' = Released(c)
  PROVE  GivesBack(c) /\ AccessLockType'
  BY DEF AccessLockType, Released, GivesBack

LEMMA ChangeKeeps ==
  ASSUME AccessTypes, AccessInv, NEW c \in Clients, NEW op \in ConfigOps, NEW secret,
         op \in {"setup", "change"} => secret \in Passwords,
         op = "set_pin" => secret \in Pins,
         op \in {"disable", "remove_pin", "settings"} => secret = Unset,
         Change(c, op, secret)
  PROVE  AccessTypes' /\ AccessInv'
<1> USE DEF AccessTypes, AccessInv
<1>f. Became(c, op, "config", secret, 0, Unconfigured, 0)
  <2>1. PICK t \in Tokens \cup {Master, Free} :
          Arrive(c, [Idle EXCEPT !.op = op, !.pc = "config", !.token = t,
                                 !.secret = secret])
    BY DEF Change
  <2> DEFINE r == [Idle EXCEPT !.op = op, !.pc = "config", !.token = t,
                               !.secret = secret]
  <2>2. /\ r \in AccessRecords /\ r.op = op /\ r.pc = "config" /\ r.secret = secret
        /\ r.gen = 0 /\ r.next = Unconfigured /\ r.epoch = 0
    BY DEF Idle, AccessRecords, AccessSteps, Ops, ConfigOps, Configs, Unconfigured
  <2>3. req' = [req EXCEPT ![c] = r]
    BY <2>1 DEF Arrive
  <2> QED BY <2>2, <2>3, RequestBecomes
<1>g. /\ UNCHANGED <<auth, file, generation, sessions, tickets, attempts>>
      /\ UNCHANGED <<lock, orphans, epoch, owned, late>>
      /\ req[c].pc = "idle"
  BY DEF Change, Arrive, Idle
<1>1. /\ AuthType' /\ FileType' /\ CounterTypes' /\ SessionType'
      /\ TicketType' /\ AccessLockType' /\ HistoryType' /\ OrphanType'
  BY <1>g DEF AuthType, FileType, CounterTypes, SessionType, TicketType,
     AccessLockType, HistoryType, OrphanType
<1>2. ReqType'
  BY <1>f DEF Became, Moved, Cleared, ReqType
<1>3. AccessTypes'
  BY <1>1, <1>2
<1>4. StaysClosed'
  BY <1>g DEF StaysClosed, Enabled
<1>5. Shaped'
  BY <1>3, <1>g, <1>f, AccessAssumption DEF Became, Moved, Cleared, Logins,
     ConfigOps, Revoking, Shaped
<1>6. LocksHeld'
  BY <1>3, <1>g, <1>f, AccessAssumption DEF Became, Moved, Cleared,
     ConfigOps, Revoking, Changing, Logins, AccessLockType, LocksHeld
<1>7. Prepared'
  BY <1>3, <1>g, <1>f, AccessAssumption DEF Became, Moved, Cleared,
     Candidate, HistoryType, Prepared
<1>8. LoginsCounted'
  <2>1. ChangePending => ChangePending'
    BY <1>f, <1>g DEF Became, Moved, Cleared, ChangePending
  <2>2. ASSUME NEW d \in Clients, d # c
        PROVE  /\ req'[d].pc \in {"verify", "create"} => req'[d].gen <= generation'
               /\ req'[d].pc = "create" /\ req'[d].gen = generation' =>
                    \/ ChangePending'
                    \/ req'[d].epoch = epoch' /\ (req'[d].op = "setup" \/ Verified(d)')
               /\ req'[d].pc = "issue" => req'[d].epoch = epoch'
    BY <2>1, <2>2, <1>f, <1>g DEF Became, Moved, Cleared, Verified, LoginsCounted
  <2>3. /\ req'[c].pc \in {"verify", "create"} => req'[c].gen <= generation'
        /\ req'[c].pc = "create" /\ req'[c].gen = generation' =>
             \/ ChangePending'
             \/ req'[c].epoch = epoch' /\ (req'[c].op = "setup" \/ Verified(c)')
        /\ req'[c].pc = "issue" => req'[c].epoch = epoch'
    BY <2>1, <1>f, <1>g DEF Became, Moved, Cleared, Verified, LoginsCounted,
       CounterTypes
  <2> QED BY <2>2, <2>3 DEF LoginsCounted
<1>9. SessionsCurrent'
  BY <1>3, <1>g, <1>f, AccessAssumption DEF Became, Moved, Cleared, Revoking,
     SessionType, SessionsCurrent
<1>10. TicketsCurrent'
  BY <1>3, <1>g, <1>f, AccessAssumption DEF Became, Moved, Cleared, Revoking,
     TicketType, TicketsCurrent
<1> QED BY <1>3, <1>4, <1>5, <1>6, <1>7, <1>8, <1>9, <1>10

LEMMA EnforceLoginRateLimitKeeps ==
  ASSUME AccessTypes, AccessInv, NEW c \in Clients, EnforceLoginRateLimit(c)
  PROVE  AccessTypes' /\ AccessInv'
<1> USE DEF AccessTypes, AccessInv
<1>f. \E op \in Logins, s \in Passwords \cup Pins :
        Became(c, op, "generation", s, 0, Unconfigured, 0)
  <2>1. PICK op \in Logins : \E s \in Secrets[Kind(op)] :
          Arrive(c, [Idle EXCEPT !.op = op, !.pc = "generation", !.secret = s])
    BY DEF EnforceLoginRateLimit
  <2>2. PICK s \in Secrets[Kind(op)] :
          Arrive(c, [Idle EXCEPT !.op = op, !.pc = "generation", !.secret = s])
    BY <2>1
  <2>3. s \in Passwords \cup Pins
    BY DEF Secrets, Kind
  <2> DEFINE r == [Idle EXCEPT !.op = op, !.pc = "generation", !.secret = s]
  <2>4. /\ r \in AccessRecords /\ r.op = op /\ r.pc = "generation" /\ r.secret = s
        /\ r.gen = 0 /\ r.next = Unconfigured /\ r.epoch = 0
    BY <2>3 DEF Idle, AccessRecords, AccessSteps, Ops, Logins, Configs, Unconfigured
  <2>5. req' = [req EXCEPT ![c] = r]
    BY <2>2 DEF Arrive
  <2> QED BY <2>3, <2>4, <2>5, RequestBecomes
<1>g. /\ UNCHANGED <<auth, file, generation, sessions, tickets, lock>>
      /\ UNCHANGED <<orphans, epoch, owned, late>>
      /\ req[c].pc = "idle"
      /\ attempts < MaxLogins /\ attempts' = attempts + 1
  BY DEF EnforceLoginRateLimit, Arrive, Idle
<1>1. /\ AuthType' /\ FileType' /\ SessionType' /\ TicketType'
      /\ AccessLockType' /\ HistoryType' /\ OrphanType'
  BY <1>g DEF AuthType, FileType, SessionType, TicketType, AccessLockType,
     HistoryType, OrphanType
<1>2. CounterTypes'
  BY <1>g, <1>f, AccessAssumption DEF CounterTypes
<1>3. ReqType'
  BY <1>f DEF Became, Moved, Cleared, ReqType
<1>4. AccessTypes'
  BY <1>1, <1>2, <1>3
<1>5. StaysClosed'
  BY <1>g DEF StaysClosed, Enabled
<1>6. Shaped'
  BY <1>4, <1>g, <1>f, AccessAssumption DEF Became, Moved, Cleared, Logins,
     ConfigOps, Revoking, Shaped
<1>7. LocksHeld'
  BY <1>4, <1>g, <1>f, AccessAssumption DEF Became, Moved, Cleared,
     ConfigOps, Revoking, Changing, Logins, AccessLockType, LocksHeld
<1>8. Prepared'
  BY <1>4, <1>g, <1>f, AccessAssumption DEF Became, Moved, Cleared,
     Candidate, HistoryType, Prepared
<1>9. LoginsCounted'
  <2>1. ChangePending => ChangePending'
    BY <1>f, <1>g DEF Became, Moved, Cleared, ChangePending
  <2>2. ASSUME NEW d \in Clients, d # c
        PROVE  /\ req'[d].pc \in {"verify", "create"} => req'[d].gen <= generation'
               /\ req'[d].pc = "create" /\ req'[d].gen = generation' =>
                    \/ ChangePending'
                    \/ req'[d].epoch = epoch' /\ (req'[d].op = "setup" \/ Verified(d)')
               /\ req'[d].pc = "issue" => req'[d].epoch = epoch'
    BY <2>1, <2>2, <1>f, <1>g DEF Became, Moved, Cleared, Verified, LoginsCounted
  <2>3. /\ req'[c].pc \in {"verify", "create"} => req'[c].gen <= generation'
        /\ req'[c].pc = "create" /\ req'[c].gen = generation' =>
             \/ ChangePending'
             \/ req'[c].epoch = epoch' /\ (req'[c].op = "setup" \/ Verified(c)')
        /\ req'[c].pc = "issue" => req'[c].epoch = epoch'
    BY <2>1, <1>f, <1>g DEF Became, Moved, Cleared, Verified, LoginsCounted,
       CounterTypes
  <2> QED BY <2>2, <2>3 DEF LoginsCounted
<1>10. SessionsCurrent'
  BY <1>4, <1>g, <1>f, AccessAssumption DEF Became, Moved, Cleared, Revoking,
     SessionType, SessionsCurrent
<1>11. TicketsCurrent'
  BY <1>4, <1>g, <1>f, AccessAssumption DEF Became, Moved, Cleared, Revoking,
     TicketType, TicketsCurrent
<1> QED BY <1>4, <1>5, <1>6, <1>7, <1>8, <1>9, <1>10, <1>11

LEMMA ReadGenerationKeeps ==
  ASSUME AccessTypes, AccessInv, NEW c \in Clients, ReadGeneration(c)
  PROVE  AccessTypes' /\ AccessInv'
<1> USE DEF AccessTypes, AccessInv
<1>f. Became(c, req[c].op, "verify", req[c].secret, generation, req[c].next,
             req[c].epoch)
  <2> DEFINE r == [req[c] EXCEPT !.gen = generation, !.pc = "verify"]
  <2>1. req[c] \in AccessRecords
    BY DEF ReqType
  <2>2. /\ r \in AccessRecords /\ r.op = req[c].op /\ r.secret = req[c].secret
        /\ r.next = req[c].next
        /\ r.pc = "verify" /\ r.gen = generation /\ r.epoch = req[c].epoch
    BY <2>1 DEF AccessRecords, AccessSteps, CounterTypes
  <2>3. req' = [req EXCEPT ![c] = r]
    BY DEF ReadGeneration
  <2> QED BY <2>2, <2>3, RequestBecomes
<1>g. /\ UNCHANGED <<auth, file, generation, sessions, tickets, attempts>>
      /\ UNCHANGED <<lock, orphans, epoch, owned, late>>
      /\ req[c].pc = "generation"
  BY DEF ReadGeneration
<1>1. /\ AuthType' /\ FileType' /\ CounterTypes' /\ SessionType'
      /\ TicketType' /\ AccessLockType' /\ HistoryType' /\ OrphanType'
  BY <1>g DEF AuthType, FileType, CounterTypes, SessionType, TicketType,
     AccessLockType, HistoryType, OrphanType
<1>2. ReqType'
  BY <1>f DEF Became, Moved, Cleared, ReqType
<1>3. AccessTypes'
  BY <1>1, <1>2
<1>4. StaysClosed'
  BY <1>g DEF StaysClosed, Enabled
<1>5. Shaped'
  BY <1>3, <1>g, <1>f, AccessAssumption DEF Became, Moved, Cleared, Logins,
     ConfigOps, Revoking, Shaped
<1>6. LocksHeld'
  BY <1>3, <1>g, <1>f, AccessAssumption DEF Became, Moved, Cleared,
     ConfigOps, Revoking, Changing, Logins, AccessLockType, LocksHeld
<1>7. Prepared'
  BY <1>3, <1>g, <1>f, AccessAssumption DEF Became, Moved, Cleared,
     Candidate, HistoryType, Prepared
<1>8. LoginsCounted'
  <2>1. ChangePending => ChangePending'
    BY <1>f, <1>g DEF Became, Moved, Cleared, ChangePending
  <2>2. ASSUME NEW d \in Clients, d # c
        PROVE  /\ req'[d].pc \in {"verify", "create"} => req'[d].gen <= generation'
               /\ req'[d].pc = "create" /\ req'[d].gen = generation' =>
                    \/ ChangePending'
                    \/ req'[d].epoch = epoch' /\ (req'[d].op = "setup" \/ Verified(d)')
               /\ req'[d].pc = "issue" => req'[d].epoch = epoch'
    BY <2>1, <2>2, <1>f, <1>g DEF Became, Moved, Cleared, Verified, LoginsCounted
  <2>3. /\ req'[c].pc \in {"verify", "create"} => req'[c].gen <= generation'
        /\ req'[c].pc = "create" /\ req'[c].gen = generation' =>
             \/ ChangePending'
             \/ req'[c].epoch = epoch' /\ (req'[c].op = "setup" \/ Verified(c)')
        /\ req'[c].pc = "issue" => req'[c].epoch = epoch'
    BY <2>1, <1>f, <1>g DEF Became, Moved, Cleared, Verified, LoginsCounted,
       CounterTypes
  <2> QED BY <2>2, <2>3 DEF LoginsCounted
<1>9. SessionsCurrent'
  BY <1>3, <1>g, <1>f, AccessAssumption DEF Became, Moved, Cleared, Revoking,
     SessionType, SessionsCurrent
<1>10. TicketsCurrent'
  BY <1>3, <1>g, <1>f, AccessAssumption DEF Became, Moved, Cleared, Revoking,
     TicketType, TicketsCurrent
<1> QED BY <1>3, <1>4, <1>5, <1>6, <1>7, <1>8, <1>9, <1>10

LEMMA VerifyKeeps ==
  ASSUME AccessTypes, AccessInv, NEW c \in Clients, Verify(c)
  PROVE  AccessTypes' /\ AccessInv'
<1> USE DEF AccessTypes, AccessInv
<1>f. \/ Cleared(c)
      \/ /\ Verified(c)
         /\ Became(c, req[c].op, "create", req[c].secret, req[c].gen, req[c].next,
                   epoch)
  <2> DEFINE r == [req[c] EXCEPT !.pc = "create", !.epoch = epoch]
  <2>1. req[c] \in AccessRecords
    BY DEF ReqType
  <2>2. /\ r \in AccessRecords /\ r.op = req[c].op /\ r.secret = req[c].secret
        /\ r.next = req[c].next
        /\ r.pc = "create" /\ r.gen = req[c].gen /\ r.epoch = epoch
    BY <2>1 DEF AccessRecords, AccessSteps, CounterTypes
  <2>3. CASE Verified(c)
    <3>1. req' = [req EXCEPT ![c] = r]
      BY <2>3 DEF Verify
    <3> QED BY <2>2, <2>3, <3>1, RequestBecomes
  <2>4. CASE ~Verified(c)
    BY <2>4, ReplyClears DEF Verify
  <2> QED BY <2>3, <2>4
<1>g. /\ UNCHANGED <<auth, file, generation, sessions, tickets, attempts>>
      /\ UNCHANGED <<lock, orphans, epoch, owned, late>>
      /\ req[c].pc = "verify"
  BY DEF Verify
<1>1. /\ AuthType' /\ FileType' /\ CounterTypes' /\ SessionType'
      /\ TicketType' /\ AccessLockType' /\ HistoryType' /\ OrphanType'
  BY <1>g DEF AuthType, FileType, CounterTypes, SessionType, TicketType,
     AccessLockType, HistoryType, OrphanType
<1>2. ReqType'
  BY <1>f DEF Became, Moved, Cleared, ReqType
<1>3. AccessTypes'
  BY <1>1, <1>2
<1>4. StaysClosed'
  BY <1>g DEF StaysClosed, Enabled
<1>5. Shaped'
  BY <1>3, <1>g, <1>f, AccessAssumption DEF Became, Moved, Cleared, Logins,
     ConfigOps, Revoking, Shaped
<1>6. LocksHeld'
  BY <1>3, <1>g, <1>f, AccessAssumption DEF Became, Moved, Cleared,
     ConfigOps, Revoking, Changing, Logins, AccessLockType, LocksHeld
<1>7. Prepared'
  BY <1>3, <1>g, <1>f, AccessAssumption DEF Became, Moved, Cleared,
     Candidate, HistoryType, Prepared
<1>8. LoginsCounted'
  <2>1. ChangePending => ChangePending'
    BY <1>f, <1>g DEF Became, Moved, Cleared, ChangePending
  <2>2. ASSUME NEW d \in Clients, d # c
        PROVE  /\ req'[d].pc \in {"verify", "create"} => req'[d].gen <= generation'
               /\ req'[d].pc = "create" /\ req'[d].gen = generation' =>
                    \/ ChangePending'
                    \/ req'[d].epoch = epoch' /\ (req'[d].op = "setup" \/ Verified(d)')
               /\ req'[d].pc = "issue" => req'[d].epoch = epoch'
    BY <2>1, <2>2, <1>f, <1>g DEF Became, Moved, Cleared, Verified, LoginsCounted
  <2>3. /\ req'[c].pc \in {"verify", "create"} => req'[c].gen <= generation'
        /\ req'[c].pc = "create" /\ req'[c].gen = generation' =>
             \/ ChangePending'
             \/ req'[c].epoch = epoch' /\ (req'[c].op = "setup" \/ Verified(c)')
        /\ req'[c].pc = "issue" => req'[c].epoch = epoch'
    BY <2>1, <1>f, <1>g DEF Became, Moved, Cleared, Verified, LoginsCounted,
       CounterTypes
  <2> QED BY <2>2, <2>3 DEF LoginsCounted
<1>9. SessionsCurrent'
  BY <1>3, <1>g, <1>f, AccessAssumption DEF Became, Moved, Cleared, Revoking,
     SessionType, SessionsCurrent
<1>10. TicketsCurrent'
  BY <1>3, <1>g, <1>f, AccessAssumption DEF Became, Moved, Cleared, Revoking,
     TicketType, TicketsCurrent
<1> QED BY <1>3, <1>4, <1>5, <1>6, <1>7, <1>8, <1>9, <1>10

LEMMA CreateSessionKeeps ==
  ASSUME AccessTypes, AccessInv, NEW c \in Clients, CreateSession(c)
  PROVE  AccessTypes' /\ AccessInv'
<1> USE DEF AccessTypes, AccessInv
<1>f. Cleared(c)
  BY ReplyClears DEF CreateSession
<1>g. /\ UNCHANGED <<auth, file, generation, tickets, attempts, lock>>
      /\ UNCHANGED <<orphans, epoch, owned, late>>
      /\ req[c].pc = "create" /\ lock["session"] = Free
  BY DEF CreateSession
<1>1. /\ AuthType' /\ FileType' /\ CounterTypes' /\ TicketType'
      /\ AccessLockType' /\ HistoryType' /\ OrphanType'
  BY <1>g DEF AuthType, FileType, CounterTypes, TicketType, AccessLockType,
     HistoryType, OrphanType
<1>2. SessionType'
  <2> DEFINE made == [state |-> "live", epoch |-> req[c].epoch,
                      fresh |-> req[c].op = "setup" \/ Verified(c)]
  <2>1. \A t \in Tokens : Pruned(sessions, NoSession)[t]
                            \in [state : Validity, epoch : Nat, fresh : BOOLEAN]
    BY DEF Pruned, NoSession, SessionType, Validity
  <2>2. Pruned(sessions, NoSession)
          \in [Tokens -> [state : Validity, epoch : Nat, fresh : BOOLEAN]]
    BY <2>1 DEF Pruned, SessionType
  <2>3. made \in [state : Validity, epoch : Nat, fresh : BOOLEAN]
    BY DEF ReqType, AccessRecords, Validity
  <2>4. \/ sessions' = sessions
        \/ sessions' = Pruned(sessions, NoSession)
        \/ \E new \in Tokens :
             sessions' = [Pruned(sessions, NoSession) EXCEPT ![new] = made]
    BY DEF CreateSession
  <2> QED BY <2>2, <2>3, <2>4 DEF SessionType
<1>3. ReqType'
  BY <1>f DEF Became, Moved, Cleared, ReqType
<1>4. AccessTypes'
  BY <1>1, <1>2, <1>3
<1>5. StaysClosed'
  BY <1>g DEF StaysClosed, Enabled
<1>6. Shaped'
  BY <1>4, <1>g, <1>f, AccessAssumption DEF Became, Moved, Cleared, Logins,
     ConfigOps, Revoking, Shaped
<1>7. LocksHeld'
  BY <1>4, <1>g, <1>f, AccessAssumption DEF Became, Moved, Cleared,
     ConfigOps, Revoking, Changing, Logins, AccessLockType, LocksHeld
<1>8. Prepared'
  BY <1>4, <1>g, <1>f, AccessAssumption DEF Became, Moved, Cleared,
     Candidate, HistoryType, Prepared
<1>9. LoginsCounted'
  <2>1. ChangePending => ChangePending'
    BY <1>f, <1>g DEF Became, Moved, Cleared, ChangePending
  <2>2. ASSUME NEW d \in Clients, d # c
        PROVE  /\ req'[d].pc \in {"verify", "create"} => req'[d].gen <= generation'
               /\ req'[d].pc = "create" /\ req'[d].gen = generation' =>
                    \/ ChangePending'
                    \/ req'[d].epoch = epoch' /\ (req'[d].op = "setup" \/ Verified(d)')
               /\ req'[d].pc = "issue" => req'[d].epoch = epoch'
    BY <2>1, <2>2, <1>f, <1>g DEF Became, Moved, Cleared, Verified, LoginsCounted
  <2>3. /\ req'[c].pc \in {"verify", "create"} => req'[c].gen <= generation'
        /\ req'[c].pc = "create" /\ req'[c].gen = generation' =>
             \/ ChangePending'
             \/ req'[c].epoch = epoch' /\ (req'[c].op = "setup" \/ Verified(c)')
        /\ req'[c].pc = "issue" => req'[c].epoch = epoch'
    BY <2>1, <1>f, <1>g DEF Became, Moved, Cleared, Verified, LoginsCounted,
       CounterTypes
  <2> QED BY <2>2, <2>3 DEF LoginsCounted
<1>10. SessionsCurrent'
  <2> DEFINE made == [state |-> "live", epoch |-> req[c].epoch,
                      fresh |-> req[c].op = "setup" \/ Verified(c)]
  <2>1. \A d \in Clients : req[d].pc \notin {"bump", "clear"}
    BY <1>g, AccessAssumption DEF LocksHeld, Shaped, Changing, ConfigOps, Revoking
  <2>2. \A t \in Tokens : sessions[t].state = "live" =>
          sessions[t].epoch = epoch /\ sessions[t].fresh
    BY <2>1 DEF SessionsCurrent
  <2>3. req[c].gen = generation =>
          req[c].epoch = epoch /\ (req[c].op = "setup" \/ Verified(c))
    BY <2>1, <1>g DEF LoginsCounted, ChangePending
  <2>4. \A t \in Tokens : Pruned(sessions, NoSession)[t] =
          IF sessions[t].state = "live" THEN sessions[t] ELSE NoSession
    BY DEF Pruned, SessionType
  <2>5. \/ sessions' = sessions
        \/ sessions' = Pruned(sessions, NoSession)
        \/ /\ req[c].gen = generation
           /\ \E new \in Tokens :
                sessions' = [Pruned(sessions, NoSession) EXCEPT ![new] = made]
    BY DEF CreateSession, GenerationHolds
  <2>6. \A t \in Tokens : sessions'[t].state = "live" =>
          sessions'[t].epoch = epoch /\ sessions'[t].fresh
    <3>1. CASE sessions' = sessions
      BY <3>1, <2>2
    <3>2. CASE sessions' = Pruned(sessions, NoSession)
      BY <3>2, <2>2, <2>4 DEF NoSession
    <3>3. ASSUME req[c].gen = generation, NEW new \in Tokens,
                 sessions' = [Pruned(sessions, NoSession) EXCEPT ![new] = made]
          PROVE  \A t \in Tokens : sessions'[t].state = "live" =>
                   sessions'[t].epoch = epoch /\ sessions'[t].fresh
      <4>1. made.epoch = epoch /\ made.fresh
        BY <3>3, <2>3
      <4>2. sessions'[new] = made
        BY <3>3 DEF Pruned, SessionType
      <4>3. \A t \in Tokens : t # new => sessions'[t] = Pruned(sessions, NoSession)[t]
        BY <3>3 DEF Pruned, SessionType
      <4> HIDE DEF made
      <4> QED BY <4>1, <4>2, <4>3, <2>2, <2>4 DEF NoSession
    <3> QED BY <2>5, <3>1, <3>2, <3>3
  <2> QED BY <2>6, <1>g DEF SessionsCurrent
<1>11. TicketsCurrent'
  BY <1>4, <1>g, <1>f, AccessAssumption DEF Became, Moved, Cleared, Revoking,
     TicketType, TicketsCurrent
<1> QED BY <1>4, <1>5, <1>6, <1>7, <1>8, <1>9, <1>10, <1>11

LEMMA LogoutKeeps ==
  ASSUME AccessTypes, AccessInv, NEW t \in Tokens, Logout(t)
  PROVE  AccessTypes' /\ AccessInv'
<1> USE DEF AccessTypes, AccessInv
<1>1. /\ AuthType' /\ FileType' /\ CounterTypes' /\ TicketType'
      /\ AccessLockType' /\ ReqType' /\ HistoryType' /\ OrphanType'
  BY DEF Logout, AuthType, FileType, CounterTypes, TicketType, AccessLockType,
     ReqType, HistoryType, OrphanType
<1>2. SessionType'
  BY AccessAssumption DEF Logout, NoSession, Validity, SessionType
<1>3. AccessTypes'
  BY <1>1, <1>2
<1>4. /\ Shaped' /\ LocksHeld' /\ Prepared' /\ StaysClosed'
      /\ LoginsCounted' /\ TicketsCurrent'
  BY DEF Logout, Shaped, LocksHeld, Prepared, StaysClosed, LoginsCounted,
     TicketsCurrent, Logins, ConfigOps, Revoking, Changing, Candidate,
     Enabled, ChangePending, Verified, Kind
<1>5. SessionsCurrent'
  BY <1>3, AccessAssumption DEF Logout, NoSession, Revoking, SessionType,
     SessionsCurrent
<1> QED BY <1>3, <1>4, <1>5

LEMMA AskTicketKeeps ==
  ASSUME AccessTypes, AccessInv, NEW c \in Clients, AskTicket(c)
  PROVE  AccessTypes' /\ AccessInv'
<1> USE DEF AccessTypes, AccessInv
<1>f. Became(c, "ticket", "ticket", Unset, 0, Unconfigured, 0)
  <2>1. PICK t \in Tokens \cup {Master} :
          Arrive(c, [Idle EXCEPT !.op = "ticket", !.pc = "ticket", !.token = t])
    BY DEF AskTicket
  <2> DEFINE r == [Idle EXCEPT !.op = "ticket", !.pc = "ticket", !.token = t]
  <2>2. /\ r \in AccessRecords /\ r.op = "ticket" /\ r.pc = "ticket"
        /\ r.secret = Unset /\ r.gen = 0 /\ r.next = Unconfigured /\ r.epoch = 0
    BY DEF Idle, AccessRecords, AccessSteps, Ops, Configs, Unconfigured
  <2>3. req' = [req EXCEPT ![c] = r]
    BY <2>1 DEF Arrive
  <2> QED BY <2>2, <2>3, RequestBecomes
<1>g. /\ UNCHANGED <<auth, file, generation, sessions, tickets, attempts>>
      /\ UNCHANGED <<lock, orphans, epoch, owned, late>>
      /\ req[c].pc = "idle"
  BY DEF AskTicket, Arrive, Idle
<1>1. /\ AuthType' /\ FileType' /\ CounterTypes' /\ SessionType'
      /\ TicketType' /\ AccessLockType' /\ HistoryType' /\ OrphanType'
  BY <1>g DEF AuthType, FileType, CounterTypes, SessionType, TicketType,
     AccessLockType, HistoryType, OrphanType
<1>2. ReqType'
  BY <1>f DEF Became, Moved, Cleared, ReqType
<1>3. AccessTypes'
  BY <1>1, <1>2
<1>4. StaysClosed'
  BY <1>g DEF StaysClosed, Enabled
<1>5. Shaped'
  BY <1>3, <1>g, <1>f, AccessAssumption DEF Became, Moved, Cleared, Logins,
     ConfigOps, Revoking, Shaped
<1>6. LocksHeld'
  BY <1>3, <1>g, <1>f, AccessAssumption DEF Became, Moved, Cleared,
     ConfigOps, Revoking, Changing, Logins, AccessLockType, LocksHeld
<1>7. Prepared'
  BY <1>3, <1>g, <1>f, AccessAssumption DEF Became, Moved, Cleared,
     Candidate, HistoryType, Prepared
<1>8. LoginsCounted'
  <2>1. ChangePending => ChangePending'
    BY <1>f, <1>g DEF Became, Moved, Cleared, ChangePending
  <2>2. ASSUME NEW d \in Clients, d # c
        PROVE  /\ req'[d].pc \in {"verify", "create"} => req'[d].gen <= generation'
               /\ req'[d].pc = "create" /\ req'[d].gen = generation' =>
                    \/ ChangePending'
                    \/ req'[d].epoch = epoch' /\ (req'[d].op = "setup" \/ Verified(d)')
               /\ req'[d].pc = "issue" => req'[d].epoch = epoch'
    BY <2>1, <2>2, <1>f, <1>g DEF Became, Moved, Cleared, Verified, LoginsCounted
  <2>3. /\ req'[c].pc \in {"verify", "create"} => req'[c].gen <= generation'
        /\ req'[c].pc = "create" /\ req'[c].gen = generation' =>
             \/ ChangePending'
             \/ req'[c].epoch = epoch' /\ (req'[c].op = "setup" \/ Verified(c)')
        /\ req'[c].pc = "issue" => req'[c].epoch = epoch'
    BY <2>1, <1>f, <1>g DEF Became, Moved, Cleared, Verified, LoginsCounted,
       CounterTypes
  <2> QED BY <2>2, <2>3 DEF LoginsCounted
<1>9. SessionsCurrent'
  BY <1>3, <1>g, <1>f, AccessAssumption DEF Became, Moved, Cleared, Revoking,
     SessionType, SessionsCurrent
<1>10. TicketsCurrent'
  BY <1>3, <1>g, <1>f, AccessAssumption DEF Became, Moved, Cleared, Revoking,
     TicketType, TicketsCurrent
<1> QED BY <1>3, <1>4, <1>5, <1>6, <1>7, <1>8, <1>9, <1>10

LEMMA TicketCheckKeeps ==
  ASSUME AccessTypes, AccessInv, NEW c \in Clients, TicketCheck(c)
  PROVE  AccessTypes' /\ AccessInv'
<1> USE DEF AccessTypes, AccessInv
<1>f. \/ Cleared(c) /\ lock' = lock
      \/ /\ lock["ticket"] = Free /\ lock' = [lock EXCEPT !["ticket"] = c]
         /\ Became(c, req[c].op, "issue", req[c].secret, req[c].gen, req[c].next,
                   epoch)
  <2> DEFINE r == [req[c] EXCEPT !.pc = "issue", !.epoch = epoch]
  <2>1. req[c] \in AccessRecords
    BY DEF ReqType
  <2>2. /\ r \in AccessRecords /\ r.op = req[c].op /\ r.secret = req[c].secret
        /\ r.next = req[c].next
        /\ r.pc = "issue" /\ r.gen = req[c].gen /\ r.epoch = epoch
    BY <2>1 DEF AccessRecords, AccessSteps, CounterTypes
  <2>3. CASE Valid(req[c].token)
    <3>1. /\ req' = [req EXCEPT ![c] = r]
          /\ lock["ticket"] = Free /\ lock' = [lock EXCEPT !["ticket"] = c]
      BY <2>3 DEF TicketCheck
    <3> QED BY <2>2, <3>1, RequestBecomes
  <2>4. CASE ~Valid(req[c].token)
    BY <2>4, ReplyClears DEF TicketCheck
  <2> QED BY <2>3, <2>4
<1>g. /\ UNCHANGED <<auth, file, generation, sessions, tickets, attempts>>
      /\ UNCHANGED <<orphans, epoch, owned, late>>
      /\ req[c].op = "ticket" /\ req[c].pc = "ticket"
  BY DEF TicketCheck
<1>1. /\ AuthType' /\ FileType' /\ CounterTypes' /\ SessionType'
      /\ TicketType' /\ HistoryType' /\ OrphanType'
  BY <1>g DEF AuthType, FileType, CounterTypes, SessionType, TicketType,
     HistoryType, OrphanType
<1>2. AccessLockType'
  BY <1>g, <1>f, AccessAssumption DEF AccessLockType
<1>3. ReqType'
  BY <1>f DEF Became, Moved, Cleared, ReqType
<1>4. AccessTypes'
  BY <1>1, <1>2, <1>3
<1>5. StaysClosed'
  BY <1>g DEF StaysClosed, Enabled
<1>6. Shaped'
  BY <1>4, <1>g, <1>f, AccessAssumption DEF Became, Moved, Cleared, Logins,
     ConfigOps, Revoking, Shaped
<1>7. LocksHeld'
  BY <1>4, <1>g, <1>f, AccessAssumption DEF Became, Moved, Cleared,
     ConfigOps, Revoking, Changing, Logins, AccessLockType, LocksHeld
<1>8. Prepared'
  BY <1>4, <1>g, <1>f, AccessAssumption DEF Became, Moved, Cleared,
     Candidate, HistoryType, Prepared
<1>9. LoginsCounted'
  <2>1. ChangePending => ChangePending'
    BY <1>f, <1>g DEF Became, Moved, Cleared, ChangePending
  <2>2. ASSUME NEW d \in Clients, d # c
        PROVE  /\ req'[d].pc \in {"verify", "create"} => req'[d].gen <= generation'
               /\ req'[d].pc = "create" /\ req'[d].gen = generation' =>
                    \/ ChangePending'
                    \/ req'[d].epoch = epoch' /\ (req'[d].op = "setup" \/ Verified(d)')
               /\ req'[d].pc = "issue" => req'[d].epoch = epoch'
    BY <2>1, <2>2, <1>f, <1>g DEF Became, Moved, Cleared, Verified, LoginsCounted
  <2>3. /\ req'[c].pc \in {"verify", "create"} => req'[c].gen <= generation'
        /\ req'[c].pc = "create" /\ req'[c].gen = generation' =>
             \/ ChangePending'
             \/ req'[c].epoch = epoch' /\ (req'[c].op = "setup" \/ Verified(c)')
        /\ req'[c].pc = "issue" => req'[c].epoch = epoch'
    BY <2>1, <1>f, <1>g DEF Became, Moved, Cleared, Verified, LoginsCounted,
       CounterTypes
  <2> QED BY <2>2, <2>3 DEF LoginsCounted
<1>10. SessionsCurrent'
  BY <1>4, <1>g, <1>f, AccessAssumption DEF Became, Moved, Cleared, Revoking,
     SessionType, SessionsCurrent
<1>11. TicketsCurrent'
  BY <1>4, <1>g, <1>f, AccessAssumption DEF Became, Moved, Cleared, Revoking,
     TicketType, TicketsCurrent
<1> QED BY <1>4, <1>5, <1>6, <1>7, <1>8, <1>9, <1>10, <1>11

LEMMA TicketIssueKeeps ==
  ASSUME AccessTypes, AccessInv, NEW c \in Clients, TicketIssue(c)
  PROVE  AccessTypes' /\ AccessInv'
<1> USE DEF AccessTypes, AccessInv
<1>f. Cleared(c)
  BY ReplyClears DEF TicketIssue
<1>g. /\ UNCHANGED <<auth, file, generation, sessions, attempts, orphans>>
      /\ UNCHANGED <<epoch, owned, late>>
      /\ req[c].pc = "issue" /\ lock' = [lock EXCEPT !["ticket"] = Free]
  BY DEF TicketIssue
<1>1. /\ AuthType' /\ FileType' /\ CounterTypes' /\ SessionType'
      /\ HistoryType' /\ OrphanType'
  BY <1>g DEF AuthType, FileType, CounterTypes, SessionType, HistoryType,
     OrphanType
<1>2. TicketType'
  <2> DEFINE room == {k \in Tickets : tickets[k].state # "live"}
             new == [state |-> "live", epoch |-> req[c].epoch]
  <2>1. \A k \in Tickets :
          Pruned(tickets, NoTicket)[k] \in [state : Validity, epoch : Nat]
    BY DEF Pruned, NoTicket, TicketType, Validity
  <2>2. Pruned(tickets, NoTicket) \in [Tickets -> [state : Validity, epoch : Nat]]
    BY <2>1 DEF Pruned, TicketType
  <2>3. new \in [state : Validity, epoch : Nat]
    BY DEF ReqType, AccessRecords, Validity
  <2>4. \/ tickets' = Pruned(tickets, NoTicket)
        \/ tickets' = [Pruned(tickets, NoTicket) EXCEPT
                          ![CHOOSE k \in room : TRUE] = new]
    BY DEF TicketIssue
  <2> QED BY <2>2, <2>3, <2>4 DEF TicketType
<1>3. AccessLockType'
  BY <1>g, <1>f, AccessAssumption DEF AccessLockType
<1>4. ReqType'
  BY <1>f DEF Became, Moved, Cleared, ReqType
<1>5. AccessTypes'
  BY <1>1, <1>2, <1>3, <1>4
<1>6. StaysClosed'
  BY <1>g DEF StaysClosed, Enabled
<1>7. Shaped'
  BY <1>5, <1>g, <1>f, AccessAssumption DEF Became, Moved, Cleared, Logins,
     ConfigOps, Revoking, Shaped
<1>8. LocksHeld'
  <2>1. req[c].op = "ticket" /\ lock["ticket"] = c
    BY <1>g DEF LocksHeld, Shaped
  <2>2. /\ lock'["config"] = lock["config"] /\ lock'["session"] = lock["session"]
    BY <1>g DEF AccessLockType
  <2> QED BY <2>1, <2>2, <1>5, <1>f DEF Cleared, Became, LocksHeld, ConfigOps, Revoking,
          Shaped, Changing
<1>9. Prepared'
  BY <1>5, <1>g, <1>f, AccessAssumption DEF Became, Moved, Cleared,
     Candidate, HistoryType, Prepared
<1>10. LoginsCounted'
  <2>1. ChangePending => ChangePending'
    BY <1>f, <1>g DEF Became, Moved, Cleared, ChangePending
  <2>2. ASSUME NEW d \in Clients, d # c
        PROVE  /\ req'[d].pc \in {"verify", "create"} => req'[d].gen <= generation'
               /\ req'[d].pc = "create" /\ req'[d].gen = generation' =>
                    \/ ChangePending'
                    \/ req'[d].epoch = epoch' /\ (req'[d].op = "setup" \/ Verified(d)')
               /\ req'[d].pc = "issue" => req'[d].epoch = epoch'
    BY <2>1, <2>2, <1>f, <1>g DEF Became, Moved, Cleared, Verified, LoginsCounted
  <2>3. /\ req'[c].pc \in {"verify", "create"} => req'[c].gen <= generation'
        /\ req'[c].pc = "create" /\ req'[c].gen = generation' =>
             \/ ChangePending'
             \/ req'[c].epoch = epoch' /\ (req'[c].op = "setup" \/ Verified(c)')
        /\ req'[c].pc = "issue" => req'[c].epoch = epoch'
    BY <2>1, <1>f, <1>g DEF Became, Moved, Cleared, Verified, LoginsCounted,
       CounterTypes
  <2> QED BY <2>2, <2>3 DEF LoginsCounted
<1>11. SessionsCurrent'
  BY <1>5, <1>g, <1>f, AccessAssumption DEF Became, Moved, Cleared, Revoking,
     SessionType, SessionsCurrent
<1>12. TicketsCurrent'
  <2> DEFINE room == {k \in Tickets : tickets[k].state # "live"}
             made == [state |-> "live", epoch |-> req[c].epoch]
  <2>1. \A d \in Clients : req[d].pc \in {"bump", "clear", "clear tickets"} =>
                           req[d].op \notin Revoking
    BY <1>g, AccessAssumption DEF LocksHeld, Shaped, Changing, Revoking
  <2>2. \A k \in Tickets : tickets[k].state = "live" => tickets[k].epoch = epoch
    BY <2>1 DEF TicketsCurrent
  <2>3. req[c].epoch = epoch
    BY <1>g DEF LoginsCounted
  <2>4. \A k \in Tickets : Pruned(tickets, NoTicket)[k] =
          IF tickets[k].state = "live" THEN tickets[k] ELSE NoTicket
    BY DEF Pruned, TicketType
  <2>5. \A k \in Tickets : tickets'[k] \in {made, Pruned(tickets, NoTicket)[k]}
    <3>1. \/ tickets' = Pruned(tickets, NoTicket)
          \/ tickets' = [Pruned(tickets, NoTicket) EXCEPT
                            ![CHOOSE k \in room : TRUE] = made]
      BY DEF TicketIssue
    <3>2. DOMAIN Pruned(tickets, NoTicket) = Tickets
      BY DEF Pruned, TicketType
    <3> HIDE DEF made, room
    <3> QED BY <3>1, <3>2
  <2>6. \A k \in Tickets : tickets'[k].state = "live" => tickets'[k].epoch = epoch
    BY <2>2, <2>3, <2>4, <2>5 DEF NoTicket
  <2> QED BY <2>6, <1>g DEF TicketsCurrent
<1> QED BY <1>5, <1>6, <1>7, <1>8, <1>9, <1>10, <1>11, <1>12

LEMMA ConsumeStreamTicketKeeps ==
  ASSUME AccessTypes, AccessInv, NEW k \in Tickets, ConsumeStreamTicket(k)
  PROVE  AccessTypes' /\ AccessInv'
<1> USE DEF AccessTypes, AccessInv
<1>1. /\ AuthType' /\ FileType' /\ CounterTypes' /\ SessionType'
      /\ AccessLockType' /\ ReqType' /\ HistoryType' /\ OrphanType'
  BY DEF ConsumeStreamTicket, AuthType, FileType, CounterTypes, SessionType,
     AccessLockType, ReqType, HistoryType, OrphanType
<1>2. TicketType'
  BY AccessAssumption DEF ConsumeStreamTicket, NoTicket, Validity, TicketType
<1>3. AccessTypes'
  BY <1>1, <1>2
<1>4. /\ Shaped' /\ LocksHeld' /\ Prepared' /\ StaysClosed'
      /\ LoginsCounted' /\ SessionsCurrent'
  BY DEF ConsumeStreamTicket, Shaped, LocksHeld, Prepared, StaysClosed,
     LoginsCounted, SessionsCurrent, Logins, ConfigOps, Revoking, Changing,
     Candidate, Enabled, ChangePending, Verified, Kind
<1>5. TicketsCurrent'
  BY <1>3, AccessAssumption DEF ConsumeStreamTicket, NoTicket, Revoking,
     TicketType, TicketsCurrent
<1> QED BY <1>3, <1>4, <1>5

LEMMA TakeLockKeeps ==
  ASSUME AccessTypes, AccessInv, NEW c \in Clients, TakeLock(c)
  PROVE  AccessTypes' /\ AccessInv'
<1> USE DEF AccessTypes, AccessInv
<1>f. /\ req[c].op \in ConfigOps
      /\ \/ /\ req[c].pc = "config" /\ Moved(c, "session") /\ lock["config"] = Free
            /\ lock' = [lock EXCEPT !["config"] = c]
         \/ /\ req[c].pc = "session" /\ lock["session"] = Free
            /\ lock' = [lock EXCEPT !["session"] = c]
            /\ \/ req[c].op \in Revoking /\ Moved(c, "ticket")
               \/ req[c].op \notin Revoking /\ Moved(c, "recheck")
         \/ /\ req[c].pc = "ticket" /\ Moved(c, "recheck") /\ lock["ticket"] = Free
            /\ lock' = [lock EXCEPT !["ticket"] = c]
  BY MoveBecomes DEF TakeLock, Acquire, AccessSteps
<1>g. /\ UNCHANGED <<auth, file, generation, sessions, tickets, attempts>>
      /\ UNCHANGED <<orphans, epoch, owned, late>>
  BY DEF TakeLock
<1>1. /\ AuthType' /\ FileType' /\ CounterTypes' /\ SessionType'
      /\ TicketType' /\ HistoryType' /\ OrphanType'
  BY <1>g DEF AuthType, FileType, CounterTypes, SessionType, TicketType,
     HistoryType, OrphanType
<1>2. AccessLockType'
  BY <1>g, <1>f, AccessAssumption DEF AccessLockType
<1>3. ReqType'
  BY <1>f DEF Became, Moved, Cleared, ReqType
<1>4. AccessTypes'
  BY <1>1, <1>2, <1>3
<1>5. StaysClosed'
  BY <1>g DEF StaysClosed, Enabled
<1>6. Shaped'
  <2>1. CASE req[c].pc = "config" /\ Moved(c, "session")
             /\ lock' = [lock EXCEPT !["config"] = c] /\ lock["config"] = Free
    <3>1. /\ req'[c].pc = "session" /\ req'[c].op = req[c].op
          /\ req'[c].secret = req[c].secret
      BY <2>1 DEF Moved, Became
    <3>2. \A d \in Clients : d # c => req'[d] = req[d]
      BY <2>1 DEF Moved, Became
    <3> QED BY <2>1, <3>1, <3>2, <1>f DEF Shaped, ConfigOps, Revoking
  <2>2. CASE req[c].pc = "session" /\ lock' = [lock EXCEPT !["session"] = c]
             /\ lock["session"] = Free
             /\ req[c].op \in Revoking /\ Moved(c, "ticket")
    <3>1. /\ req'[c].pc = "ticket" /\ req'[c].op = req[c].op
          /\ req'[c].secret = req[c].secret
      BY <2>2 DEF Moved, Became
    <3>2. \A d \in Clients : d # c => req'[d] = req[d]
      BY <2>2 DEF Moved, Became
    <3> QED BY <2>2, <3>1, <3>2, <1>f DEF Shaped, ConfigOps, Revoking
  <2>3. CASE req[c].pc = "session" /\ lock' = [lock EXCEPT !["session"] = c]
             /\ lock["session"] = Free
             /\ req[c].op \in ConfigOps \ Revoking /\ Moved(c, "recheck")
    <3>1. /\ req'[c].pc = "recheck" /\ req'[c].op = req[c].op
          /\ req'[c].secret = req[c].secret
      BY <2>3 DEF Moved, Became
    <3>2. \A d \in Clients : d # c => req'[d] = req[d]
      BY <2>3 DEF Moved, Became
    <3> QED BY <2>3, <3>1, <3>2, <1>f DEF Shaped, ConfigOps, Revoking
  <2>4. CASE req[c].pc = "ticket" /\ Moved(c, "recheck") /\ req[c].op \in ConfigOps
             /\ lock["ticket"] = Free /\ lock' = [lock EXCEPT !["ticket"] = c]
    <3>1. /\ req'[c].pc = "recheck" /\ req'[c].op = req[c].op
          /\ req'[c].secret = req[c].secret
      BY <2>4 DEF Moved, Became
    <3>2. \A d \in Clients : d # c => req'[d] = req[d]
      BY <2>4 DEF Moved, Became
    <3> QED BY <2>4, <3>1, <3>2, <1>f DEF Shaped, ConfigOps, Revoking
  <2> QED BY <2>1, <2>2, <2>3, <2>4, <1>f
<1>7. LocksHeld'
  <2>1. CASE req[c].pc = "config" /\ Moved(c, "session")
             /\ lock' = [lock EXCEPT !["config"] = c] /\ lock["config"] = Free
    <3>2. /\ lock'["config"] = c
          /\ \A l \in {"config", "session", "ticket"} :
               l # "config" => lock'[l] = lock[l]
      BY <2>1 DEF AccessLockType
    <3>3. \A d \in Clients : d # c => req'[d] = req[d] /\ lock["config"] # d
      BY <2>1, AccessAssumption DEF Moved, Became
    <3>4. req'[c].pc = "session" /\ req'[c].op = req[c].op
      BY <2>1 DEF Moved, Became
    <3> QED BY <2>1, <3>2, <3>3, <3>4
            DEF LocksHeld, Changing, ConfigOps, Revoking
  <2>2. CASE req[c].pc = "session" /\ lock' = [lock EXCEPT !["session"] = c]
             /\ lock["session"] = Free
             /\ req[c].op \in Revoking /\ Moved(c, "ticket")
    <3>1. lock["config"] = c
      BY <2>2, <1>g DEF LocksHeld, Changing, ConfigOps, Revoking, Shaped
    <3>2. /\ lock'["session"] = c
          /\ \A l \in {"config", "session", "ticket"} :
               l # "session" => lock'[l] = lock[l]
      BY <2>2 DEF AccessLockType
    <3>3. \A d \in Clients : d # c => req'[d] = req[d] /\ lock["session"] # d
      BY <2>2, AccessAssumption DEF Moved, Became
    <3>4. req'[c].pc = "ticket" /\ req'[c].op = req[c].op
      BY <2>2 DEF Moved, Became
    <3> QED BY <2>2, <3>1, <3>2, <3>3, <3>4
            DEF LocksHeld, Changing, ConfigOps, Revoking
  <2>3. CASE req[c].pc = "session" /\ lock' = [lock EXCEPT !["session"] = c]
             /\ lock["session"] = Free
             /\ req[c].op \in ConfigOps \ Revoking /\ Moved(c, "recheck")
    <3>1. lock["config"] = c
      BY <2>3, <1>g DEF LocksHeld, Changing, ConfigOps, Revoking, Shaped
    <3>2. /\ lock'["session"] = c
          /\ \A l \in {"config", "session", "ticket"} :
               l # "session" => lock'[l] = lock[l]
      BY <2>3 DEF AccessLockType
    <3>3. \A d \in Clients : d # c => req'[d] = req[d] /\ lock["session"] # d
      BY <2>3, AccessAssumption DEF Moved, Became
    <3>4. req'[c].pc = "recheck" /\ req'[c].op = req[c].op
      BY <2>3 DEF Moved, Became
    <3> QED BY <2>3, <3>1, <3>2, <3>3, <3>4
            DEF LocksHeld, Changing, ConfigOps, Revoking
  <2>4. CASE req[c].pc = "ticket" /\ Moved(c, "recheck") /\ req[c].op \in ConfigOps
             /\ lock["ticket"] = Free /\ lock' = [lock EXCEPT !["ticket"] = c]
    <3>1. lock["config"] = c /\ lock["session"] = c
      BY <2>4, <1>g DEF LocksHeld, Changing, ConfigOps, Revoking, Shaped
    <3>2. /\ lock'["ticket"] = c
          /\ \A l \in {"config", "session", "ticket"} :
               l # "ticket" => lock'[l] = lock[l]
      BY <2>4 DEF AccessLockType
    <3>3. \A d \in Clients : d # c => req'[d] = req[d] /\ lock["ticket"] # d
      BY <2>4, AccessAssumption DEF Moved, Became
    <3>4. req'[c].pc = "recheck" /\ req'[c].op = req[c].op
      BY <2>4 DEF Moved, Became
    <3> QED BY <2>4, <3>1, <3>2, <3>3, <3>4
            DEF LocksHeld, Changing, ConfigOps, Revoking
  <2> QED BY <2>1, <2>2, <2>3, <2>4, <1>f
<1>8. Prepared'
  BY <1>4, <1>g, <1>f, AccessAssumption DEF Became, Moved, Cleared,
     Candidate, HistoryType, Prepared
<1>9. LoginsCounted'
  <2>1. ChangePending => ChangePending'
    BY <1>f, <1>g DEF Became, Moved, Cleared, ChangePending
  <2>2. ASSUME NEW d \in Clients, d # c
        PROVE  /\ req'[d].pc \in {"verify", "create"} => req'[d].gen <= generation'
               /\ req'[d].pc = "create" /\ req'[d].gen = generation' =>
                    \/ ChangePending'
                    \/ req'[d].epoch = epoch' /\ (req'[d].op = "setup" \/ Verified(d)')
               /\ req'[d].pc = "issue" => req'[d].epoch = epoch'
    BY <2>1, <2>2, <1>f, <1>g DEF Became, Moved, Cleared, Verified, LoginsCounted
  <2>3. /\ req'[c].pc \in {"verify", "create"} => req'[c].gen <= generation'
        /\ req'[c].pc = "create" /\ req'[c].gen = generation' =>
             \/ ChangePending'
             \/ req'[c].epoch = epoch' /\ (req'[c].op = "setup" \/ Verified(c)')
        /\ req'[c].pc = "issue" => req'[c].epoch = epoch'
    BY <2>1, <1>f, <1>g DEF Became, Moved, Cleared, Verified, LoginsCounted,
       CounterTypes
  <2> QED BY <2>2, <2>3 DEF LoginsCounted
<1>10. SessionsCurrent'
  BY <1>4, <1>g, <1>f, AccessAssumption DEF Became, Moved, Cleared, Revoking,
     SessionType, SessionsCurrent
<1>11. TicketsCurrent'
  BY <1>4, <1>g, <1>f, AccessAssumption DEF Became, Moved, Cleared, Revoking,
     TicketType, TicketsCurrent
<1> QED BY <1>4, <1>5, <1>6, <1>7, <1>8, <1>9, <1>10, <1>11

LEMMA RecheckKeeps ==
  ASSUME AccessTypes, AccessInv, NEW c \in Clients, Recheck(c)
  PROVE  AccessTypes' /\ AccessInv'
<1> USE DEF AccessTypes, AccessInv
<1>f. \/ Cleared(c) /\ GivesBack(c) /\ AccessLockType' /\ owned' = owned
      \/ /\ Entitled(req[c]) /\ lock' = lock
         /\ owned' = (owned /\ ~(req[c].op = "disable" /\ Valid(req[c].token)))
         /\ Became(c, req[c].op, "save", req[c].secret, req[c].gen,
                   Candidate(req[c]), req[c].epoch)
  <2>1. CASE Reply(c) /\ lock' = Released(c) /\ UNCHANGED owned
    BY <2>1, ReplyClears, ReleaseGivesBack
  <2>2. CASE /\ Entitled(req[c]) /\ UNCHANGED lock
             /\ req' = [req EXCEPT ![c].next = Candidate(req[c]), ![c].pc = "save"]
             /\ owned' = (owned /\ ~(req[c].op = "disable" /\ Valid(req[c].token)))
    <3> DEFINE r == [req[c] EXCEPT !.next = Candidate(req[c]), !.pc = "save"]
    <3>1. req[c] \in AccessRecords /\ req[c].pc = "recheck"
      BY DEF ReqType, Recheck
    <3>2. Candidate(req[c]) \in Configs
      BY <3>1 DEF Candidate, Configs, AuthType, Shaped, ConfigOps, Unconfigured
    <3>3. /\ r \in AccessRecords /\ r.op = req[c].op /\ r.secret = req[c].secret
          /\ r.next = Candidate(req[c]) /\ r.pc = "save" /\ r.gen = req[c].gen
          /\ r.epoch = req[c].epoch
      BY <3>1, <3>2 DEF AccessRecords, AccessSteps
    <3>4. req' = [req EXCEPT ![c] = r]
      BY <2>2
    <3> QED BY <2>2, <3>3, <3>4, RequestBecomes
  <2> QED BY <2>1, <2>2 DEF Recheck
<1>g. /\ UNCHANGED <<auth, file, generation, sessions, tickets, attempts>>
      /\ UNCHANGED <<orphans, epoch, late>>
      /\ req[c].pc = "recheck"
  BY DEF Recheck
<1>1. /\ AuthType' /\ FileType' /\ CounterTypes' /\ SessionType'
      /\ TicketType' /\ OrphanType'
  BY <1>g DEF AuthType, FileType, CounterTypes, SessionType, TicketType,
     OrphanType
<1>2. AccessLockType'
  BY <1>f, <1>g DEF AccessLockType
<1>3. ReqType'
  BY <1>f DEF Became, Moved, Cleared, ReqType
<1>4. HistoryType'
  BY <1>g, <1>f, AccessAssumption DEF GivesBack, HistoryType
<1>5. AccessTypes'
  BY <1>1, <1>2, <1>3, <1>4
<1>6. Shaped'
  BY <1>5, <1>g, <1>f, AccessAssumption DEF Became, Moved, Cleared,
     GivesBack, Logins, ConfigOps, Revoking, Shaped
<1>7. LocksHeld'
  BY <1>5, <1>g, <1>f, AccessAssumption DEF Became, Moved, Cleared,
     GivesBack, ConfigOps, Revoking, Changing, Logins, AccessLockType,
     LocksHeld
<1>8. Prepared'
  <2>1. CASE Cleared(c) /\ owned' = owned
    BY <2>1, <1>g DEF Cleared, Became, Prepared, Candidate
  <2>2. CASE /\ Entitled(req[c])
             /\ owned' = (owned /\ ~(req[c].op = "disable" /\ Valid(req[c].token)))
             /\ Became(c, req[c].op, "save", req[c].secret, req[c].gen,
                       Candidate(req[c]), req[c].epoch)
    <3>1. \A d \in Clients : d # c => req'[d] = req[d]
      BY <2>2 DEF Became
    <3>2. /\ req'[c].next = Candidate(req[c]) /\ req'[c].op = req[c].op
          /\ req'[c].secret = req[c].secret /\ req'[c].pc = "save"
      BY <2>2 DEF Became
    <3>3. Candidate(req[c])' = Candidate(req[c])
      BY <3>2, <1>g DEF Candidate
    <3>4. req[c].op = "disable" => ~owned' \/ late
      BY <2>2 DEF Entitled, StaysClosed
    <3>5. \A d \in Clients : d # c => Candidate(req[d])' = Candidate(req[d])
      BY <3>1, <1>g DEF Candidate
    <3>6. owned' => owned
      BY <2>2 DEF HistoryType
    <3> QED BY <3>1, <3>2, <3>3, <3>4, <3>5, <3>6, <1>g DEF Prepared
  <2> QED BY <2>1, <2>2, <1>f
<1>9. StaysClosed'
  BY <1>5, <1>g, <1>f, AccessAssumption DEF Became, Moved, Cleared,
     GivesBack, Enabled, HistoryType, StaysClosed
<1>10. LoginsCounted'
  <2>1. ChangePending => ChangePending'
    BY <1>f, <1>g DEF Became, Moved, Cleared, ChangePending
  <2>2. ASSUME NEW d \in Clients, d # c
        PROVE  /\ req'[d].pc \in {"verify", "create"} => req'[d].gen <= generation'
               /\ req'[d].pc = "create" /\ req'[d].gen = generation' =>
                    \/ ChangePending'
                    \/ req'[d].epoch = epoch' /\ (req'[d].op = "setup" \/ Verified(d)')
               /\ req'[d].pc = "issue" => req'[d].epoch = epoch'
    BY <2>1, <2>2, <1>f, <1>g DEF Became, Moved, Cleared, Verified, LoginsCounted
  <2>3. /\ req'[c].pc \in {"verify", "create"} => req'[c].gen <= generation'
        /\ req'[c].pc = "create" /\ req'[c].gen = generation' =>
             \/ ChangePending'
             \/ req'[c].epoch = epoch' /\ (req'[c].op = "setup" \/ Verified(c)')
        /\ req'[c].pc = "issue" => req'[c].epoch = epoch'
    BY <2>1, <1>f, <1>g DEF Became, Moved, Cleared, Verified, LoginsCounted,
       CounterTypes
  <2> QED BY <2>2, <2>3 DEF LoginsCounted
<1>11. SessionsCurrent'
  BY <1>5, <1>g, <1>f, AccessAssumption DEF Became, Moved, Cleared,
     GivesBack, Revoking, SessionType, SessionsCurrent
<1>12. TicketsCurrent'
  BY <1>5, <1>g, <1>f, AccessAssumption DEF Became, Moved, Cleared,
     GivesBack, Revoking, TicketType, TicketsCurrent
<1> QED BY <1>5, <1>6, <1>7, <1>8, <1>9, <1>10, <1>11, <1>12

LEMMA PersistKeeps ==
  ASSUME AccessTypes, AccessInv, NEW c \in Clients, Persist(c)
  PROVE  AccessTypes' /\ AccessInv'
<1> USE DEF AccessTypes, AccessInv
<1>f. \/ Cleared(c) /\ GivesBack(c) /\ AccessLockType' /\ file' = file
      \/ Moved(c, "commit") /\ lock' = lock /\ file' = req[c].next
  <2>1. CASE Reply(c) /\ lock' = Released(c) /\ UNCHANGED file
    BY <2>1, ReplyClears, ReleaseGivesBack
  <2>2. CASE MoveTo(c, "commit") /\ UNCHANGED lock /\ file' = req[c].next
    BY <2>2, MoveBecomes DEF AccessSteps
  <2> QED BY <2>1, <2>2 DEF Persist
<1>g. /\ UNCHANGED <<auth, generation, sessions, tickets, attempts, orphans>>
      /\ UNCHANGED <<epoch, owned, late>>
      /\ req[c].pc = "save"
  BY DEF Persist, Chance
<1>1. /\ AuthType' /\ CounterTypes' /\ SessionType' /\ TicketType'
      /\ HistoryType' /\ OrphanType'
  BY <1>g DEF AuthType, CounterTypes, SessionType, TicketType, HistoryType,
     OrphanType
<1>2. FileType'
  BY <1>f DEF FileType, ReqType, AccessRecords
<1>3. AccessLockType'
  BY <1>f, <1>g DEF AccessLockType
<1>4. ReqType'
  BY <1>f DEF Became, Moved, Cleared, ReqType
<1>5. AccessTypes'
  BY <1>1, <1>2, <1>3, <1>4
<1>6. Shaped'
  BY <1>5, <1>g, <1>f, AccessAssumption DEF Became, Moved, Cleared,
     GivesBack, Logins, ConfigOps, Revoking, Shaped
<1>7. LocksHeld'
  BY <1>5, <1>g, <1>f, AccessAssumption DEF Became, Moved, Cleared,
     GivesBack, ConfigOps, Revoking, Changing, Logins, AccessLockType,
     LocksHeld
<1>8. Prepared'
  <2>1. \A d \in Clients : d # c =>
          req'[d] = req[d] /\ req[d].pc \notin {"save", "commit"}
    BY <1>f, <1>g DEF LocksHeld, Shaped, Changing, Cleared, Moved, Became
  <2>2. CASE Cleared(c)
    BY <2>1, <2>2 DEF Cleared, Became, Prepared
  <2>3. CASE Moved(c, "commit") /\ file' = req[c].next
    <3>1. /\ req[c].next = Candidate(req[c])
          /\ req[c].op = "disable" => ~owned \/ late
      BY <1>g DEF Prepared
    <3>2. req'[c].op = req[c].op /\ req'[c].secret = req[c].secret
          /\ req'[c].next = req[c].next
      BY <2>3 DEF Moved, Became
    <3>3. Candidate(req[c])' = Candidate(req[c])
      BY <3>2, <1>g DEF Candidate
    <3>4. req[c].op = "setup" => file'.password # Unset
      BY <2>3, <3>1, <1>g, AccessAssumption DEF Candidate, Shaped, Configs, AuthType
    <3> QED BY <2>1, <3>1, <3>2, <3>3, <3>4, <1>g DEF Prepared
  <2> QED BY <2>2, <2>3, <1>f
<1>9. StaysClosed'
  <2>1. owned /\ ~late => auth.password # Unset
    BY DEF StaysClosed, Enabled
  <2>2. req[c].next = Candidate(req[c]) /\ (req[c].op = "disable" => ~owned \/ late)
    BY <1>g DEF Prepared
  <2>3. /\ req[c].op \in ConfigOps
        /\ req[c].op \in {"setup", "change"} => req[c].secret \in Passwords
    BY <1>g DEF Shaped
  <2>4. (req[c].op = "setup" \/ owned) /\ ~late => req[c].next.password # Unset
    BY <2>1, <2>2, <2>3, AccessAssumption DEF Candidate, ConfigOps, Configs, AuthType
  <2> QED BY <2>1, <2>4, <1>f, <1>g DEF StaysClosed, Enabled
<1>10. LoginsCounted'
  <2>1. ChangePending => ChangePending'
    BY <1>f, <1>g DEF Became, Moved, Cleared, ChangePending
  <2>2. ASSUME NEW d \in Clients, d # c
        PROVE  /\ req'[d].pc \in {"verify", "create"} => req'[d].gen <= generation'
               /\ req'[d].pc = "create" /\ req'[d].gen = generation' =>
                    \/ ChangePending'
                    \/ req'[d].epoch = epoch' /\ (req'[d].op = "setup" \/ Verified(d)')
               /\ req'[d].pc = "issue" => req'[d].epoch = epoch'
    BY <2>1, <2>2, <1>f, <1>g DEF Became, Moved, Cleared, Verified, LoginsCounted
  <2>3. /\ req'[c].pc \in {"verify", "create"} => req'[c].gen <= generation'
        /\ req'[c].pc = "create" /\ req'[c].gen = generation' =>
             \/ ChangePending'
             \/ req'[c].epoch = epoch' /\ (req'[c].op = "setup" \/ Verified(c)')
        /\ req'[c].pc = "issue" => req'[c].epoch = epoch'
    BY <2>1, <1>f, <1>g DEF Became, Moved, Cleared, Verified, LoginsCounted,
       CounterTypes
  <2> QED BY <2>2, <2>3 DEF LoginsCounted
<1>11. SessionsCurrent'
  BY <1>5, <1>g, <1>f, AccessAssumption DEF Became, Moved, Cleared,
     GivesBack, Revoking, SessionType, SessionsCurrent
<1>12. TicketsCurrent'
  BY <1>5, <1>g, <1>f, AccessAssumption DEF Became, Moved, Cleared,
     GivesBack, Revoking, TicketType, TicketsCurrent
<1> QED BY <1>5, <1>6, <1>7, <1>8, <1>9, <1>10, <1>11, <1>12

LEMMA OrphanSaveKeeps ==
  ASSUME AccessTypes, AccessInv, NEW a \in orphans, OrphanSave(a)
  PROVE  AccessTypes' /\ AccessInv'
<1> USE DEF AccessTypes, AccessInv
<1>1. /\ AuthType' /\ CounterTypes' /\ SessionType' /\ TicketType'
      /\ AccessLockType' /\ ReqType'
  BY DEF OrphanSave, AuthType, CounterTypes, SessionType, TicketType,
     AccessLockType, ReqType
<1>2. FileType'
  BY DEF OrphanSave, FileType, OrphanType
<1>3. HistoryType'
  BY AccessAssumption DEF OrphanSave, Writable, HistoryType
<1>4. OrphanType'
  BY AccessAssumption DEF OrphanSave, Writable, ReqType, AccessRecords,
     OrphanType
<1>5. AccessTypes'
  BY <1>1, <1>2, <1>3, <1>4
<1>6. /\ Shaped' /\ LocksHeld' /\ LoginsCounted' /\ SessionsCurrent'
      /\ TicketsCurrent'
  BY DEF OrphanSave, Shaped, LocksHeld, LoginsCounted, SessionsCurrent,
     TicketsCurrent, Logins, ConfigOps, Revoking, Changing, ChangePending,
     Verified, Kind
<1>7. Prepared'
  BY DEF OrphanSave, Prepared, Candidate
<1>8. StaysClosed'
  BY <1>5, AccessAssumption DEF OrphanSave, Writable, Enabled, HistoryType,
     StaysClosed
<1> QED BY <1>5, <1>6, <1>7, <1>8

LEMMA WriteAuthKeeps ==
  ASSUME AccessTypes, AccessInv, NEW c \in Clients, WriteAuth(c)
  PROVE  AccessTypes' /\ AccessInv'
<1> USE DEF AccessTypes, AccessInv
<1>f. Moved(c, "bump")
  BY MoveBecomes DEF WriteAuth, AccessSteps
<1>g. /\ UNCHANGED <<file, generation, sessions, tickets, attempts, lock>>
      /\ UNCHANGED <<orphans, late>>
      /\ req[c].pc = "commit" /\ auth' = req[c].next
      /\ epoch' = IF req[c].op \in Revoking THEN epoch + 1 ELSE epoch
      /\ owned' = (owned \/ req[c].op = "setup")
  BY DEF WriteAuth
<1>1. /\ FileType' /\ SessionType' /\ TicketType' /\ AccessLockType'
      /\ OrphanType'
  BY <1>g DEF FileType, SessionType, TicketType, AccessLockType, OrphanType
<1>2. AuthType'
  BY <1>g DEF ReqType, AccessRecords, AuthType
<1>3. CounterTypes'
  BY <1>g, <1>f, AccessAssumption DEF CounterTypes
<1>4. ReqType'
  BY <1>f DEF Became, Moved, Cleared, ReqType
<1>5. HistoryType'
  BY <1>g, <1>f, AccessAssumption DEF HistoryType
<1>6. AccessTypes'
  BY <1>1, <1>2, <1>3, <1>4, <1>5
<1>7. Shaped'
  BY <1>6, <1>g, <1>f, AccessAssumption DEF Became, Moved, Cleared, Logins,
     ConfigOps, Revoking, Shaped
<1>8. LocksHeld'
  BY <1>6, <1>g, <1>f, AccessAssumption DEF Became, Moved, Cleared,
     ConfigOps, Revoking, Changing, Logins, AccessLockType, LocksHeld
<1>9. Prepared'
  <2>1. \A d \in Clients : d # c => req[d].pc \notin {"save", "commit"}
    BY <1>g DEF LocksHeld, Shaped, Changing
  <2> QED BY <2>1, <1>f, <1>g DEF Moved, Became, Prepared
<1>10. StaysClosed'
  <2>1. owned /\ ~late => auth.password # Unset
    BY DEF StaysClosed, Enabled
  <2>2. req[c].next = Candidate(req[c]) /\ (req[c].op = "disable" => ~owned \/ late)
    BY <1>g DEF Prepared
  <2>3. /\ req[c].op \in ConfigOps
        /\ req[c].op \in {"setup", "change"} => req[c].secret \in Passwords
    BY <1>g DEF Shaped
  <2>4. (req[c].op = "setup" \/ owned) /\ ~late => req[c].next.password # Unset
    BY <2>1, <2>2, <2>3, AccessAssumption DEF Candidate, ConfigOps, Configs, AuthType
  <2>5. owned /\ ~late => file.password # Unset
    BY DEF StaysClosed
  <2>6. req[c].op = "setup" /\ ~late => file.password # Unset
    BY <1>g DEF Prepared
  <2> QED BY <2>4, <2>5, <2>6, <1>g DEF StaysClosed, Enabled
<1>11. LoginsCounted'
  <2>1. req[c].op # "settings" => ChangePending'
    BY <1>f DEF Moved, Became, ChangePending
  <2>2. req[c].op = "settings" => auth' = auth /\ epoch' = epoch
    BY <1>g DEF Prepared, Candidate, Revoking
  <2>3. ChangePending => ChangePending'
    BY <1>f, <1>g DEF Moved, Became, ChangePending
  <2>4. \A d \in Clients : req[d].pc = "issue" => epoch' = epoch
    BY <1>g DEF LocksHeld, Shaped, Changing
  <2>5. ASSUME NEW d \in Clients, d # c
        PROVE  /\ req'[d].pc \in {"verify", "create"} => req'[d].gen <= generation'
               /\ req'[d].pc = "create" /\ req'[d].gen = generation' =>
                    \/ ChangePending'
                    \/ req'[d].epoch = epoch' /\ (req'[d].op = "setup" \/ Verified(d)')
               /\ req'[d].pc = "issue" => req'[d].epoch = epoch'
    BY <2>1, <2>2, <2>3, <2>4, <2>5, <1>f, <1>g
       DEF Became, Moved, Verified, LoginsCounted
  <2>6. req'[c].pc = "bump"
    BY <1>f DEF Moved, Became
  <2> QED BY <2>5, <2>6 DEF LoginsCounted
<1>12. SessionsCurrent'
  BY <1>6, <1>g, <1>f, AccessAssumption DEF Became, Moved, Cleared, Revoking,
     SessionType, SessionsCurrent
<1>13. TicketsCurrent'
  BY <1>6, <1>g, <1>f, AccessAssumption DEF Became, Moved, Cleared, Revoking,
     TicketType, TicketsCurrent
<1> QED BY <1>6, <1>7, <1>8, <1>9, <1>10, <1>11, <1>12, <1>13

LEMMA BumpGenerationKeeps ==
  ASSUME AccessTypes, AccessInv, NEW c \in Clients, BumpGeneration(c)
  PROVE  AccessTypes' /\ AccessInv'
<1> USE DEF AccessTypes, AccessInv
<1>f. \/ req[c].op \in Revoking /\ Moved(c, "clear") /\ lock' = lock
      \/ /\ req[c].op = "setup" /\ GivesBack(c) /\ AccessLockType'
         /\ Became(c, req[c].op, "create", req[c].secret, generation + 1,
                   req[c].next, epoch)
      \/ /\ req[c].op \notin Revoking \cup {"setup"} /\ Cleared(c) /\ GivesBack(c)
         /\ AccessLockType'
  <2>1. CASE req[c].op \in Revoking
    BY <2>1, MoveBecomes DEF BumpGeneration, AccessSteps
  <2>2. CASE req[c].op = "setup"
    <3> DEFINE r == [req[c] EXCEPT !.pc = "create", !.epoch = epoch,
                                   !.gen = generation + 1]
    <3>1. req[c] \in AccessRecords
      BY DEF ReqType
    <3>a. generation + 1 \in Nat /\ epoch \in Nat
      BY DEF CounterTypes
    <3>2. /\ r \in AccessRecords /\ r.op = req[c].op /\ r.secret = req[c].secret
          /\ r.next = req[c].next /\ r.pc = "create" /\ r.gen = generation + 1
          /\ r.epoch = epoch
      BY <3>1, <3>a DEF AccessRecords, AccessSteps
    <3>3. lock' = Released(c) /\ req' = [req EXCEPT ![c] = r]
      BY <2>2 DEF BumpGeneration, Revoking
    <3> QED BY <2>2, <3>2, <3>3, RequestBecomes, ReleaseGivesBack
  <2>3. CASE req[c].op \notin Revoking \cup {"setup"}
    <3>1. lock' = Released(c) /\ Reply(c)
      BY <2>3 DEF BumpGeneration
    <3> QED BY <2>3, <3>1, ReplyClears, ReleaseGivesBack
  <2> QED BY <2>1, <2>2, <2>3
<1>g. /\ UNCHANGED <<auth, file, sessions, tickets, attempts, orphans>>
      /\ UNCHANGED <<epoch, owned, late>>
      /\ req[c].pc = "bump"
      /\ generation' = IF req[c].op # "settings" THEN generation + 1 ELSE generation
  BY DEF BumpGeneration, Revokes
<1>1. /\ AuthType' /\ FileType' /\ SessionType' /\ TicketType'
      /\ HistoryType' /\ OrphanType'
  BY <1>g DEF AuthType, FileType, SessionType, TicketType, HistoryType,
     OrphanType
<1>2. CounterTypes'
  BY <1>g, <1>f, AccessAssumption DEF GivesBack, CounterTypes
<1>3. AccessLockType'
  BY <1>f, <1>g DEF AccessLockType
<1>4. ReqType'
  BY <1>f DEF Became, Moved, Cleared, ReqType
<1>5. AccessTypes'
  BY <1>1, <1>2, <1>3, <1>4
<1>6. StaysClosed'
  BY <1>g DEF StaysClosed, Enabled
<1>7. Shaped'
  BY <1>5, <1>g, <1>f, AccessAssumption DEF Became, Moved, Cleared,
     GivesBack, Logins, ConfigOps, Revoking, Shaped
<1>8. LocksHeld'
  BY <1>5, <1>g, <1>f, AccessAssumption DEF Became, Moved, Cleared,
     GivesBack, ConfigOps, Revoking, Changing, Logins, AccessLockType,
     LocksHeld
<1>9. Prepared'
  BY <1>5, <1>g, <1>f, AccessAssumption DEF Became, Moved, Cleared,
     GivesBack, Candidate, HistoryType, Prepared
<1>10. LoginsCounted'
  BY <1>5, <1>g, <1>f, AccessAssumption DEF Became, Moved, Cleared,
     GivesBack, ChangePending, Verified, CounterTypes, ReqType, AccessRecords,
     LoginsCounted
<1>11. SessionsCurrent'
  BY <1>5, <1>g, <1>f, AccessAssumption DEF Became, Moved, Cleared,
     GivesBack, Revoking, SessionType, SessionsCurrent
<1>12. TicketsCurrent'
  BY <1>5, <1>g, <1>f, AccessAssumption DEF Became, Moved, Cleared,
     GivesBack, Revoking, TicketType, TicketsCurrent
<1> QED BY <1>5, <1>6, <1>7, <1>8, <1>9, <1>10, <1>11, <1>12

LEMMA ClearSessionsKeeps ==
  ASSUME AccessTypes, AccessInv, NEW c \in Clients, ClearSessions(c)
  PROVE  AccessTypes' /\ AccessInv'
<1> USE DEF AccessTypes, AccessInv
<1>f. Moved(c, "clear tickets")
  BY MoveBecomes DEF ClearSessions, AccessSteps
<1>g. /\ UNCHANGED <<auth, file, generation, tickets, attempts, lock>>
      /\ UNCHANGED <<orphans, epoch, owned, late>>
      /\ req[c].pc = "clear" /\ sessions' = [t \in Tokens |-> NoSession]
  BY DEF ClearSessions
<1>1. /\ AuthType' /\ FileType' /\ CounterTypes' /\ TicketType'
      /\ AccessLockType' /\ HistoryType' /\ OrphanType'
  BY <1>g DEF AuthType, FileType, CounterTypes, TicketType, AccessLockType,
     HistoryType, OrphanType
<1>2. SessionType'
  BY <1>g, <1>f, AccessAssumption DEF NoSession, Validity, SessionType
<1>3. ReqType'
  BY <1>f DEF Became, Moved, Cleared, ReqType
<1>4. AccessTypes'
  BY <1>1, <1>2, <1>3
<1>5. StaysClosed'
  BY <1>g DEF StaysClosed, Enabled
<1>6. Shaped'
  BY <1>4, <1>g, <1>f, AccessAssumption DEF Became, Moved, Cleared,
     NoSession, Logins, ConfigOps, Revoking, Shaped
<1>7. LocksHeld'
  BY <1>4, <1>g, <1>f, AccessAssumption DEF Became, Moved, Cleared,
     NoSession, ConfigOps, Revoking, Changing, Logins, AccessLockType,
     LocksHeld
<1>8. Prepared'
  BY <1>4, <1>g, <1>f, AccessAssumption DEF Became, Moved, Cleared,
     NoSession, Candidate, HistoryType, Prepared
<1>9. LoginsCounted'
  <2>1. ChangePending => ChangePending'
    BY <1>f, <1>g DEF Became, Moved, Cleared, ChangePending
  <2>2. ASSUME NEW d \in Clients, d # c
        PROVE  /\ req'[d].pc \in {"verify", "create"} => req'[d].gen <= generation'
               /\ req'[d].pc = "create" /\ req'[d].gen = generation' =>
                    \/ ChangePending'
                    \/ req'[d].epoch = epoch' /\ (req'[d].op = "setup" \/ Verified(d)')
               /\ req'[d].pc = "issue" => req'[d].epoch = epoch'
    BY <2>1, <2>2, <1>f, <1>g DEF Became, Moved, Cleared, Verified, LoginsCounted
  <2>3. /\ req'[c].pc \in {"verify", "create"} => req'[c].gen <= generation'
        /\ req'[c].pc = "create" /\ req'[c].gen = generation' =>
             \/ ChangePending'
             \/ req'[c].epoch = epoch' /\ (req'[c].op = "setup" \/ Verified(c)')
        /\ req'[c].pc = "issue" => req'[c].epoch = epoch'
    BY <2>1, <1>f, <1>g DEF Became, Moved, Cleared, Verified, LoginsCounted,
       CounterTypes
  <2> QED BY <2>2, <2>3 DEF LoginsCounted
<1>10. SessionsCurrent'
  BY <1>4, <1>g, <1>f, AccessAssumption DEF Became, Moved, Cleared,
     NoSession, Revoking, SessionType, SessionsCurrent
<1>11. TicketsCurrent'
  BY <1>4, <1>g, <1>f, AccessAssumption DEF Became, Moved, Cleared,
     NoSession, Revoking, TicketType, TicketsCurrent
<1> QED BY <1>4, <1>5, <1>6, <1>7, <1>8, <1>9, <1>10, <1>11

LEMMA ClearTicketsKeeps ==
  ASSUME AccessTypes, AccessInv, NEW c \in Clients, ClearTickets(c)
  PROVE  AccessTypes' /\ AccessInv'
<1> USE DEF AccessTypes, AccessInv
<1>f. Cleared(c) /\ GivesBack(c) /\ AccessLockType'
  BY ReplyClears, ReleaseGivesBack DEF ClearTickets
<1>g. /\ UNCHANGED <<auth, file, generation, sessions, attempts, orphans>>
      /\ UNCHANGED <<epoch, owned, late>>
      /\ req[c].pc = "clear tickets" /\ tickets' = [k \in Tickets |-> NoTicket]
  BY DEF ClearTickets
<1>1. /\ AuthType' /\ FileType' /\ CounterTypes' /\ SessionType'
      /\ HistoryType' /\ OrphanType'
  BY <1>g DEF AuthType, FileType, CounterTypes, SessionType, HistoryType,
     OrphanType
<1>2. TicketType'
  BY <1>g, <1>f, AccessAssumption DEF NoTicket, GivesBack, Validity,
     TicketType
<1>3. AccessLockType'
  BY <1>f
<1>4. ReqType'
  BY <1>f DEF Became, Moved, Cleared, ReqType
<1>5. AccessTypes'
  BY <1>1, <1>2, <1>3, <1>4
<1>6. StaysClosed'
  BY <1>g DEF StaysClosed, Enabled
<1>7. Shaped'
  BY <1>5, <1>g, <1>f, AccessAssumption DEF Became, Moved, Cleared, NoTicket,
     GivesBack, Logins, ConfigOps, Revoking, Shaped
<1>8. LocksHeld'
  BY <1>5, <1>g, <1>f, AccessAssumption DEF Became, Moved, Cleared, NoTicket,
     GivesBack, ConfigOps, Revoking, Changing, Logins, AccessLockType,
     LocksHeld
<1>9. Prepared'
  BY <1>5, <1>g, <1>f, AccessAssumption DEF Became, Moved, Cleared, NoTicket,
     GivesBack, Candidate, HistoryType, Prepared
<1>10. LoginsCounted'
  <2>1. ChangePending => ChangePending'
    BY <1>f, <1>g DEF Became, Moved, Cleared, ChangePending
  <2>2. ASSUME NEW d \in Clients, d # c
        PROVE  /\ req'[d].pc \in {"verify", "create"} => req'[d].gen <= generation'
               /\ req'[d].pc = "create" /\ req'[d].gen = generation' =>
                    \/ ChangePending'
                    \/ req'[d].epoch = epoch' /\ (req'[d].op = "setup" \/ Verified(d)')
               /\ req'[d].pc = "issue" => req'[d].epoch = epoch'
    BY <2>1, <2>2, <1>f, <1>g DEF Became, Moved, Cleared, Verified, LoginsCounted
  <2>3. /\ req'[c].pc \in {"verify", "create"} => req'[c].gen <= generation'
        /\ req'[c].pc = "create" /\ req'[c].gen = generation' =>
             \/ ChangePending'
             \/ req'[c].epoch = epoch' /\ (req'[c].op = "setup" \/ Verified(c)')
        /\ req'[c].pc = "issue" => req'[c].epoch = epoch'
    BY <2>1, <1>f, <1>g DEF Became, Moved, Cleared, Verified, LoginsCounted,
       CounterTypes
  <2> QED BY <2>2, <2>3 DEF LoginsCounted
<1>11. SessionsCurrent'
  BY <1>5, <1>g, <1>f, AccessAssumption DEF Became, Moved, Cleared, NoTicket,
     GivesBack, Revoking, SessionType, SessionsCurrent
<1>12. TicketsCurrent'
  BY <1>5, <1>g, <1>f, AccessAssumption DEF Became, Moved, Cleared, NoTicket,
     GivesBack, Revoking, TicketType, TicketsCurrent
<1> QED BY <1>5, <1>6, <1>7, <1>8, <1>9, <1>10, <1>11, <1>12

LEMMA RequestDroppedKeeps ==
  ASSUME AccessTypes, AccessInv, NEW c \in Clients, RequestDropped(c)
  PROVE  AccessTypes' /\ AccessInv'
<1> USE DEF AccessTypes, AccessInv
<1>f. Cleared(c) /\ GivesBack(c) /\ AccessLockType'
  BY ReplyClears, ReleaseGivesBack DEF RequestDropped
<1>g. /\ UNCHANGED <<auth, file, generation, sessions, tickets, attempts>>
      /\ UNCHANGED <<epoch, owned, late>>
      /\ req[c].pc \notin {"idle", "bump", "clear", "clear tickets"}
      /\ orphans' = IF req[c].pc = "save" THEN orphans \cup {req[c].next}
                    ELSE orphans
  BY DEF RequestDropped, Chance
<1>1. /\ AuthType' /\ FileType' /\ CounterTypes' /\ SessionType'
      /\ TicketType' /\ HistoryType'
  BY <1>g DEF AuthType, FileType, CounterTypes, SessionType, TicketType,
     HistoryType
<1>2. AccessLockType'
  BY <1>f
<1>3. ReqType'
  BY <1>f DEF Became, Moved, Cleared, ReqType
<1>4. OrphanType'
  BY <1>g, <1>f, AccessAssumption DEF GivesBack, ReqType, AccessRecords,
     OrphanType
<1>5. AccessTypes'
  BY <1>1, <1>2, <1>3, <1>4
<1>6. StaysClosed'
  BY <1>g DEF StaysClosed, Enabled
<1>7. Shaped'
  BY <1>5, <1>g, <1>f, AccessAssumption DEF Became, Moved, Cleared,
     GivesBack, Logins, ConfigOps, Revoking, Shaped
<1>8. LocksHeld'
  BY <1>5, <1>g, <1>f, AccessAssumption DEF Became, Moved, Cleared,
     GivesBack, ConfigOps, Revoking, Changing, Logins, AccessLockType,
     LocksHeld
<1>9. Prepared'
  BY <1>5, <1>g, <1>f, AccessAssumption DEF Became, Moved, Cleared,
     GivesBack, Candidate, HistoryType, Prepared
<1>10. LoginsCounted'
  <2>1. ChangePending => ChangePending'
    BY <1>f, <1>g DEF Became, Moved, Cleared, ChangePending
  <2>2. ASSUME NEW d \in Clients, d # c
        PROVE  /\ req'[d].pc \in {"verify", "create"} => req'[d].gen <= generation'
               /\ req'[d].pc = "create" /\ req'[d].gen = generation' =>
                    \/ ChangePending'
                    \/ req'[d].epoch = epoch' /\ (req'[d].op = "setup" \/ Verified(d)')
               /\ req'[d].pc = "issue" => req'[d].epoch = epoch'
    BY <2>1, <2>2, <1>f, <1>g DEF Became, Moved, Cleared, Verified, LoginsCounted
  <2>3. /\ req'[c].pc \in {"verify", "create"} => req'[c].gen <= generation'
        /\ req'[c].pc = "create" /\ req'[c].gen = generation' =>
             \/ ChangePending'
             \/ req'[c].epoch = epoch' /\ (req'[c].op = "setup" \/ Verified(c)')
        /\ req'[c].pc = "issue" => req'[c].epoch = epoch'
    BY <2>1, <1>f, <1>g DEF Became, Moved, Cleared, Verified, LoginsCounted,
       CounterTypes
  <2> QED BY <2>2, <2>3 DEF LoginsCounted
<1>11. SessionsCurrent'
  BY <1>5, <1>g, <1>f, AccessAssumption DEF Became, Moved, Cleared,
     GivesBack, Revoking, SessionType, SessionsCurrent
<1>12. TicketsCurrent'
  BY <1>5, <1>g, <1>f, AccessAssumption DEF Became, Moved, Cleared,
     GivesBack, Revoking, TicketType, TicketsCurrent
<1> QED BY <1>5, <1>6, <1>7, <1>8, <1>9, <1>10, <1>11, <1>12

LEMMA ExpireKeeps ==
  ASSUME AccessTypes, AccessInv, Expire
  PROVE  AccessTypes' /\ AccessInv'
<1> USE DEF AccessTypes, AccessInv
<1>1. /\ AuthType' /\ FileType' /\ AccessLockType' /\ ReqType'
      /\ HistoryType' /\ OrphanType'
  BY DEF Expire, Chance, AuthType, FileType, AccessLockType, ReqType,
     HistoryType, OrphanType
<1>2. CounterTypes'
  BY AccessAssumption DEF Expire, Chance, CounterTypes
<1>3. SessionType'
  BY AccessAssumption DEF Expire, Chance, Validity, SessionType
<1>4. TicketType'
  BY AccessAssumption DEF Expire, Chance, Validity, TicketType
<1>5. AccessTypes'
  BY <1>1, <1>2, <1>3, <1>4
<1>6. /\ Shaped' /\ LocksHeld' /\ Prepared' /\ StaysClosed'
      /\ LoginsCounted'
  BY DEF Expire, Chance, Shaped, LocksHeld, Prepared, StaysClosed,
     LoginsCounted, Logins, ConfigOps, Revoking, Changing, Candidate, Enabled,
     ChangePending, Verified, Kind
<1>7. SessionsCurrent'
  BY <1>5, AccessAssumption DEF Expire, Chance, Revoking, SessionType,
     SessionsCurrent
<1>8. TicketsCurrent'
  BY <1>5, AccessAssumption DEF Expire, Chance, Revoking, TicketType,
     TicketsCurrent
<1> QED BY <1>5, <1>6, <1>7, <1>8

LEMMA DamageKeeps ==
  ASSUME AccessTypes, AccessInv, Damage
  PROVE  AccessTypes' /\ AccessInv'
<1> USE DEF AccessTypes, AccessInv
<1>1. /\ AuthType' /\ CounterTypes' /\ SessionType' /\ TicketType'
      /\ AccessLockType' /\ ReqType' /\ HistoryType' /\ OrphanType'
  BY DEF Damage, Chance, AuthType, CounterTypes, SessionType, TicketType,
     AccessLockType, ReqType, HistoryType, OrphanType
<1>2. FileType'
  BY AccessAssumption DEF Damage, Chance, Configs, Damaged, Unset, FileType
<1>3. AccessTypes'
  BY <1>1, <1>2
<1>4. /\ Shaped' /\ LocksHeld' /\ LoginsCounted' /\ SessionsCurrent'
      /\ TicketsCurrent'
  BY DEF Damage, Chance, Shaped, LocksHeld, LoginsCounted, SessionsCurrent,
     TicketsCurrent, Logins, ConfigOps, Revoking, Changing, ChangePending,
     Verified, Kind
<1>5. Prepared'
  BY DEF Damage, Prepared, Damaged, Unset, Candidate
<1>6. StaysClosed'
  BY DEF Damage, StaysClosed, Damaged, Unset
<1> QED BY <1>3, <1>4, <1>5, <1>6

LEMMA RestartKeeps ==
  ASSUME AccessTypes, AccessInv, Restart
  PROVE  AccessTypes' /\ AccessInv'
<1> USE DEF AccessTypes, AccessInv
<1>f. /\ req' \in [Clients -> AccessRecords]
      /\ \A c \in Clients : req'[c].pc = "idle" /\ req'[c].op = "none"
  BY DEF Restart, Idle, AccessRecords, AccessSteps, Ops, Configs, Unconfigured
<1>1. FileType' /\ HistoryType'
  BY DEF Restart, Chance, FileType, HistoryType
<1>2. AuthType'
  BY <1>f, AccessAssumption DEF Restart, Chance, Load, FailClosed, NoSession,
     NoTicket, Damaged, Locked, Unset, Unconfigured, Configs, FileType,
     AuthType
<1>3. CounterTypes'
  BY <1>f, AccessAssumption DEF Restart, Chance, Load, FailClosed, NoSession,
     NoTicket, Damaged, Locked, Unset, Unconfigured, CounterTypes
<1>4. SessionType'
  BY <1>f, AccessAssumption DEF Restart, Chance, Load, FailClosed, NoSession,
     NoTicket, Damaged, Locked, Unset, Unconfigured, Validity, SessionType
<1>5. TicketType'
  BY <1>f, AccessAssumption DEF Restart, Chance, Load, FailClosed, NoSession,
     NoTicket, Damaged, Locked, Unset, Unconfigured, Validity, TicketType
<1>6. AccessLockType'
  BY <1>f, AccessAssumption DEF Restart, Chance, Load, FailClosed, NoSession,
     NoTicket, Damaged, Locked, Unset, Unconfigured, AccessLockType
<1>7. ReqType'
  BY <1>f DEF Became, Moved, Cleared, ReqType
<1>8. OrphanType'
  BY <1>f, AccessAssumption DEF Restart, Chance, Load, FailClosed, NoSession,
     NoTicket, Damaged, Locked, Unset, Unconfigured, ReqType, AccessRecords,
     OrphanType
<1>9. AccessTypes'
  BY <1>1, <1>2, <1>3, <1>4, <1>5, <1>6, <1>7, <1>8
<1>10. Shaped'
  BY <1>9, <1>f, AccessAssumption DEF Restart, Chance, Became, Moved,
     Cleared, Load, FailClosed, NoSession, NoTicket, Damaged, Locked, Unset,
     Unconfigured, Logins, ConfigOps, Revoking, Shaped
<1>11. LocksHeld'
  BY <1>9, <1>f, AccessAssumption DEF Restart, Chance, Became, Moved,
     Cleared, Load, FailClosed, NoSession, NoTicket, Damaged, Locked, Unset,
     Unconfigured, ConfigOps, Revoking, Changing, Logins, AccessLockType,
     LocksHeld
<1>12. Prepared'
  BY <1>9, <1>f, AccessAssumption DEF Restart, Chance, Became, Moved,
     Cleared, Load, FailClosed, NoSession, NoTicket, Damaged, Locked, Unset,
     Unconfigured, Candidate, HistoryType, Prepared
<1>13. StaysClosed'
  <2>1. CASE file = Damaged
    BY <2>1 DEF Restart, StaysClosed, Load, FailClosed, Enabled, Damaged, Locked, Unset
  <2>2. CASE file # Damaged
    BY <2>2 DEF Restart, StaysClosed, Load, Enabled
  <2> QED BY <2>1, <2>2
<1>14. LoginsCounted'
  BY <1>9, <1>f, AccessAssumption DEF Restart, Chance, Became, Moved,
     Cleared, Load, FailClosed, NoSession, NoTicket, Damaged, Locked, Unset,
     Unconfigured, ChangePending, Verified, CounterTypes, ReqType,
     AccessRecords, LoginsCounted
<1>15. SessionsCurrent'
  BY <1>9, <1>f, AccessAssumption DEF Restart, Chance, Became, Moved,
     Cleared, Load, FailClosed, NoSession, NoTicket, Damaged, Locked, Unset,
     Unconfigured, Revoking, SessionType, SessionsCurrent
<1>16. TicketsCurrent'
  BY <1>9, <1>f, AccessAssumption DEF Restart, Chance, Became, Moved,
     Cleared, Load, FailClosed, NoSession, NoTicket, Damaged, Locked, Unset,
     Unconfigured, Revoking, TicketType, TicketsCurrent
<1> QED BY <1>9, <1>10, <1>11, <1>12, <1>13, <1>14, <1>15, <1>16

LEMMA AccessTakesSteps ==
  ASSUME AccessTypes, AccessInv, [AccessNext]_accessVars
  PROVE  AccessTypes' /\ AccessInv'
<1>1. CASE UNCHANGED accessVars
  BY <1>1 DEF accessVars, AccessTypes, AccessInv, AuthType, FileType, CounterTypes,
     SessionType, TicketType, AccessLockType, ReqType, HistoryType, OrphanType, Shaped,
     LocksHeld, Prepared, Candidate, StaysClosed, Enabled, LoginsCounted,
     ChangePending, Verified, SessionsCurrent, TicketsCurrent
<1>2. ASSUME NEW c \in Clients, SetupPassword(c)
      PROVE  AccessTypes' /\ AccessInv'
  <2>1. PICK s \in Passwords : Change(c, "setup", s)
    BY <1>2 DEF SetupPassword
  <2> QED BY <2>1, ChangeKeeps DEF ConfigOps
<1>3. ASSUME NEW c \in Clients, ChangePassword(c)
      PROVE  AccessTypes' /\ AccessInv'
  <2>1. PICK s \in Passwords : Change(c, "change", s)
    BY <1>3 DEF ChangePassword
  <2> QED BY <2>1, ChangeKeeps DEF ConfigOps
<1>4. ASSUME NEW c \in Clients, SetPin(c)
      PROVE  AccessTypes' /\ AccessInv'
  <2>1. PICK s \in Pins : Change(c, "set_pin", s)
    BY <1>4 DEF SetPin
  <2> QED BY <2>1, ChangeKeeps DEF ConfigOps
<1>5. ASSUME NEW c \in Clients,
             DisablePassword(c) \/ RemovePin(c) \/ UpdateSettings(c)
      PROVE  AccessTypes' /\ AccessInv'
  <2>1. PICK op \in {"disable", "remove_pin", "settings"} : Change(c, op, Unset)
    BY <1>5 DEF DisablePassword, RemovePin, UpdateSettings
  <2> QED BY <2>1, ChangeKeeps DEF ConfigOps
<1>6. ASSUME NEW c \in Clients,
             \/ EnforceLoginRateLimit(c) \/ ReadGeneration(c) \/ Verify(c)
             \/ CreateSession(c) \/ AskTicket(c) \/ TicketCheck(c) \/ TicketIssue(c)
      PROVE  AccessTypes' /\ AccessInv'
  BY <1>6, EnforceLoginRateLimitKeeps, ReadGenerationKeeps, VerifyKeeps,
     CreateSessionKeeps, AskTicketKeeps, TicketCheckKeeps, TicketIssueKeeps
<1>7. ASSUME NEW c \in Clients,
             \/ TakeLock(c) \/ Recheck(c) \/ Persist(c) \/ WriteAuth(c)
             \/ BumpGeneration(c) \/ ClearSessions(c) \/ ClearTickets(c)
             \/ RequestDropped(c)
      PROVE  AccessTypes' /\ AccessInv'
  BY <1>7, TakeLockKeeps, RecheckKeeps, PersistKeeps, WriteAuthKeeps,
     BumpGenerationKeeps, ClearSessionsKeeps, ClearTicketsKeeps, RequestDroppedKeeps
<1>8. ASSUME NEW t \in Tokens, Logout(t)
      PROVE  AccessTypes' /\ AccessInv'
  BY <1>8, LogoutKeeps
<1>9. ASSUME NEW k \in Tickets, ConsumeStreamTicket(k)
      PROVE  AccessTypes' /\ AccessInv'
  BY <1>9, ConsumeStreamTicketKeeps
<1>10. ASSUME NEW a \in orphans, OrphanSave(a)
       PROVE  AccessTypes' /\ AccessInv'
  BY <1>10, OrphanSaveKeeps
<1>11. CASE Expire \/ Damage \/ Restart
  BY <1>11, ExpireKeeps, DamageKeeps, RestartKeeps
<1> QED BY <1>1, <1>2, <1>3, <1>4, <1>5, <1>6, <1>7, <1>8, <1>9, <1>10, <1>11
        DEF AccessNext

LEMMA AccessStarts ==
  ASSUME AccessInit
  PROVE  AccessTypes /\ AccessInv
<1> USE DEF AccessInit
<1>1. \A c \in Clients : req[c] = Idle
  OBVIOUS
<1>2. Idle.pc = "idle" /\ Idle.op = "none" /\ Idle \in AccessRecords
  BY DEF Idle, AccessRecords, AccessSteps, Ops, Configs, Unconfigured, Unset, Free
<1>3. AuthType /\ FileType
  BY DEF AuthType, FileType, Configs, Unconfigured
<1>4. CounterTypes /\ OrphanType
  BY AccessAssumption DEF CounterTypes, OrphanType
<1>a. SessionType /\ TicketType /\ AccessLockType
  BY DEF SessionType, TicketType, AccessLockType, NoSession, NoTicket, Validity
<1>b. HistoryType
  BY DEF HistoryType, Enabled
<1>5. ReqType
  BY <1>2 DEF ReqType
<1>6. Shaped /\ LocksHeld /\ Prepared /\ LoginsCounted
  BY <1>1, <1>2 DEF Shaped, LocksHeld, Prepared, LoginsCounted, Changing, ConfigOps,
     Revoking
<1>7. StaysClosed
  BY DEF StaysClosed, Enabled
<1>8. SessionsCurrent /\ TicketsCurrent
  BY DEF SessionsCurrent, TicketsCurrent, NoSession, NoTicket
<1> QED BY <1>3, <1>4, <1>a, <1>b, <1>5, <1>6, <1>7, <1>8 DEF AccessTypes, AccessInv

(* The inductive invariant of the dashboard's access.                      *)
THEOREM AccessInvariant == AccessSpec => [](AccessTypes /\ AccessInv)
<1>1. AccessInit => AccessTypes /\ AccessInv
  BY AccessStarts
<1>2. AccessTypes /\ AccessInv /\ [AccessNext]_accessVars => AccessTypes' /\ AccessInv'
  BY AccessTakesSteps
<1> QED BY <1>1, <1>2, PTL DEF AccessSpec

(* Every login, ticket, change of a credential and dropped request,        *)
(* however they interleave: once a change has given its locks back, every  *)
(* session and ticket is of the credentials in force.  (login,             *)
(* create_session, change_password, disable_password.)                     *)
THEOREM SessionsMatchCredentials == AccessSpec => []CredentialsCurrent
<1>1. AccessTypes /\ AccessInv => CredentialsCurrent
  <2> SUFFICES ASSUME AccessTypes, AccessInv
               PROVE  CredentialsCurrent
    OBVIOUS
  <2> USE DEF AccessInv
  <2>1. ASSUME lock["session"] = Free
        PROVE  \A d \in Clients :
                 ~(req[d].pc \in {"bump", "clear"} /\ req[d].op \in Revoking)
    BY <2>1, AccessAssumption DEF LocksHeld, Changing, ConfigOps, Revoking
  <2>2. ASSUME lock["ticket"] = Free
        PROVE  \A d \in Clients : ~(/\ req[d].pc \in {"bump", "clear", "clear tickets"}
                                    /\ req[d].op \in Revoking)
    BY <2>2, AccessAssumption DEF LocksHeld, Changing, Revoking
  <2>3. lock["session"] = Free => \A t \in Tokens : sessions[t].state = "live" =>
          sessions[t].epoch = epoch /\ sessions[t].fresh
    BY <2>1 DEF SessionsCurrent
  <2>4. lock["ticket"] = Free => \A k \in Tickets : tickets[k].state = "live" =>
          tickets[k].epoch = epoch
    BY <2>2 DEF TicketsCurrent
  <2> QED BY <2>3, <2>4 DEF CredentialsCurrent
<1> QED BY <1>1, AccessInvariant, PTL

(* A password that was set stays in force, and in the file the next start  *)
(* loads, until a caller with a credential disables it: no race of set-up, *)
(* change and disable, no failing save, damaged file, dropped request or   *)
(* restart opens the dashboard, but a save that outlives its request.      *)
(* (require_auth, load, setup_password, disable_password.)                 *)
THEOREM DashboardStaysClosed == AccessSpec => []NeverOpenByAccident
<1>1. AccessTypes /\ AccessInv => NeverOpenByAccident
  BY DEF AccessInv, StaysClosed, NeverOpenByAccident
<1> QED BY <1>1, AccessInvariant, PTL
==============================================================================
