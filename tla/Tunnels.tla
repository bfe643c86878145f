------------------------------ MODULE Tunnels ------------------------------
(***************************************************************************)
(* The tunnel manager: provider processes started by create, watched by a  *)
(* task of their own, and stopped or removed by requests that may be       *)
(* dropped by their client at any await.  A tunnel's tree is its root      *)
(* process and the descendants in the root's process group.                *)
(*                                                                         *)
(* SIGKILL to a group kills every member of it.  A root that died stays a  *)
(* zombie, and its PID stays taken, until its parent reaps it.             *)
(***************************************************************************)
EXTENDS Integers, FiniteSets

CONSTANTS
  Callers,     \* requests that can be in flight together
  Tunnels,     \* tunnel ids: as many as records may be kept (256)
  MaxActive,   \* tunnels that may run at the same time (32)
  MaxCalls     \* bound: requests

VARIABLES
  entry,       \* status of each tunnel's record, "none" without one
  pids,        \* tunnels whose process is registered
  root,        \* the root process of each tunnel
  descend,     \* tunnels with live descendants of the root
  watch,       \* the watcher task of each tunnel
  createLock,  \* holder of create_lock
  call,        \* the request of each caller
  calls        \* requests so far

tunnelVars == <<entry, pids, root, descend, watch, createLock, call, calls>>

Unheld == "unheld"
NoTunnel == "no_tunnel"

ASSUME TunnelAssumption == Unheld \notin Callers /\ MaxCalls \in Nat

Quiet == [op |-> "none", pc |-> "idle", id |-> NoTunnel]

Cleaning == {"kill", "fail", "unlist", "unregister", "mark", "drop"}

TunnelTypeOK ==
  /\ entry \in [Tunnels -> {"none", "starting", "active", "stopped", "failed"}]
  /\ pids \subseteq Tunnels /\ descend \subseteq Tunnels
  /\ root \in [Tunnels -> {"none", "alive", "zombie", "gone"}]
  /\ watch \in [Tunnels -> {"none", "scan", "found", "activate", "wait"}
                             \union Cleaning]
  /\ createLock \in Callers \union {Unheld}
  /\ DOMAIN call = Callers /\ calls \in 0..MaxCalls

TunnelInit ==
  /\ entry = [t \in Tunnels |-> "none"] /\ pids = {} /\ descend = {}
  /\ root = [t \in Tunnels |-> "none"] /\ watch = [t \in Tunnels |-> "none"]
  /\ createLock = Unheld /\ call = [c \in Callers |-> Quiet] /\ calls = 0

Alive(t)      == root[t] = "alive" \/ t \in descend
Creating(t)   == \E c \in Callers : /\ call[c].op = "create" /\ call[c].id = t
                                    /\ call[c].pc \in {"spawn", "attach", "capture"}
Go(c, pc)     == call' = [call EXCEPT ![c].pc = pc]
Finish(c)     == call' = [call EXCEPT ![c] = Quiet]
Release(c)    == createLock' = IF createLock = c THEN Unheld ELSE createLock
Killed(t)     == IF root[t] = "alive" THEN "zombie" ELSE root[t]
KillGroup(t)  == /\ root' = [root EXCEPT ![t] = Killed(t)]
                 /\ descend' = descend \ {t}
(* The child handle is dropped, killing the root if asked to, and the       *)
(* runtime reaps it.                                                        *)
KillAndForget(t) == /\ root' = [root EXCEPT ![t] = "gone"]
                    /\ descend' = descend \ {t}

(* An id a new tunnel may get: nothing refers to it any more.               *)
Fresh(t) == /\ entry[t] = "none" /\ t \notin pids /\ watch[t] = "none"
            /\ \A c \in Callers : call[c].id # t

-----------------------------------------------------------------------------
Ask(c) ==
  /\ call[c] = Quiet /\ calls < MaxCalls /\ calls' = calls + 1
  /\ \/ call' = [call EXCEPT ![c] = [op |-> "create", pc |-> "lock", id |-> NoTunnel]]
     \/ \E op \in {"stop", "remove"} : \E t \in {u \in Tunnels : entry[u] # "none"} :
          call' = [call EXCEPT ![c] = [op |-> op, pc |-> "lock", id |-> t]]
  /\ UNCHANGED <<entry, pids, root, descend, watch, createLock>>

(* create, up to the record of the new tunnel. *)
Create(c) ==
  /\ call[c].op = "create" /\ call[c].pc = "lock" /\ createLock = Unheld
  /\ IF Cardinality(pids) >= MaxActive \/ \A t \in Tunnels : entry[t] # "none"
     THEN Finish(c) /\ UNCHANGED <<entry, createLock, root>>
     ELSE \E t \in Tunnels :
            /\ Fresh(t) /\ createLock' = c
            /\ call' = [call EXCEPT ![c].pc = "spawn", ![c].id = t]
            /\ entry' = [entry EXCEPT ![t] = "starting"]
            /\ root' = [root EXCEPT ![t] = "none"]
  /\ UNCHANGED <<pids, descend, watch, calls>>

(* The provider's command line may be refused, and the spawn may fail. *)
SpawnTunnel(c) ==
  /\ call[c].pc = "spawn"
  /\ LET t == call[c].id IN
       \/ /\ root' = [root EXCEPT ![t] = "alive"] /\ Go(c, "attach")
          /\ UNCHANGED <<entry, createLock>>
       \/ /\ entry' = [entry EXCEPT ![t] = "none"] /\ Release(c) /\ Finish(c)
          /\ UNCHANGED root
  /\ UNCHANGED <<pids, descend, watch, calls>>

(* The tree guard; when it cannot be made the group is killed and reaped.   *)
AttachTunnel(c) ==
  /\ call[c].pc = "attach"
  /\ LET t == call[c].id IN
       \/ Go(c, "capture") /\ UNCHANGED <<entry, root, descend, createLock>>
       \/ /\ KillAndForget(t) /\ entry' = [entry EXCEPT ![t] = "none"]
          /\ Release(c) /\ Finish(c)
  /\ UNCHANGED <<pids, watch, calls>>

(* The identity, then registration and the watcher.  Without an identity    *)
(* the root is killed and the guard takes the rest of the group down.       *)
RegisterTunnel(c) ==
  /\ call[c].pc = "capture"
  /\ LET t == call[c].id IN
       \/ /\ pids' = pids \union {t} /\ watch' = [watch EXCEPT ![t] = "scan"]
          /\ UNCHANGED <<entry, root, descend>>
       \/ /\ KillAndForget(t) /\ entry' = [entry EXCEPT ![t] = "none"]
          /\ UNCHANGED <<pids, watch>>
  /\ Release(c) /\ Finish(c) /\ UNCHANGED calls

-----------------------------------------------------------------------------
(* Slip: stop does not wait for a create under way. *)
StopUnlocked(c) ==
  /\ call[c].op \in {"stop", "remove"} /\ call[c].pc = "lock"
  /\ Go(c, IF call[c].id \in pids THEN "kill" ELSE "stopped")
  /\ UNCHANGED <<entry, pids, root, descend, watch, createLock, calls>>

(* stop, and the stop with which the remove route begins. *)
Stop(c) ==
  /\ call[c].op \in {"stop", "remove"} /\ call[c].pc = "lock"
  /\ createLock = Unheld /\ createLock' = c
  /\ Go(c, IF call[c].id \in pids THEN "kill" ELSE "stopped")
  /\ UNCHANGED <<entry, pids, root, descend, watch, calls>>

(* kill_orphan_pid: refused once the root is reaped, since no stable handle *)
(* on its PID can be opened; otherwise SIGTERM, and SIGKILL after 3 s.      *)
SignalTunnel(c) ==
  /\ call[c].pc = "kill"
  /\ LET t == call[c].id IN
       IF root[t] = "gone"
       THEN Release(c) /\ Finish(c) /\ UNCHANGED <<root, descend>>
       ELSE KillGroup(t) /\ Go(c, "confirm") /\ UNCHANGED createLock
  /\ UNCHANGED <<entry, pids, watch, calls>>

(* The group no longer exists, or the wait runs out while a zombie holds it. *)
ConfirmStop(c) ==
  /\ call[c].pc = "confirm"
  /\ \/ /\ root[call[c].id] = "gone"
        /\ pids' = pids \ {call[c].id} /\ Go(c, "stopped") /\ UNCHANGED createLock
     \/ Release(c) /\ Finish(c) /\ UNCHANGED pids
  /\ UNCHANGED <<entry, root, descend, watch, calls>>

MarkStopped(c) ==
  /\ call[c].pc = "stopped"
  /\ LET t == call[c].id IN
       entry' = [entry EXCEPT ![t] = IF @ = "none" THEN @ ELSE "stopped"]
  /\ Release(c)
  /\ IF call[c].op = "remove" THEN Go(c, "delete") ELSE Finish(c)
  /\ UNCHANGED <<pids, root, descend, watch, calls>>

RemoveTunnel(c) ==
  /\ call[c].pc = "delete"
  /\ pids' = pids \ {call[c].id} /\ entry' = [entry EXCEPT ![call[c].id] = "none"]
  /\ Finish(c) /\ UNCHANGED <<root, descend, watch, createLock, calls>>

(* The client disconnects: the handler is dropped at its await.  A create   *)
(* that had spawned drops its guard and child with it; its record stays.    *)
Disconnect(c) ==
  /\ call[c].pc \in {"lock", "attach", "capture", "confirm"}
  /\ IF call[c].pc \in {"attach", "capture"}
     THEN KillAndForget(call[c].id) ELSE UNCHANGED <<root, descend>>
  /\ Release(c) /\ Finish(c) /\ UNCHANGED <<entry, pids, watch, calls>>

-----------------------------------------------------------------------------
(* The watcher: the provider's output until a public URL, 45 s at most. *)
WatchOutput(t) ==
  /\ watch[t] = "scan"
  /\ \/ Alive(t) /\ watch' = [watch EXCEPT ![t] = "found"]
     \/ watch' = [watch EXCEPT ![t] = "kill"]
  /\ UNCHANGED <<entry, pids, root, descend, createLock, call, calls>>

FoundUrl(t) ==
  /\ watch[t] = "found"
  /\ watch' = [watch EXCEPT ![t] = IF t \in pids THEN "activate" ELSE "wait"]
  /\ UNCHANGED <<entry, pids, root, descend, createLock, call, calls>>

Activate(t) ==
  /\ watch[t] = "activate" /\ watch' = [watch EXCEPT ![t] = "wait"]
  /\ entry' = [entry EXCEPT ![t] = IF @ = "starting" THEN "active" ELSE @]
  /\ UNCHANGED <<pids, root, descend, createLock, call, calls>>

(* No URL: kill_spawned_process reaps the root, killing it if it runs. *)
GiveUp(t) ==
  /\ watch[t] = "kill" /\ root' = [root EXCEPT ![t] = "gone"]
  /\ watch' = [watch EXCEPT ![t] = "fail"]
  /\ UNCHANGED <<entry, pids, descend, createLock, call, calls>>

(* After a URL the watcher waits for the root. *)
ReapTunnel(t) ==
  /\ watch[t] = "wait" /\ root[t] = "zombie"
  /\ root' = [root EXCEPT ![t] = "gone"] /\ watch' = [watch EXCEPT ![t] = "unregister"]
  /\ UNCHANGED <<entry, pids, descend, createLock, call, calls>>

Unregister(t) ==
  /\ watch[t] \in {"unregister", "unlist"} /\ pids' = pids \ {t}
  /\ watch' = [watch EXCEPT ![t] = IF @ = "unregister" THEN "mark" ELSE "drop"]
  /\ UNCHANGED <<entry, root, descend, createLock, call, calls>>

MarkFailed(t) ==
  /\ \/ /\ watch[t] = "fail" /\ watch' = [watch EXCEPT ![t] = "unlist"]
        /\ entry' = [entry EXCEPT ![t] = IF @ = "starting" THEN "failed" ELSE @]
     \/ /\ watch[t] = "mark" /\ watch' = [watch EXCEPT ![t] = "drop"]
        /\ entry' = [entry EXCEPT ![t] = IF @ = "active" THEN "failed" ELSE @]
  /\ UNCHANGED <<pids, root, descend, createLock, call, calls>>

(* The end of the task drops the guard: what is left of the group dies. *)
DropTunnelTree(t) ==
  /\ watch[t] = "drop" /\ watch' = [watch EXCEPT ![t] = "none"]
  /\ KillGroup(t) /\ UNCHANGED <<entry, pids, createLock, call, calls>>

(* The provider's own processes. *)
ProviderMoves(t) ==
  /\ \/ root[t] = "alive" /\ root' = [root EXCEPT ![t] = "zombie"] /\ UNCHANGED descend
     \/ root[t] = "alive" /\ descend' = descend \union {t} /\ UNCHANGED root
     \/ t \in descend /\ descend' = descend \ {t} /\ UNCHANGED root
  /\ UNCHANGED <<entry, pids, watch, createLock, call, calls>>

-----------------------------------------------------------------------------
TunnelNext ==
  \/ \E c \in Callers :
       \/ Ask(c) \/ Create(c) \/ SpawnTunnel(c) \/ AttachTunnel(c)
       \/ RegisterTunnel(c) \/ Stop(c) \/ SignalTunnel(c) \/ ConfirmStop(c)
       \/ MarkStopped(c) \/ RemoveTunnel(c) \/ Disconnect(c)
  \/ \E t \in Tunnels :
       \/ WatchOutput(t) \/ FoundUrl(t) \/ Activate(t) \/ GiveUp(t)
       \/ ReapTunnel(t) \/ Unregister(t) \/ MarkFailed(t) \/ DropTunnelTree(t)
       \/ ProviderMoves(t)

TunnelSpec == TunnelInit /\ [][TunnelNext]_tunnelVars

(* No tunnel runs unseen: a live tree belongs to a create under way or to a  *)
(* watcher, a tunnel reported as stopped or no longer listed has only a tree *)
(* that its watcher is taking down, and one reported as active still has a   *)
(* registered process that a stop would find, or a watcher or a stop about   *)
(* to say otherwise.  (create, stop, remove and the watcher task.)           *)
TunnelsAccounted == \A t \in Tunnels :
  /\ Alive(t) => Creating(t) \/ watch[t] # "none"
  /\ t \in pids => watch[t] # "none"
  /\ entry[t] \in {"none", "stopped"} /\ Alive(t) => watch[t] \in Cleaning
  /\ entry[t] = "active" =>
       \/ t \in pids \/ watch[t] \in Cleaning
       \/ \E c \in Callers : call[c].id = t /\ call[c].pc = "stopped"
=============================================================================
