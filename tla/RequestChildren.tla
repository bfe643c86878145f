-------------------------- MODULE RequestChildren --------------------------
(***************************************************************************)
(* The short-lived processes a request starts and waits for: scripts,      *)
(* tunnel provider installers and probes, terminals, lifecycle hooks and   *)
(* git commands (Unix).  All are spawned into a process group of their own *)
(* and held by a ProcessTreeGuard; they differ in how many may run, in     *)
(* what ends them and in the order of their cleanup.                       *)
(*                                                                         *)
(* A PID is free again once its root is reaped and its group is empty; any *)
(* program of the machine may then get it and lead a group with that id.   *)
(* Such a program starts in a later second than the root it replaces.      *)
(***************************************************************************)
EXTENDS Integers, FiniteSets

CONSTANTS
  Requests,       \* requests that can be in flight together
  Pids,           \* process ids
  Platform,       \* "linux" or "macos"
  MaxScripts,     \* scripts that may run at once (2)
  MaxProbes,      \* provider probes that may run at once (4)
  MaxTerminals    \* terminals that may be open at once (16)

ASSUME ChildAssumption ==
  IsFiniteSet(Requests) /\ {MaxScripts, MaxProbes, MaxTerminals} \subseteq Nat

VARIABLES
  job,        \* the kind and the stage of each request
  tree,       \* the root, descendants and guard of each request's child
  held,       \* requests that hold their permit or lock
  terminals,  \* requests listed as open terminals
  foreign,    \* PIDs taken by programs of others, each leading its group
  struck      \* history: a guard signalled a group it does not own

childVars == <<job, tree, held, terminals, foreign, struck>>

Kinds   == {"script", "install", "install_stream", "probe", "terminal", "hook",
            "git"}
Gate(k) == CASE k \in {"install", "install_stream"} -> "install_lock"
             [] k = "git"                           -> "git_lock"
             [] OTHER                               -> k
Capacity(g) == CASE g \in {"install_lock", "git_lock"} -> 1
                 [] g = "script"   -> MaxScripts
                 [] g = "probe"    -> MaxProbes
                 [] g = "terminal" -> MaxTerminals
                 [] g = "hook"     -> Cardinality(Requests)

NoJob  == [kind |-> "none", pc |-> "idle"]
NoTree == [pid |-> 0, root |-> "none", descend |-> FALSE, guard |-> FALSE]

ChildTypeOK ==
  /\ job \in [Requests -> [kind : Kinds \union {"none"},
                           pc : {"idle", "upgrade", "attach", "run", "limited",
                                 "terminate", "report", "unwind", "after"}]]
  /\ tree \in [Requests -> [pid : Pids \union {0}, guard : BOOLEAN,
                            root : {"none", "alive", "zombie", "gone"},
                            descend : BOOLEAN]]
  /\ held \subseteq Requests /\ terminals \subseteq Requests
  /\ foreign \subseteq Pids /\ struck \in BOOLEAN

ChildInit ==
  /\ job = [r \in Requests |-> NoJob] /\ tree = [r \in Requests |-> NoTree]
  /\ held = {} /\ terminals = {} /\ foreign = {} /\ struck = FALSE

Is(r, k)      == job[r].kind = k
At(r, pc)     == job[r].pc = pc
To(r, pc)     == job' = [job EXCEPT ![r].pc = pc]
Waits(r, k)   == Is(r, k) /\ job[r].pc \in {"run", "limited"}
Running(r)    == tree[r].root = "alive" \/ tree[r].descend
Unreaped(r)   == tree[r].root \in {"alive", "zombie"}
Takes(r, p)   == tree[r].pid = p /\ (Unreaped(r) \/ tree[r].descend)
FreePid(p)    == p \notin foreign /\ \A r \in Requests : ~Takes(r, p)
Holders(g)    == {r \in held : Gate(job[r].kind) = g}
Reaped(t)     == [t EXCEPT !.root = "gone"]
GroupKilled(t) == [t EXCEPT !.root = IF @ = "alive" THEN "zombie" ELSE @,
                            !.descend = FALSE]

-----------------------------------------------------------------------------
(* The start of each kind.  A request that finds its gate full is told to   *)
(* come back, or waits for the install or git lock; neither changes         *)
(* anything.  A hook has no gate, and a pull runs its commands in turn.     *)
Admitted(r, k) == /\ job[r] = NoJob /\ Cardinality(Holders(Gate(k))) < Capacity(Gate(k))
                  /\ held' = held \union {r}
                  /\ UNCHANGED <<terminals, foreign, struck>>

(* The spawn, into a group of its own, or the error that ends the request.  *)
SpawnChild(r, k) ==
  \/ \E p \in Pids :
       /\ FreePid(p) /\ job' = [job EXCEPT ![r] = [kind |-> k, pc |-> "attach"]]
       /\ tree' = [tree EXCEPT ![r] = [NoTree EXCEPT !.pid = p, !.root = "alive"]]
  \/ /\ job' = [job EXCEPT ![r] = [kind |-> k, pc |-> "after"]]
     /\ tree' = [tree EXCEPT ![r] = NoTree]

(* No installer is run on Linux, and none exists for a custom provider.     *)
TunnelInstallCommand(provider) == Platform = "macos" /\ provider # "custom"
Installable == \E p \in {"cloudflare", "ngrok", "custom"} : TunnelInstallCommand(p)

RunScript(r)             == Admitted(r, "script") /\ SpawnChild(r, "script")
InstallProvider(r)       == /\ Installable /\ Admitted(r, "install")
                            /\ SpawnChild(r, "install")
InstallProviderStream(r) == /\ Installable /\ Admitted(r, "install_stream")
                            /\ SpawnChild(r, "install_stream")
CheckProvider(r)         == Admitted(r, "probe") /\ SpawnChild(r, "probe")
RunHook(r)               == Admitted(r, "hook") /\ SpawnChild(r, "hook")
CmdOutput(r)             == Admitted(r, "git") /\ SpawnChild(r, "git")

(* A terminal has its permit while its connection is still being upgraded.  *)
WsHandler(r) ==
  /\ Admitted(r, "terminal") /\ UNCHANGED tree
  /\ job' = [job EXCEPT ![r] = [kind |-> "terminal", pc |-> "upgrade"]]

HandleTerminal(r) ==
  /\ At(r, "upgrade") /\ SpawnChild(r, "terminal")
  /\ UNCHANGED <<held, terminals, foreign, struck>>

(* ProcessTreeGuard::attach_or_terminate and its variants. *)
Attach(r) ==
  /\ At(r, "attach")
  /\ tree' = [tree EXCEPT ![r].guard = TRUE] /\ To(r, "run")
  /\ terminals' = IF job[r].kind = "terminal" THEN terminals \union {r} ELSE terminals
  /\ UNCHANGED <<held, foreign, struck>>

(* Without an identity for the leader the whole group is killed and reaped. *)
CleanupUnowned(r) ==
  /\ At(r, "attach") /\ To(r, "after")
  /\ tree' = [tree EXCEPT ![r] = Reaped(GroupKilled(@))]
  /\ UNCHANGED <<held, terminals, foreign, struck>>

(* The cleanup refuses a child that is not its group's leader any more: the *)
(* error says so, and nothing follows that child from here on.              *)
CleanupRefused(r) ==
  /\ At(r, "attach") /\ tree[r].root = "alive" /\ To(r, "after")
  /\ tree' = [tree EXCEPT ![r] = NoTree]
  /\ UNCHANGED <<held, terminals, foreign, struck>>

-----------------------------------------------------------------------------
(* The root exits while its request waits for it. *)
Exited(r, k) == /\ Waits(r, k) /\ tree[r].root = "zombie"
                /\ tree' = [tree EXCEPT ![r] = Reaped(@)]
                /\ UNCHANGED <<held, terminals, foreign, struck>>

(* A limit ends the wait: the root is killed and reaped, unless that fails. *)
Expired(r, k) == /\ Waits(r, k) /\ tree' \in {tree, [tree EXCEPT ![r] = Reaped(@)]}
                 /\ UNCHANGED <<held, terminals, foreign, struck>>

(* The events that are left of a script are sent with its guard in place.   *)
ScriptExits(r) == Exited(r, "script") /\ To(r, "report")

(* A reader met more bytes than may be forwarded: the loop will see it.     *)
ForwardScriptOutput(r) ==
  /\ Is(r, "script") /\ At(r, "run") /\ To(r, "limited")
  /\ UNCHANGED <<tree, held, terminals, foreign, struck>>

(* That limit, or one on lines, on the buffer or on the time. *)
ScriptStopped(r) ==
  /\ Waits(r, "script") /\ To(r, "report")
  /\ tree' = [tree EXCEPT ![r] = Reaped(@)]
  /\ UNCHANGED <<held, terminals, foreign, struck>>

(* A script that closed its output is over, whether or not it still runs.   *)
ScriptCloses(r) ==
  /\ Is(r, "script") /\ At(r, "run") /\ To(r, "report")
  /\ UNCHANGED <<tree, held, terminals, foreign, struck>>

ScriptDone(r) ==
  /\ At(r, "report") /\ To(r, "unwind")
  /\ UNCHANGED <<tree, held, terminals, foreign, struck>>

(* The others drop their guard as soon as they have an answer. *)
InstallExits(r)   == Exited(r, "install") /\ To(r, "unwind")
InstallExpires(r) == Expired(r, "install") /\ To(r, "terminate")
StreamEnds(r) == /\ Exited(r, "install_stream") \/ Expired(r, "install_stream")
                 /\ To(r, "unwind")
ProbeEnds(r)  == (Exited(r, "probe") \/ Expired(r, "probe")) /\ To(r, "unwind")
GitEnds(r)    == (Exited(r, "git") \/ Expired(r, "git")) /\ To(r, "unwind")
HookExits(r)  == Exited(r, "hook") /\ To(r, "unwind")

(* A hook out of time: the guard goes first, and its root is reaped after.  *)
HookExpires(r) ==
  /\ Waits(r, "hook") /\ To(r, "unwind")
  /\ UNCHANGED <<tree, held, terminals, foreign, struck>>

(* The client closed the terminal or let it idle, its shell ended, or it    *)
(* could not be bridged.                                                    *)
TerminalCloses(r) ==
  /\ Waits(r, "terminal") /\ To(r, "unwind")
  /\ UNCHANGED <<tree, held, terminals, foreign, struck>>

(* Slip: the guard trusts the group id without looking at its leader.      *)
AnyGroupExists(r) ==
  tree[r].guard /\ (Unreaped(r) \/ tree[r].descend \/ tree[r].pid \in foreign)

(* owned_unix_group_exists: a group exists, and its leader is the one the   *)
(* guard was made for or is gone while its descendants keep the group.      *)
OwnedGroupExists(r) ==
  /\ tree[r].guard /\ (Unreaped(r) \/ tree[r].descend)
  /\ ~(tree[r].root = "gone" /\ tree[r].pid \in foreign)

(* SIGKILL to the group, whoever is in it. *)
SignalGroup(r) ==
  IF OwnedGroupExists(r)
  THEN /\ tree' = [tree EXCEPT ![r] = [GroupKilled(@) EXCEPT !.guard = FALSE]]
       /\ struck' = (struck \/ tree[r].pid \in foreign)
  ELSE tree' = [tree EXCEPT ![r].guard = FALSE] /\ UNCHANGED struck

(* terminate_and_wait keeps the guard, which is dropped right after it.     *)
Terminate(r) ==
  /\ At(r, "terminate") /\ SignalGroup(r) /\ To(r, "after")
  /\ UNCHANGED <<held, terminals, foreign>>

(* The client is gone: the future or stream is dropped where it stands.  A  *)
(* terminal is a task of its own, which only its socket ends.               *)
ClientGone(r) ==
  /\ \/ At(r, "upgrade") /\ To(r, "after")
     \/ /\ ~Is(r, "terminal") /\ To(r, "unwind")
        /\ job[r].pc \in {"run", "limited", "terminate", "report"}
  /\ UNCHANGED <<tree, held, terminals, foreign, struck>>

(* Drop for ProcessTreeGuard, before the permit or lock is given back.      *)
DropGuard(r) ==
  /\ At(r, "unwind") /\ SignalGroup(r) /\ To(r, "after")
  /\ UNCHANGED <<held, terminals, foreign>>

(* The root is reaped, by its request or by the runtime; the session, the   *)
(* snapshot and the permit or lock go last.                                 *)
Leave(r) ==
  /\ At(r, "after") /\ job' = [job EXCEPT ![r] = NoJob]
  /\ held' = held \ {r} /\ terminals' = terminals \ {r}
  /\ tree' = [tree EXCEPT ![r] = IF Running(r) THEN @ ELSE NoTree]
  /\ UNCHANGED <<foreign, struck>>

-----------------------------------------------------------------------------
(* The child's own processes, and the other programs of the machine. *)
ChildMoves(r) ==
  /\ \/ /\ tree[r].root = "alive"
        /\ \/ tree' = [tree EXCEPT ![r].root = "zombie"]
           \/ tree' = [tree EXCEPT ![r].descend = TRUE]
     \/ tree[r].descend /\ tree' = [tree EXCEPT ![r].descend = FALSE]
  /\ UNCHANGED <<job, held, terminals, foreign, struck>>

OtherProgram(p) ==
  /\ \/ FreePid(p) /\ foreign' = foreign \union {p}
     \/ p \in foreign /\ foreign' = foreign \ {p}
  /\ UNCHANGED <<job, tree, held, terminals, struck>>

ChildNext ==
  \/ \E r \in Requests :
       \/ RunScript(r) \/ InstallProvider(r) \/ InstallProviderStream(r)
       \/ CheckProvider(r) \/ WsHandler(r) \/ HandleTerminal(r) \/ RunHook(r)
       \/ CmdOutput(r) \/ Attach(r) \/ CleanupUnowned(r) \/ CleanupRefused(r)
       \/ ScriptExits(r) \/ ForwardScriptOutput(r) \/ ScriptStopped(r)
       \/ ScriptCloses(r) \/ ScriptDone(r) \/ InstallExits(r) \/ InstallExpires(r)
       \/ StreamEnds(r) \/ ProbeEnds(r) \/ GitEnds(r) \/ HookExits(r)
       \/ HookExpires(r) \/ TerminalCloses(r) \/ Terminate(r) \/ ClientGone(r)
       \/ DropGuard(r) \/ Leave(r) \/ ChildMoves(r)
  \/ \E p \in Pids : OtherProgram(p)

ChildSpec == ChildInit /\ [][ChildNext]_childVars

(* A guard whose root was reaped, and whose PID another program got while   *)
(* the last output went to a slow client, signals nobody.                   *)
ForeignSpared == ~struck

(* However a request ends, nothing it started runs on: a live tree belongs  *)
(* to a request that is attaching it or guards it, as many trees run behind *)
(* a gate as the gate allows, one for installers and git, and the guard that *)
(* ends a tree never ends another program's.  (run_script,                  *)
(* install_provider, install_provider_stream, check_provider,               *)
(* handle_terminal, run_hook, cmd_output, Drop for ProcessTreeGuard.)       *)
ChildrenContained ==
  /\ \A r \in Requests : Running(r) => At(r, "attach") \/ tree[r].guard
  /\ \A g \in {Gate(k) : k \in Kinds} :
       Cardinality({r \in Requests : Running(r) /\ Gate(job[r].kind) = g}) <= Capacity(g)
  /\ \A r \in terminals : job[r].kind = "terminal" /\ r \in held
  /\ ForeignSpared
=============================================================================
