------------------------------ MODULE MCDaemon ------------------------------
(***************************************************************************)
(* What the daemon does on its own account, away from the process registry *)
(* and from requests, in one instance: the handoff of the daemon itself to *)
(* its replacement, and the log files of a process.  They share no state;  *)
(* each behaviour exercises one of them.                                   *)
(***************************************************************************)
EXTENDS DaemonHandoff, LogFiles

VARIABLE part

DaemonInit == part \in {"handoff", "logs"} /\ Init /\ LogInit

Handoff == part = "handoff" /\ Next /\ UNCHANGED <<part, logVars>>
Logs    == part = "logs" /\ LogNext /\ UNCHANGED <<part, vars>>

DaemonNext == Handoff \/ Logs
DaemonSpec == DaemonInit /\ [][DaemonNext]_<<part, vars, logVars>>
=============================================================================
