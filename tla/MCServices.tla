----------------------------- MODULE MCServices -----------------------------
(***************************************************************************)
(* The parts of the daemon that take requests without the process          *)
(* registry, in one instance: dashboard access, the tunnel manager, the    *)
(* children of requests, the Telegram poller and the script files.  They   *)
(* share no state; each behaviour exercises one of them.                   *)
(***************************************************************************)
EXTENDS ScriptFiles, Tunnels, RequestChildren, TelegramBot, Access, TLC

VARIABLE service

servicesVars == <<service, accessVars, tunnelVars, childVars, botVars,
                  scriptVars>>

Init == /\ service \in {"access", "tunnels", "children", "telegram", "scripts"}
        /\ AccessInit /\ TunnelInit /\ ChildInit /\ BotInit
        /\ ScriptInit
        /\ service # "access" => auth = Unconfigured

Access   == /\ service = "access" /\ AccessNext
            /\ UNCHANGED <<service, tunnelVars, childVars, botVars, scriptVars>>
Tunnel   == /\ service = "tunnels" /\ TunnelNext
            /\ UNCHANGED <<service, accessVars, childVars, botVars, scriptVars>>
Children == /\ service = "children" /\ ChildNext
            /\ UNCHANGED <<service, accessVars, tunnelVars, botVars, scriptVars>>
Telegram == /\ service = "telegram" /\ BotNext
            /\ UNCHANGED <<service, accessVars, tunnelVars, childVars, scriptVars>>
Scripts  == /\ service = "scripts" /\ ScriptNext
            /\ UNCHANGED <<service, accessVars, tunnelVars, childVars, botVars>>

Next == Access \/ Tunnel \/ Children \/ Telegram \/ Scripts
Spec == Init /\ [][Next]_servicesVars

Symmetric == Permutations(Clients) \union Permutations(Passwords)
               \union Permutations(Tokens)
=============================================================================
