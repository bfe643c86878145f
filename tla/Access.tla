------------------------------- MODULE Access -------------------------------
(***************************************************************************)
(* Dashboard authentication: the password and PIN of auth.json, browser    *)
(* sessions, one-time stream tickets, and the three locks that keep a      *)
(* credential change apart from the logins and tickets under way.          *)
(*                                                                         *)
(* A request is a record that carries what its handler read before an      *)
(* await.  A hash, a token and a path are names; the master token of the   *)
(* CLI is always good unless the configuration could not be read.          *)
(***************************************************************************)
EXTENDS Integers, FiniteSets

CONSTANTS
  Clients,      \* requests that can be in flight together
  Tokens,       \* session tokens
  MaxSessions,  \* sessions allowed (64)
  Tickets,      \* stream tickets; as many as are allowed (256)
  Passwords,    \* passwords users choose
  Pins,         \* PINs users choose
  MaxLogins,    \* login attempts of a peer in one window (10)
  MaxRequests,  \* bound: requests
  MaxChances    \* bound: expiries, failing saves, dropped requests, restarts,
                \* damaged files

VARIABLES
  auth,        \* AuthConfig in memory
  file,        \* what load() makes of auth.json and its backup
  generation,  \* auth_generation
  sessions,    \* the session each token names
  tickets,     \* the ticket each ticket value names
  attempts,    \* login_attempts of the peer
  lock,        \* holders of config_mutation_lock, session_lock,
               \* stream_ticket_lock
  req,         \* the request of each client
  orphans,     \* saves whose request was dropped: the blocking task goes on
  epoch,       \* history: passwords changed or disabled so far
  owned,       \* history: a password was set and nobody entitled removed it
  late,        \* history: a save landed after its request had been dropped
  used         \* requests and chances so far

accessVars == <<auth, file, generation, sessions, tickets, attempts, lock, req,
                orphans, epoch, owned, late, used>>

Unset   == "unset"
Locked  == "locked"     \* a hash nothing verifies against
Free    == "free"
Master  == "master"

(* Names that stand for no secret, no token or no client, and the counts.  *)
ASSUME AccessAssumption ==
  /\ Unset \notin Passwords \union Pins /\ Locked \notin Passwords
  /\ Free \notin Clients
  /\ MaxSessions \in Nat /\ MaxLogins \in Nat

Secrets == [password |-> Passwords, pin |-> Pins]
Unconfigured == [password |-> Unset, pin |-> Unset]
FailClosed   == [password |-> Locked, pin |-> Unset]
Damaged      == [password |-> "damaged", pin |-> Unset]

NoSession == [state |-> "none", epoch |-> 0, fresh |-> TRUE]
NoTicket  == [state |-> "none", epoch |-> 0]
Idle == [op |-> "none", pc |-> "idle", token |-> Free, secret |-> Unset,
         gen |-> 0, next |-> Unconfigured, epoch |-> 0]

ConfigOps == {"setup", "change", "disable", "set_pin", "remove_pin", "settings"}
Logins    == {"login", "pin_login"}
Revoking  == {"change", "disable"}

Enabled(a) == a.password # Unset
Kind(op)   == IF op = "pin_login" THEN "pin" ELSE "password"

(* is_session_valid: the master token, or a session that has not expired. *)
Valid(t) == \/ t = Master /\ auth.password # Locked
            \/ t \in Tokens /\ sessions[t].state = "live"

(* The middleware of every other route: a valid token, or a direct local   *)
(* connection while no password is configured.                             *)
RequireAuth(t) == Valid(t) \/ ~Enabled(auth)

AccessTypeOK ==
  /\ auth \in [password : Passwords \union {Unset, Locked},
               pin : Pins \union {Unset}]
  /\ file \in {Damaged} \union [password : Passwords \union {Unset},
                                 pin : Pins \union {Unset}]
  /\ generation \in Nat /\ epoch \in Nat
  /\ DOMAIN sessions = Tokens /\ DOMAIN tickets = Tickets
  /\ attempts \in 0..MaxLogins
  /\ lock \in [{"config", "session", "ticket"} -> Clients \union {Free}]
  /\ DOMAIN req = Clients

AccessInit ==
  /\ auth \in {Unconfigured} \union [password : Passwords, pin : Pins]
  /\ file = auth /\ generation = 0
  /\ sessions = [t \in Tokens |-> NoSession]
  /\ tickets = [k \in Tickets |-> NoTicket]
  /\ attempts = 0
  /\ lock = [l \in {"config", "session", "ticket"} |-> Free]
  /\ req = [c \in Clients |-> Idle]
  /\ orphans = {} /\ epoch = 0 /\ owned = Enabled(auth) /\ late = FALSE
  /\ used = [requests |-> 0, chances |-> 0]

MoveTo(c, pc)  == req' = [req EXCEPT ![c].pc = pc]
Reply(c)    == req' = [req EXCEPT ![c] = Idle]
Released(c)  == [l \in DOMAIN lock |-> IF lock[l] = c THEN Free ELSE lock[l]]
Chance       == /\ used.chances < MaxChances
                /\ used' = [used EXCEPT !.chances = @ + 1]
Arrive(c, r) == /\ req[c] = Idle /\ used.requests < MaxRequests
                /\ used' = [used EXCEPT !.requests = @ + 1]
                /\ req' = [req EXCEPT ![c] = r]
Acquire(c, l, next) ==
  /\ lock[l] = Free /\ lock' = [lock EXCEPT ![l] = c] /\ MoveTo(c, next)

(* Removing what expired, as the admission of a session or ticket does. *)
Pruned(store, none) ==
  [x \in DOMAIN store |-> IF store[x].state = "live" THEN store[x] ELSE none]

-----------------------------------------------------------------------------
(* login and pin_login: the rate limit, then the generation, then a copy of *)
(* the configuration to verify against.                                     *)
EnforceLoginRateLimit(c) ==
  /\ attempts < MaxLogins /\ attempts' = attempts + 1
  /\ \E op \in Logins : \E s \in Secrets[Kind(op)] :
       Arrive(c, [Idle EXCEPT !.op = op, !.pc = "generation", !.secret = s])
  /\ UNCHANGED <<auth, file, generation, sessions, tickets, lock, orphans,
                 epoch, owned, late>>

ReadGeneration(c) ==
  /\ req[c].pc = "generation"
  /\ req' = [req EXCEPT ![c].gen = generation, ![c].pc = "verify"]
  /\ UNCHANGED <<auth, file, generation, sessions, tickets, attempts, lock,
                 orphans, epoch, owned, late, used>>

Verified(c) == auth[Kind(req[c].op)] = req[c].secret
Verify(c) ==
  /\ req[c].pc = "verify"
  /\ IF Verified(c)
     THEN req' = [req EXCEPT ![c].pc = "create", ![c].epoch = epoch]
     ELSE Reply(c)
  /\ UNCHANGED <<auth, file, generation, sessions, tickets, attempts, lock,
                 orphans, epoch, owned, late, used>>

GenerationHolds(c) == generation = req[c].gen

(* create_session, under session_lock and without an await in between.  The *)
(* new token is one nobody holds.                                          *)
CreateSession(c) ==
  /\ req[c].pc = "create" /\ lock.session = Free
  /\ Reply(c)
  /\ IF ~GenerationHolds(c) THEN UNCHANGED sessions
     ELSE IF Cardinality({t \in Tokens : sessions[t].state = "live"})
               >= MaxSessions
     THEN sessions' = Pruned(sessions, NoSession)
     ELSE \E new \in Tokens \ {req[d].token : d \in Clients} :
            /\ sessions[new].state # "live"
            /\ sessions' = [Pruned(sessions, NoSession) EXCEPT
                 ![new] = [state |-> "live", epoch |-> req[c].epoch,
                           fresh |-> req[c].op = "setup" \/ Verified(c)]]
  /\ UNCHANGED <<auth, file, generation, tickets, attempts, lock, orphans,
                 epoch, owned, late, used>>

Logout(t) ==
  /\ lock.session = Free /\ sessions[t].state # "none"
  /\ sessions' = [sessions EXCEPT ![t] = NoSession]
  /\ UNCHANGED <<auth, file, generation, tickets, attempts, lock, req, orphans,
                 epoch, owned, late, used>>

-----------------------------------------------------------------------------
(* create_stream_ticket: admitted by the middleware, checked again under    *)
(* the ticket lock.                                                         *)
AskTicket(c) ==
  /\ \E t \in Tokens \union {Master} :
       /\ RequireAuth(t)
       /\ Arrive(c, [Idle EXCEPT !.op = "ticket", !.pc = "ticket", !.token = t])
  /\ UNCHANGED <<auth, file, generation, sessions, tickets, attempts, lock,
                 orphans, epoch, owned, late>>

TicketCheck(c) ==
  /\ req[c].op = "ticket" /\ req[c].pc = "ticket" /\ lock.ticket = Free
  /\ IF Valid(req[c].token)
     THEN /\ lock' = [lock EXCEPT !.ticket = c]
          /\ req' = [req EXCEPT ![c].pc = "issue", ![c].epoch = epoch]
     ELSE Reply(c) /\ UNCHANGED lock
  /\ UNCHANGED <<auth, file, generation, sessions, tickets, attempts, orphans,
                 epoch, owned, late, used>>

TicketIssue(c) ==
  /\ req[c].pc = "issue" /\ Reply(c)
  /\ lock' = [lock EXCEPT !.ticket = Free]
  /\ LET room == {k \in Tickets : tickets[k].state # "live"} IN
     tickets' = IF room = {} THEN Pruned(tickets, NoTicket)
                ELSE [Pruned(tickets, NoTicket) EXCEPT
                        ![CHOOSE k \in room : TRUE] =
                          [state |-> "live", epoch |-> req[c].epoch]]
  /\ UNCHANGED <<auth, file, generation, sessions, attempts, orphans, epoch,
                 owned, late, used>>

(* consume_stream_ticket: check and removal are one step of the map. *)
ConsumeStreamTicket(k) ==
  /\ tickets[k].state = "live"
  /\ tickets' = [tickets EXCEPT ![k] = NoTicket]
  /\ UNCHANGED <<auth, file, generation, sessions, attempts, lock, req, orphans,
                 epoch, owned, late, used>>

-----------------------------------------------------------------------------
(* The handlers that change the configuration.  Each one checks its caller *)
(* when it arrives, waits for the locks and checks again.                  *)
Change(c, op, secret) ==
  /\ \E t \in Tokens \union {Master, Free} :
       /\ CASE op = "setup"   -> t = Free
            [] op = "disable" -> ~Enabled(auth) \/ Valid(t)
            [] OTHER          -> Valid(t)
       /\ Arrive(c, [Idle EXCEPT !.op = op, !.pc = "config", !.token = t,
                                 !.secret = secret])
  /\ UNCHANGED <<auth, file, generation, sessions, tickets, attempts, lock,
                 orphans, epoch, owned, late>>

SetupPassword(c)   == \E s \in Passwords : Change(c, "setup", s)
ChangePassword(c)  == \E s \in Passwords : Change(c, "change", s)
DisablePassword(c) == Change(c, "disable", Unset)
SetPin(c)          == \E s \in Pins : Change(c, "set_pin", s)
RemovePin(c)       == Change(c, "remove_pin", Unset)
UpdateSettings(c)  == Change(c, "settings", Unset)

TakeLock(c) ==
  /\ req[c].op \in ConfigOps
  /\ \/ req[c].pc = "config" /\ Acquire(c, "config", "session")
     \/ /\ req[c].pc = "session"
        /\ Acquire(c, "session",
                   IF req[c].op \in Revoking THEN "ticket" ELSE "recheck")
     \/ req[c].pc = "ticket" /\ Acquire(c, "ticket", "recheck")
  /\ UNCHANGED <<auth, file, generation, sessions, tickets, attempts, orphans,
                 epoch, owned, late, used>>

(* Slip: disable_password relies on the check it made on arrival. *)
EntitledOnArrival(r) == r.op \in {"setup", "disable"} \/ Valid(r.token)

(* What the second check asks for.  change_password also verifies the      *)
(* current password, which its caller may or may not have.                 *)
Entitled(r) == CASE r.op = "setup"   -> ~Enabled(auth)
                 [] r.op = "disable" -> ~Enabled(auth) \/ Valid(r.token)
                 [] OTHER            -> Valid(r.token)

Candidate(r) == CASE r.op \in {"setup", "change"} ->
                       [auth EXCEPT !.password = r.secret]
                  [] r.op = "disable"    -> Unconfigured
                  [] r.op = "set_pin"    -> [auth EXCEPT !.pin = r.secret]
                  [] r.op = "remove_pin" -> [auth EXCEPT !.pin = Unset]
                  [] r.op = "settings"   -> auth

Recheck(c) ==
  /\ req[c].pc = "recheck"
  /\ \/ /\ Entitled(req[c])
        /\ req[c].op = "change" => auth.password \in Passwords
        /\ req' = [req EXCEPT ![c].next = Candidate(req[c]), ![c].pc = "save"]
        /\ owned' = (owned /\ ~(req[c].op = "disable" /\ Valid(req[c].token)))
        /\ UNCHANGED lock
     \/ /\ ~Entitled(req[c]) \/ req[c].op = "change"
        /\ Reply(c) /\ lock' = Released(c) /\ UNCHANGED owned
  /\ UNCHANGED <<auth, file, generation, sessions, tickets, attempts, orphans,
                 epoch, late, used>>

(* *_and_persist on the blocking pool.  A save refuses to replace a        *)
(* damaged pair and a fail-closed configuration does not validate.         *)
Writable(a) == file # Damaged /\ a.password # Locked
Persist(c) ==
  /\ req[c].pc = "save"
  /\ \/ /\ Writable(req[c].next) /\ file' = req[c].next
        /\ MoveTo(c, "commit") /\ UNCHANGED <<lock, used>>
     \/ /\ IF Writable(req[c].next) THEN Chance ELSE UNCHANGED used
        /\ Reply(c) /\ lock' = Released(c) /\ UNCHANGED file
  /\ UNCHANGED <<auth, generation, sessions, tickets, attempts, orphans, epoch,
                 owned, late>>

(* A blocking task whose request is gone runs to its end all the same. *)
OrphanSave(a) ==
  /\ orphans' = orphans \ {a}
  /\ file' = IF Writable(a) THEN a ELSE file
  /\ late' = TRUE
  /\ UNCHANGED <<auth, generation, sessions, tickets, attempts, lock, req, epoch,
                 owned, used>>

(* From the write of the configuration on the handler does not await. *)
WriteAuth(c) ==
  /\ req[c].pc = "commit"
  /\ auth' = req[c].next /\ MoveTo(c, "bump")
  /\ epoch' = IF req[c].op \in Revoking THEN epoch + 1 ELSE epoch
  /\ owned' = (owned \/ req[c].op = "setup")
  /\ UNCHANGED <<file, generation, sessions, tickets, attempts, lock, orphans,
                 late, used>>

(* Slip: a new PIN leaves the generation alone. *)
RevokesPassword(r) == r.op \notin {"set_pin", "remove_pin", "settings"}

(* The lock timeout of update_settings is no credential. *)
Revokes(r) == r.op # "settings"

BumpGeneration(c) ==
  /\ req[c].pc = "bump"
  /\ generation' = IF Revokes(req[c]) THEN generation + 1 ELSE generation
  /\ IF req[c].op \in Revoking THEN MoveTo(c, "clear") /\ UNCHANGED lock
     ELSE /\ lock' = Released(c)
          /\ IF req[c].op = "setup"
             THEN req' = [req EXCEPT ![c].pc = "create", ![c].epoch = epoch,
                                     ![c].gen = generation + 1]
             ELSE Reply(c)
  /\ UNCHANGED <<auth, file, sessions, tickets, attempts, orphans, epoch, owned,
                 late, used>>

ClearSessions(c) ==
  /\ req[c].pc = "clear" /\ MoveTo(c, "clear tickets")
  /\ sessions' = [t \in Tokens |-> NoSession]
  /\ UNCHANGED <<auth, file, generation, tickets, attempts, lock, orphans, epoch,
                 owned, late, used>>

ClearTickets(c) ==
  /\ req[c].pc = "clear tickets" /\ Reply(c) /\ lock' = Released(c)
  /\ tickets' = [k \in Tickets |-> NoTicket]
  /\ UNCHANGED <<auth, file, generation, sessions, attempts, orphans, epoch,
                 owned, late, used>>

-----------------------------------------------------------------------------
(* The client goes away: the handler is dropped at the await it is at. *)
RequestDropped(c) ==
  /\ req[c].pc \notin {"idle", "bump", "clear", "clear tickets"} /\ Chance
  /\ Reply(c) /\ lock' = Released(c)
  /\ orphans' = IF req[c].pc = "save" THEN orphans \union {req[c].next}
                ELSE orphans
  /\ UNCHANGED <<auth, file, generation, sessions, tickets, attempts, epoch,
                 owned, late>>

Expire ==
  /\ Chance
  /\ \/ \E t \in Tokens : /\ sessions[t].state = "live"
                          /\ sessions' = [sessions EXCEPT ![t].state = "expired"]
                          /\ UNCHANGED <<tickets, attempts>>
     \/ \E k \in Tickets : /\ tickets[k].state = "live"
                           /\ tickets' = [tickets EXCEPT ![k].state = "expired"]
                           /\ UNCHANGED <<sessions, attempts>>
     \/ /\ attempts > 0 /\ attempts' = attempts - 1
        /\ UNCHANGED <<sessions, tickets>>
  /\ UNCHANGED <<auth, file, generation, lock, req, orphans, epoch, owned, late>>

Damage ==
  /\ Chance /\ file # Damaged /\ file' = Damaged
  /\ UNCHANGED <<auth, generation, sessions, tickets, attempts, lock, req,
                 orphans, epoch, owned, late>>

Load == IF file = Damaged THEN FailClosed ELSE file

(* The daemon starts again; sessions and tickets were only in memory. *)
Restart ==
  /\ Chance /\ auth' = Load
  /\ generation' = 0 /\ attempts' = 0 /\ orphans' = {}
  /\ sessions' = [t \in Tokens |-> NoSession]
  /\ tickets' = [k \in Tickets |-> NoTicket]
  /\ lock' = [l \in DOMAIN lock |-> Free]
  /\ req' = [c \in Clients |-> Idle]
  /\ UNCHANGED <<file, epoch, owned, late>>

AccessNext ==
  \/ \E c \in Clients :
       \/ EnforceLoginRateLimit(c) \/ ReadGeneration(c) \/ Verify(c)
       \/ CreateSession(c) \/ AskTicket(c) \/ TicketCheck(c) \/ TicketIssue(c)
       \/ SetupPassword(c) \/ ChangePassword(c) \/ DisablePassword(c)
       \/ SetPin(c) \/ RemovePin(c) \/ UpdateSettings(c) \/ TakeLock(c)
       \/ Recheck(c) \/ Persist(c)
       \/ WriteAuth(c) \/ BumpGeneration(c) \/ ClearSessions(c)
       \/ ClearTickets(c) \/ RequestDropped(c)
  \/ \E t \in Tokens : Logout(t)
  \/ \E k \in Tickets : ConsumeStreamTicket(k)
  \/ \E a \in orphans : OrphanSave(a)
  \/ Expire \/ Damage \/ Restart

AccessSpec == AccessInit /\ [][AccessNext]_accessVars

-----------------------------------------------------------------------------
(* No session and no ticket outlives the credential that opened it: once   *)
(* a change of password has given its locks back, every session and every  *)
(* ticket was obtained after it, and no session was opened by a password   *)
(* or PIN that was no longer in force when it was opened.                  *)
CredentialsCurrent ==
  /\ lock.session = Free => \A t \in Tokens : sessions[t].state = "live" =>
       sessions[t].epoch = epoch /\ sessions[t].fresh
  /\ lock.ticket = Free => \A k \in Tickets : tickets[k].state = "live" =>
       tickets[k].epoch = epoch

(* A password that was set stays set until a caller with a credential      *)
(* disables it: not a request that found no password when it arrived, not  *)
(* a damaged file, not a save that failed.  A save whose request was       *)
(* dropped is not ordered by the locks any more: it may replace what a     *)
(* later request saved, and the next start of the daemon loads it.         *)
NeverOpenByAccident == owned /\ ~late => Enabled(auth)
=============================================================================
