----------------------------- MODULE TelegramBot -----------------------------
(***************************************************************************)
(* The Telegram poller: a loop that fetches updates from an offset, handles *)
(* them in order, and saves after each one the offset that follows it in    *)
(* telegram-offset.json, next to the token the offset belongs to.  Telegram *)
(* itself forgets an update when a later poll names a higher offset.        *)
(*                                                                          *)
(* The poller may be aborted with the server it belongs to; a save it had   *)
(* begun then goes on by itself.  A token stands for its fingerprint.       *)
(***************************************************************************)
EXTENDS Integers

CONSTANTS
  BotTokens,    \* bot tokens the configuration may name
  MaxUpdates,   \* bound: updates sent to each bot
  MaxSwitches,  \* bound: changes of the configuration
  MaxMishaps    \* bound: aborted pollers, crashes and failing saves

ASSUME BotAssumption == "nobody" \notin BotTokens /\ MaxUpdates \in Nat

VARIABLES
  config,     \* enabled and bot_token, as the poller will read them
  posted,     \* Telegram: updates sent to each bot so far
  forgotten,  \* Telegram: updates of each bot below this id are gone
  disk,       \* telegram-offset.json
  bot,        \* the poller's local variables
  detached,   \* a save whose poller was aborted
  handled,    \* history: how often each update was handled
  excused,    \* history: updates that may be handled again
  spent       \* switches and mishaps so far

botVars == <<config, posted, forgotten, disk, bot, detached, handled, excused,
             spent>>

Ids        == 0..(MaxUpdates - 1)
Nobody     == "nobody"
Fingerprints == BotTokens \union {Nobody}
Fresh0     == [token |-> Nobody, next |-> 0]
Off        == [pc |-> "off", token |-> Nobody, active |-> Nobody, offset |-> 0,
               checkpoint |-> Fresh0, batch |-> {}]

BotTypeOK ==
  /\ config \in [on : BOOLEAN, token : BotTokens]
  /\ posted \in [BotTokens -> 0..MaxUpdates]
  /\ forgotten \in [BotTokens -> 0..MaxUpdates]
  /\ disk \in [token : Fingerprints, next : 0..MaxUpdates]
  /\ detached \in [token : Fingerprints, next : 0..MaxUpdates]
  /\ bot.pc \in {"off", "cycle", "poll", "handle", "handled", "save"}
  /\ bot.batch \subseteq Ids /\ bot.offset \in 0..MaxUpdates
  /\ excused \subseteq BotTokens \X Ids

BotInit ==
  /\ config \in [on : {TRUE}, token : BotTokens]
  /\ posted = [t \in BotTokens |-> 0] /\ forgotten = [t \in BotTokens |-> 0]
  /\ disk = Fresh0 /\ bot = Off /\ detached = Fresh0
  /\ handled = [u \in BotTokens \X Ids |-> 0] /\ excused = {}
  /\ spent = [switches |-> 0, mishaps |-> 0]

First(S)   == CHOOSE i \in S : \A j \in S : i <= j
Current    == <<bot.token, First(bot.batch)>>
NextCheckpoint == [token |-> bot.token, next |-> First(bot.batch) + 1]
Unsettled  == IF bot.pc \in {"handled", "save"} THEN {Current} ELSE {}
Mishap     == /\ spent.mishaps < MaxMishaps
              /\ spent' = [spent EXCEPT !.mishaps = @ + 1]

(* The file has room for one token: what Telegram still remembers of the   *)
(* token it drops can come again.                                          *)
Dropped(checkpoint) ==
  IF checkpoint.token = disk.token THEN {}
  ELSE {u \in BotTokens \X Ids : /\ u[1] = disk.token /\ u[2] < disk.next
                                 /\ u[2] >= forgotten[u[1]]}

(* ensure_monotonic *)
Monotonic(checkpoint) ==
  checkpoint.token = disk.token => checkpoint.next >= disk.next

-----------------------------------------------------------------------------
Post(t) ==
  /\ posted[t] < MaxUpdates /\ posted' = [posted EXCEPT ![t] = @ + 1]
  /\ UNCHANGED <<config, forgotten, disk, bot, detached, handled, excused, spent>>

UpdateConfig ==
  /\ spent.switches < MaxSwitches
  /\ \E c \in [on : BOOLEAN, token : BotTokens] : c # config /\ config' = c
  /\ spent' = [spent EXCEPT !.switches = @ + 1]
  /\ UNCHANGED <<posted, forgotten, disk, bot, detached, handled, excused>>

(* run, up to its loop: the checkpoint is read once. *)
StartBot ==
  /\ bot.pc = "off"
  /\ bot' = [Off EXCEPT !.pc = "cycle", !.checkpoint = disk]
  /\ UNCHANGED <<config, posted, forgotten, disk, detached, handled, excused, spent>>

(* Slip: the offset outlives a change of the token. *)
CycleKeepsOffset ==
  /\ bot.pc = "cycle" /\ config.on
  /\ bot' = [bot EXCEPT !.pc = "poll", !.token = config.token,
               !.active = config.token,
               !.offset = IF bot.active # Nobody THEN @
                          ELSE IF bot.checkpoint.token = config.token
                               THEN bot.checkpoint.next ELSE 0]
  /\ UNCHANGED <<config, posted, forgotten, disk, detached, handled, excused, spent>>

(* A turn of the loop: the configuration, and the offset of a new token.    *)
Cycle ==
  /\ bot.pc = "cycle" /\ config.on
  /\ bot' = [bot EXCEPT !.pc = "poll", !.token = config.token,
               !.active = config.token,
               !.offset = IF bot.active = config.token THEN @
                          ELSE IF bot.checkpoint.token = config.token
                               THEN bot.checkpoint.next ELSE 0]
  /\ UNCHANGED <<config, posted, forgotten, disk, detached, handled, excused, spent>>

(* getUpdates: Telegram forgets what is below the offset and answers with   *)
(* what is left, or with some it is about to forget; the answer may be      *)
(* lost, refused or empty.                                                  *)
GetUpdates ==
  /\ bot.pc = "poll"
  /\ LET t == bot.token
         kept == IF bot.offset > forgotten[t] THEN bot.offset ELSE forgotten[t] IN
       /\ \/ forgotten' = [forgotten EXCEPT ![t] = kept]
          \/ UNCHANGED forgotten
       /\ \/ bot' = [bot EXCEPT !.pc = "cycle"]
          \/ /\ forgotten'[t] = kept
             /\ \E first \in forgotten[t]..kept : \E last \in first..(posted[t] - 1) :
                  bot' = [bot EXCEPT !.pc = "handle", !.batch = first..last]
  /\ UNCHANGED <<config, posted, disk, detached, handled, excused, spent>>

(* The first update of the batch: its command runs to the end, or it is     *)
(* ignored because neither its chat nor its sender is allowed.              *)
Handle ==
  /\ bot.pc = "handle"
  /\ IF First(bot.batch) < bot.offset
     THEN /\ UNCHANGED handled
          /\ bot' = [bot EXCEPT !.batch = @ \ {First(@)},
                       !.pc = IF bot.batch = {First(bot.batch)} THEN "cycle" ELSE @]
     ELSE /\ handled' = [handled EXCEPT ![Current] = @ + 1]
          /\ bot' = [bot EXCEPT !.pc = "handled"]
  /\ UNCHANGED <<config, posted, forgotten, disk, detached, excused, spent>>

BeginSave ==
  /\ bot.pc = "handled" /\ bot' = [bot EXCEPT !.pc = "save"]
  /\ UNCHANGED <<config, posted, forgotten, disk, detached, handled, excused, spent>>

Write(checkpoint) ==
  IF Monotonic(checkpoint) THEN disk' = checkpoint ELSE UNCHANGED disk

(* The save is done; the next update of the batch, or the next turn.        *)
SaveCheckpoint ==
  /\ bot.pc = "save" /\ Monotonic(NextCheckpoint) /\ disk' = NextCheckpoint
  /\ excused' = excused \union Dropped(NextCheckpoint)
  /\ LET rest == bot.batch \ {First(bot.batch)} IN
       bot' = [bot EXCEPT !.checkpoint = NextCheckpoint,
                 !.offset = First(bot.batch) + 1, !.batch = rest,
                 !.pc = IF rest = {} THEN "cycle" ELSE "handle"]
  /\ UNCHANGED <<config, posted, forgotten, detached, handled, spent>>

(* A save that fails ends the poller, whether or not the file was replaced. *)
SaveFails ==
  /\ bot.pc = "save" /\ (Mishap \/ (~Monotonic(NextCheckpoint) /\ UNCHANGED spent))
  /\ \/ UNCHANGED disk /\ excused' = excused \union {Current}
     \/ /\ Write(NextCheckpoint)
        /\ excused' = excused \union {Current} \union Dropped(NextCheckpoint)
  /\ bot' = Off /\ UNCHANGED <<config, posted, forgotten, detached, handled>>

-----------------------------------------------------------------------------
(* The server is over: the poller is aborted, or notices the shutdown when  *)
(* it waits.  A save it had begun goes on.                                  *)
AbortBot ==
  /\ bot.pc # "off" /\ Mishap /\ bot' = Off
  /\ detached.token = Nobody
  /\ detached' = IF bot.pc = "save" THEN NextCheckpoint ELSE detached
  /\ excused' = excused \union Unsettled
  /\ UNCHANGED <<config, posted, forgotten, disk, handled>>

DetachedSave ==
  /\ detached.token # Nobody /\ detached' = Fresh0
  /\ Write(detached)
  /\ excused' = IF Monotonic(detached) THEN excused \union Dropped(detached) ELSE excused
  /\ UNCHANGED <<config, posted, forgotten, bot, handled, spent>>

BotCrash ==
  /\ bot.pc # "off" /\ Mishap /\ bot' = Off /\ detached' = Fresh0
  /\ excused' = excused \union Unsettled
  /\ UNCHANGED <<config, posted, forgotten, disk, handled>>

BotNext ==
  \/ \E t \in BotTokens : Post(t)
  \/ UpdateConfig \/ StartBot \/ Cycle \/ GetUpdates \/ Handle \/ BeginSave
  \/ SaveCheckpoint \/ SaveFails \/ AbortBot \/ DetachedSave \/ BotCrash

BotSpec == BotInit /\ [][BotNext]_botVars

(* No command is lost and none is repeated without a cause: what Telegram    *)
(* has forgotten was handled, and an update is handled again only when its   *)
(* poller ended between handling it and having saved so, or when the one     *)
(* checkpoint had to make room for another token.  (run and the checkpoint   *)
(* file of the Telegram bot.)                                                *)
CommandsAccounted == \A t \in BotTokens : \A i \in Ids :
  /\ i < forgotten[t] => handled[<<t, i>>] > 0
  /\ handled[<<t, i>>] > 1 => <<t, i>> \in excused
=============================================================================
