------------------------------ MODULE Channels ------------------------------
(***************************************************************************)
(* The channel that keeps something between requests.                      *)
(*                                                                         *)
(* The Telegram adapter (teff/channels/telegram.py) and the service that   *)
(* delivers to it.  A polling bot asks for the updates from its offset on, *)
(* which makes the service forget the ones before; it runs one turn after  *)
(* the other and forgets its offset when it ends.  A webhook is called     *)
(* with each update, again and again until the call succeeds.              *)
(***************************************************************************)
EXTENDS Naturals, Sequences, FiniteSets

CONSTANTS
  UpdateKinds,   \* the kinds of update the users send
  MaxUpdates,    \* bound: updates sent
  BatchLimit,    \* the most updates getUpdates returns
  MaxDeaths,     \* bound: ends of the process that nobody asked for
  MaxStarts,     \* bound: starts of the process
  MaxFailures,   \* bound: turns and replies that fail
  MaxSlow        \* bound: webhook calls repeated while the first still runs

ASSUME ChannelsAssumption == {MaxUpdates, BatchLimit} \subseteq Nat

VARIABLES
  bot,       \* the configuration: transport and reply_when
  sent,      \* the updates of the chat, by update_id
  forgotten, \* the service has dropped the updates up to this one
  alive,     \* the process runs
  offset,    \* _offset: the next update to ask for; 0: None
  batch,     \* what is left of the last getUpdates
  tasks,     \* handle_update calls in progress
  fresh,     \* this process has not fetched yet
  turns,     \* history: turns run for each update
  outcome,   \* history: how an update was served last
  deaths, starts, failures, slow

telegramVars == <<bot, sent, forgotten, alive, offset, batch, tasks, fresh,
                  turns, outcome, deaths, starts, failures, slow>>

Ids == 1..MaxUpdates
Bots == [mode : {"polling", "once", "webhook"}, replyWhen : {"all", "mentioned"}]

\* Nothing calls me(), so the username is never known and every mention counts.
MentionsBot(kind) == kind \in {"mention_bot", "mention_other"}

IsAddressed(kind) ==
  \/ bot.replyWhen = "all"
  \/ kind \in {"private", "edited", "reply"}
  \/ MentionsBot(kind)

\* handle_update goes on to run a turn.
IsTurn(kind) == kind # "no_text" /\ IsAddressed(kind)

TelegramInit ==
  /\ bot \in Bots
  /\ sent = <<>> /\ forgotten = 0
  /\ alive = TRUE /\ offset = 0 /\ batch = <<>> /\ tasks = {} /\ fresh = TRUE
  /\ turns = [u \in Ids |-> 0] /\ outcome = [u \in Ids |-> "none"]
  /\ deaths = 0 /\ starts = 1 /\ failures = 0 /\ slow = 0

UserSends(kind) ==
  /\ Len(sent) < MaxUpdates
  /\ sent' = Append(sent, kind)
  /\ UNCHANGED <<bot, forgotten, alive, offset, batch, tasks, fresh, turns,
                 outcome, deaths, starts, failures, slow>>

-----------------------------------------------------------------------------
(* Polling.                                                                *)

Idle == batch = <<>> /\ tasks = {}
\* Mutant: a bot that starts drops what is pending.
ConfirmedOnStart == IF offset > 0 THEN offset - 1 ELSE Len(sent)

Confirmed == IF offset > 0 THEN offset - 1 ELSE forgotten
Waiting(from) == [i \in 1..(Len(sent) - from) |-> from + i]

\* The service waits for an update: an empty answer changes nothing but `fresh`.
GetUpdates ==
  /\ alive /\ bot.mode # "webhook" /\ Idle
  /\ bot.mode = "once" => fresh
  /\ forgotten' = Confirmed
  /\ LET due == Waiting(Confirmed)
     IN batch' = SubSeq(due, 1, IF Len(due) > BatchLimit THEN BatchLimit ELSE Len(due))
  /\ fresh' = FALSE
  /\ UNCHANGED <<bot, sent, alive, offset, tasks, turns, outcome, deaths,
                 starts, failures, slow>>

\* The call is outside the try: its exception leaves run().
GetUpdatesFails ==
  /\ alive /\ bot.mode # "webhook" /\ Idle /\ deaths < MaxDeaths
  /\ bot.mode = "once" => fresh
  /\ alive' = FALSE /\ deaths' = deaths + 1
  /\ UNCHANGED <<bot, sent, forgotten, offset, batch, tasks, fresh, turns,
                 outcome, starts, failures, slow>>

\* The offset moves before the update is handled.
TakeUpdate ==
  /\ alive /\ batch # <<>> /\ tasks = {}
  /\ offset' = Head(batch) + 1
  /\ tasks' = {[id |-> Head(batch), at |-> "received", call |-> 0]}
  /\ batch' = Tail(batch)
  /\ UNCHANGED <<bot, sent, forgotten, alive, fresh, turns, outcome, deaths,
                 starts, failures, slow>>

OncePassEnds ==
  /\ alive /\ bot.mode = "once" /\ ~fresh /\ Idle
  /\ alive' = FALSE
  /\ UNCHANGED <<bot, sent, forgotten, offset, batch, tasks, fresh, turns,
                 outcome, deaths, starts, failures, slow>>

-----------------------------------------------------------------------------
(* The webhook: the service calls with an update it still has, also with   *)
(* one whose earlier call was too slow.                                    *)

WebhookCall(u) ==
  LET inProgress == {task \in tasks : task.id = u}
  IN  /\ alive /\ bot.mode = "webhook"
      /\ u <= Len(sent) /\ outcome[u] \in {"none", "failed"}
      /\ inProgress # {} => slow < MaxSlow
      /\ slow' = IF inProgress = {} THEN slow ELSE slow + 1
      /\ tasks' = tasks \cup {[id |-> u, at |-> "received", call |-> Cardinality(inProgress)]}
      /\ UNCHANGED <<bot, sent, forgotten, alive, offset, batch, fresh, turns,
                     outcome, deaths, starts, failures>>

-----------------------------------------------------------------------------
(* handle_update, for both transports.                                     *)

Settle(task, how) ==
  /\ tasks' = tasks \ {task}
  /\ outcome' = [outcome EXCEPT ![task.id] =
                   IF @ \in {"answered", "ignored"} THEN @ ELSE how]

Ignore(task) ==
  /\ task.at = "received" /\ ~IsTurn(sent[task.id])
  /\ Settle(task, "ignored")
  /\ UNCHANGED <<bot, sent, forgotten, alive, offset, batch, fresh, turns,
                 deaths, starts, failures, slow>>

RunTurn(task) ==
  /\ task.at = "received" /\ IsTurn(sent[task.id])
  /\ turns' = [turns EXCEPT ![task.id] = @ + 1]
  /\ tasks' = (tasks \ {task}) \cup {[task EXCEPT !.at = "ran"]}
  /\ UNCHANGED <<bot, sent, forgotten, alive, offset, batch, fresh, outcome,
                 deaths, starts, failures, slow>>

SendMessage(task) ==
  /\ task.at = "ran"
  /\ Settle(task, "answered")
  /\ UNCHANGED <<bot, sent, forgotten, alive, offset, batch, fresh, turns,
                 deaths, starts, failures, slow>>

\* The turn, or the call of sendMessage, raises: the poller logs it and goes on.
HandlingFails(task) ==
  /\ task.at = "ran" /\ failures < MaxFailures
  /\ failures' = failures + 1
  /\ Settle(task, "failed")
  /\ UNCHANGED <<bot, sent, forgotten, alive, offset, batch, fresh, turns,
                 deaths, starts, slow>>

-----------------------------------------------------------------------------
Crash ==
  /\ alive /\ deaths < MaxDeaths
  /\ alive' = FALSE /\ deaths' = deaths + 1
  /\ UNCHANGED <<bot, sent, forgotten, offset, batch, tasks, fresh, turns,
                 outcome, starts, failures, slow>>

\* A new process: the offset, the batch and the running turns were in memory.
Start ==
  /\ ~alive /\ starts < MaxStarts
  /\ alive' = TRUE /\ starts' = starts + 1 /\ fresh' = TRUE
  /\ offset' = 0 /\ batch' = <<>> /\ tasks' = {}
  /\ UNCHANGED <<bot, sent, forgotten, turns, outcome, deaths, failures, slow>>

Handle(task) ==
  alive /\ (Ignore(task) \/ RunTurn(task) \/ SendMessage(task) \/ HandlingFails(task))

\* Tasks are handled one by one while polling, in any order behind a webhook.
TelegramNext ==
  \/ \E kind \in UpdateKinds : UserSends(kind)
  \/ GetUpdates \/ GetUpdatesFails \/ TakeUpdate \/ OncePassEnds
  \/ \E u \in Ids : WebhookCall(u)
  \/ \E task \in tasks : Handle(task)
  \/ Crash \/ Start

\* The event loop runs what is ready, the service repeats what it still has,
\* and a supervisor starts the process again.
TelegramFairness ==
  /\ WF_telegramVars(GetUpdates) /\ WF_telegramVars(TakeUpdate)
  /\ WF_telegramVars(\E task \in tasks : Handle(task))
  /\ WF_telegramVars(\E u \in Ids : WebhookCall(u))
  /\ WF_telegramVars(OncePassEnds) /\ WF_telegramVars(Start)

-----------------------------------------------------------------------------
\* What getUpdates makes the service forget was handled: answered, ignored or
\* failed with its error logged; an end of the process loses no update.
ForgottenWasHandled ==
  [][bot.mode # "webhook" =>
       \A u \in (forgotten + 1)..forgotten' : outcome[u] # "none"]_telegramVars

\* A user's message is heard again only after the process died under it, or
\* a webhook call failed or was repeated; one more turn for each such event.
NoTurnTwiceForNothing ==
  bot.mode # "once" =>
    \A u \in Ids :
      turns[u] <= 1 + deaths + (IF bot.mode = "webhook" THEN failures + slow ELSE 0)

\* Every update of a bot that serves on is handled once the faults stop.
EveryUpdateIsHandled ==
  \A u \in Ids : (u <= Len(sent) /\ bot.mode # "once") ~> outcome[u] # "none"

\* So an update gets its turn: it is not forgotten before it, it comes to one,
\* and has a second only behind a fault (channels/telegram.py).
UpdatesGetTheirTurn ==
  ForgottenWasHandled /\ []NoTurnTwiceForNothing /\ EveryUpdateIsHandled

=============================================================================
