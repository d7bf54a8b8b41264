------------------------------ MODULE MCDelivery ------------------------------
(***************************************************************************)
(* How work comes in and goes out: a bot, the daemon's queue, the commands *)
(* that run a workflow again and again, and the export of its traces.      *)
(* Init chooses which; the others stay at rest.                            *)
(***************************************************************************)
EXTENDS Channels, DaemonQueue, WorkflowCommands, TraceExport

\* The commands with what tells them apart.
MCCommands ==
  {c \in CommandConfig : /\ c.interactive => c.kind = "run"
                         /\ c.judge => c.kind = "eval"
                         /\ c.kind = "eval" => ~c.durable
                         /\ c.kind = "assistant" => c.durable
                         /\ c.kind # "run" => c.questions < 2}

VARIABLE carrier
vars == <<carrier, telegramVars, queueVars, commandVars, exportVars>>

CommandRests == CHOOSE c \in MCCommands : ~c.seeded

Init ==
  /\ carrier \in {"telegram", "queue", "command", "export"}
  /\ TelegramInit /\ QueueInit /\ CommandInit /\ ExportInit
  /\ carrier # "telegram" => bot = [mode |-> "polling", replyWhen |-> "all"]
  /\ carrier # "command" => command = CommandRests
  /\ carrier # "export" => sinks = {"http"}

Next ==
  /\ UNCHANGED carrier
  /\ \/ /\ carrier = "telegram" /\ TelegramNext
        /\ UNCHANGED <<queueVars, commandVars, exportVars>>
     \/ /\ carrier = "queue" /\ QueueNext
        /\ UNCHANGED <<telegramVars, commandVars, exportVars>>
     \/ /\ carrier = "command" /\ CommandNext
        /\ UNCHANGED <<telegramVars, queueVars, exportVars>>
     \/ /\ carrier = "export" /\ ExportNext
        /\ UNCHANGED <<telegramVars, queueVars, commandVars>>

\* Fairness of the chosen carrier.
Spec ==
  /\ Init /\ [][Next]_vars
  /\ carrier = "telegram" => TelegramFairness
  /\ carrier = "queue" => QueueFairness
=============================================================================
