--------------------------- MODULE WorkflowCommands ---------------------------
(***************************************************************************)
(* What drives a compiled workflow: the commands run, daemon and eval of   *)
(* cli.py and the assistant that serve, bot and chat build                 *)
(* (channels/factory.py).  Each loads the document once and runs its graph *)
(* many times, from the same initial state.  Copies of that state are      *)
(* shallow: a list in it is one object, and the reducer append extends a   *)
(* list in place.                                                          *)
(*                                                                         *)
(* The workflow notes what it works on in a list, asks its questions, and  *)
(* finishes.  GraphExecution has the executor: here a node's save and its  *)
(* run are one step.                                                       *)
(***************************************************************************)
EXTENDS Naturals, Sequences, FiniteSets, SequencesExt

CONSTANTS
  Sessions,         \* sessions of the assistant; the other commands use 1
  CommandConfigs,   \* the commands considered
  MaxRounds,        \* bound: ticks, turns, or starts of the command
  Examples,         \* length of the data set
  MaxCommandTrouble \* bound: failed nodes, deaths and pruned checkpoints

VARIABLES
  command,   \* the command line, and what the document declares
  seed,      \* the list object of the document's initial state
  work,      \* the run each session has in progress, and the loop around it
  saved,     \* the checkpoint of each session
  rounds,    \* ticks, turns or starts so far
  report,    \* eval: status of the cases done
  announced, \* history: ticks whose state was saved
  ordeals    \* troubles so far

commandVars == <<command, seed, work, saved, rounds, report, announced, ordeals>>

\* What the commands of cli.py are given, and the document says.
CommandConfig ==
  [kind : {"run", "daemon", "eval", "assistant"},
   durable : BOOLEAN,       \* a checkpointer, by flag or by document
   interactive : BOOLEAN,   \* run: ask the operator on stdin
   seeded : BOOLEAN,        \* the initial state has the list
   questions : 0..2,        \* Interrupt nodes of the workflow
   judge : BOOLEAN]         \* eval: an LLM scores the outputs

ASSUME CommandAssumption == CommandConfigs \subseteq CommandConfig

(* A state is its list, the seed's object or one of its own, and the        *)
(* questions answered in it.                                                *)
SeedState == [shares |-> command.seeded, items |-> <<>>, answers |-> {}]
ItemsOf(state) == IF state.shares THEN seed ELSE state.items
Copied(state) == [state EXCEPT !.shares = FALSE, !.items = ItemsOf(state)]

\* kept is the dict the caller holds, copy the one a checkpoint gave.
IdleCommand == [pc |-> "idle", at |-> 0, kept |-> SeedState, copy |-> SeedState,
         restored |-> FALSE, resume |-> 0, mark |-> 0]
Working(s) == IF work[s].restored THEN work[s].copy ELSE work[s].kept

NoRecord == [next |-> -1]
Finish == command.questions + 2
Question(at) == IF at \in 2..(Finish - 1) THEN at - 1 ELSE 0
After(at) == IF at = Finish THEN 0 ELSE at + 1

\* Does graph.run get the checkpointer?
Checkpointed == command.durable /\ command.kind \in {"run", "assistant"}
Record(s, state, next, asked) ==
  IF Checkpointed
  THEN [saved EXCEPT ![s] = [state |-> Copied(state), next |-> next, asked |-> asked]]
  ELSE saved

CommandInit ==
  /\ command \in CommandConfigs
  /\ seed = <<>>
  /\ work = [s \in Sessions |-> IdleCommand]
  /\ saved = [s \in Sessions |-> NoRecord]
  /\ rounds = 0 /\ report = <<>> /\ announced = {} /\ ordeals = 0

-----------------------------------------------------------------------------
(* The callers.                                                            *)

\* run: the process loads the document and hands over its initial state.
RunStarts(s) ==
  /\ command.kind = "run" /\ s = 1 /\ work[s].pc = "idle" /\ rounds < MaxRounds
  /\ rounds' = rounds + 1 /\ seed' = <<>>
  /\ \E given \in {0} \cup (IF saved[s].next = 0 THEN {saved[s].asked} ELSE {}) :
       work' = [work EXCEPT ![s] = [IdleCommand EXCEPT !.pc = "ready", !.resume = given]]
  /\ UNCHANGED <<command, saved, report, announced, ordeals>>

\* Mutant: the state of an earlier process is not read back.
DaemonForgets(s) ==
  /\ command.kind = "daemon" /\ s = 1 /\ work[s].pc = "idle" /\ rounds < MaxRounds
  /\ seed' = <<>>
  /\ work' = [work EXCEPT ![s] = [IdleCommand EXCEPT !.pc = "sleeping"]]
  /\ UNCHANGED <<command, saved, rounds, report, announced, ordeals>>

\* daemon: the state of the last saved tick, or the initial one.
DaemonStarts(s) ==
  /\ command.kind = "daemon" /\ s = 1 /\ work[s].pc = "idle" /\ rounds < MaxRounds
  /\ seed' = <<>>
  /\ work' = [work EXCEPT ![s] = [IdleCommand EXCEPT !.pc = "sleeping",
                !.kept = IF saved[s] = NoRecord THEN SeedState ELSE saved[s].state]]
  /\ UNCHANGED <<command, saved, rounds, report, announced, ordeals>>

\* The next tick: the graph from its entry, on the state the last one left.
Tick(s) ==
  /\ command.kind = "daemon" /\ work[s].pc = "sleeping" /\ rounds < MaxRounds
  /\ rounds' = rounds + 1
  /\ work' = [work EXCEPT ![s].pc = "ready", ![s].mark = rounds']
  /\ UNCHANGED <<command, seed, saved, report, announced, ordeals>>

DaemonStops(s) ==
  /\ command.kind = "daemon" /\ work[s].pc = "sleeping"
  /\ work' = [work EXCEPT ![s].pc = "idle"]
  /\ UNCHANGED <<command, seed, saved, rounds, report, announced, ordeals>>

\* run_eval: {**initial, **item_state(item)}; rounds is 1 once it raised.
CaseStarts(s) ==
  /\ command.kind = "eval" /\ s = 1 /\ work[s].pc = "idle" /\ rounds = 0
  /\ Len(report) < Examples
  /\ work' = [work EXCEPT ![s] = [IdleCommand EXCEPT !.pc = "ready", !.mark = Len(report) + 1]]
  /\ UNCHANGED <<command, seed, saved, rounds, report, announced, ordeals>>

(* The assistant: a fresh session is seeded, one that is recorded is        *)
(* entered again, one that is paused gets its answer.                       *)
TurnStarts(s) ==
  /\ command.kind = "assistant" /\ work[s].pc = "idle" /\ rounds < MaxRounds
  /\ rounds' = rounds + 1
  /\ LET paused == saved[s].next = 0 /\ saved[s].asked # 0
     IN  /\ work' = [work EXCEPT ![s] = [IdleCommand EXCEPT !.pc = "ready", !.mark = s,
                       !.resume = IF paused THEN saved[s].asked ELSE 0]]
         /\ saved' = IF saved[s] = NoRecord \/ paused THEN saved
                     ELSE Record(s, saved[s].state, 1, 0)
  /\ UNCHANGED <<command, seed, report, announced, ordeals>>

-----------------------------------------------------------------------------
(* graph.run.                                                              *)

(* From the checkpoint if there is one: past the question with the answer,  *)
(* or paused again without.  Without a checkpoint the answer is ignored.    *)
GraphRuns(s) ==
  /\ work[s].pc = "ready"
  /\ work' = [work EXCEPT ![s] =
       IF ~Checkpointed \/ saved[s] = NoRecord
       THEN [@ EXCEPT !.pc = "running", !.at = 1, !.restored = FALSE]
       ELSE IF saved[s].next = 0 /\ saved[s].asked # 0
       THEN IF @.resume = 0
            THEN [@ EXCEPT !.pc = "paused", !.at = saved[s].asked + 1]
            ELSE [@ EXCEPT !.pc = "running", !.at = After(saved[s].asked + 1),
                    !.restored = TRUE,
                    !.copy = [saved[s].state EXCEPT !.answers = @ \cup {saved[s].asked}]]
       ELSE [@ EXCEPT !.pc = "running", !.at = saved[s].next,
                      !.restored = TRUE, !.copy = saved[s].state]]
  /\ UNCHANGED <<command, seed, saved, rounds, report, announced, ordeals>>

\* Marks are told apart, not counted: one that is repeated is left out.
Marked(items, mark) == IF mark \in ToSet(items) THEN items ELSE Append(items, mark)

\* The first node: the mark is appended to the list, wherever that is.
Note(s) ==
  /\ work[s].pc = "running" /\ work[s].at = 1
  /\ saved' = Record(s, Working(s), 1, 0)
  /\ seed' = IF Working(s).shares THEN Marked(seed, work[s].mark) ELSE seed
  /\ LET noted == [Working(s) EXCEPT !.items = IF Working(s).shares THEN @
                                               ELSE Marked(@, work[s].mark)]
     IN  work' = [work EXCEPT ![s].at = 2,
                              ![s].copy = IF work[s].restored THEN noted ELSE @,
                              ![s].kept = IF work[s].restored THEN @ ELSE noted]
  /\ UNCHANGED <<command, rounds, report, announced, ordeals>>

\* An Interrupt node: the pause is saved, if anything is.
Ask(s) ==
  /\ work[s].pc = "running" /\ Question(work[s].at) # 0
  /\ saved' = Record(s, Working(s), 0, Question(work[s].at))
  /\ work' = [work EXCEPT ![s].pc = "paused"]
  /\ UNCHANGED <<command, seed, rounds, report, announced, ordeals>>

\* The last node, and the end of the run.
Complete(s) ==
  /\ work[s].pc = "running" /\ work[s].at \in {0, Finish}
  /\ saved' = Record(s, Working(s), 0, 0)
  /\ work' = [work EXCEPT ![s].pc = "ended"]
  /\ UNCHANGED <<command, seed, rounds, report, announced, ordeals>>

NodeFails(s) ==
  /\ work[s].pc = "running" /\ work[s].at \in {1, Finish} /\ ordeals < MaxCommandTrouble
  /\ ordeals' = ordeals + 1
  /\ saved' = Record(s, Working(s), work[s].at, 0)
  /\ work' = [work EXCEPT ![s].pc = "failed"]
  /\ UNCHANGED <<command, seed, rounds, report, announced>>

-----------------------------------------------------------------------------
(* What each caller makes of the outcome.                                  *)

\* _run_loop: the answer is passed to another run of the same state.
Answered(s) ==
  /\ command.kind = "run" /\ command.interactive /\ work[s].pc = "paused"
  /\ work' = [work EXCEPT ![s].pc = "ready", ![s].resume = Question(work[s].at)]
  /\ UNCHANGED <<command, seed, saved, rounds, report, announced, ordeals>>

\* The command prints its result, or an error: a pause is one.
RunExits(s) ==
  /\ command.kind = "run"
  /\ work[s].pc \in {"ended", "failed"} \/ (work[s].pc = "paused" /\ ~command.interactive)
  /\ work' = [work EXCEPT ![s] = IdleCommand]
  /\ UNCHANGED <<command, seed, saved, rounds, report, announced, ordeals>>

(* _daemon_loop: a finished tick is printed and saved, a paused one is      *)
(* skipped with what it wrote, and a failed one ends the daemon.            *)
TickSaved(s) ==
  /\ command.kind = "daemon" /\ work[s].pc = "ended"
  /\ saved' = IF command.durable
              THEN [saved EXCEPT ![s] = [state |-> Copied(work[s].kept),
                                         next |-> 0, asked |-> 0]]
              ELSE saved
  /\ announced' = IF command.durable THEN announced \cup {work[s].mark} ELSE announced
  /\ work' = [work EXCEPT ![s].pc = "sleeping"]
  /\ UNCHANGED <<command, seed, rounds, report, ordeals>>

TickSkipped(s) ==
  /\ command.kind = "daemon" /\ work[s].pc = "paused"
  /\ work' = [work EXCEPT ![s].pc = "sleeping"]
  /\ UNCHANGED <<command, seed, saved, rounds, report, announced, ordeals>>

DaemonFails(s) ==
  /\ command.kind = "daemon" /\ work[s].pc = "failed"
  /\ work' = [work EXCEPT ![s] = IdleCommand]
  /\ UNCHANGED <<command, seed, saved, rounds, report, announced, ordeals>>

(* run_eval: every outcome is a case; only a finished one is scored.  The   *)
(* list is what the output is read from.                                    *)
CaseDone(s) ==
  /\ command.kind = "eval" /\ work[s].pc \in {"ended", "paused", "failed"}
  /\ report' = Append(report, [status |-> work[s].pc, read |-> ItemsOf(work[s].kept)])
  /\ work' = [work EXCEPT ![s].pc = "idle"]
  /\ UNCHANGED <<command, seed, saved, rounds, announced, ordeals>>

\* judge_with_llm is outside the try: a failed judge ends the evaluation.
JudgeFails(s) ==
  /\ command.kind = "eval" /\ command.judge /\ work[s].pc = "ended"
  /\ ordeals < MaxCommandTrouble
  /\ ordeals' = ordeals + 1 /\ rounds' = 1 /\ report' = <<>>
  /\ work' = [work EXCEPT ![s].pc = "idle"]
  /\ UNCHANGED <<command, seed, saved, announced>>

\* eval: every case has its outcome, and the report is printed.
EvalEnds(s) ==
  /\ command.kind = "eval" /\ s = 1 /\ work[s].pc = "idle" /\ rounds = 0
  /\ Len(report) = Examples
  /\ rounds' = 1
  /\ UNCHANGED <<command, seed, work, saved, report, announced, ordeals>>

TurnEnds(s) ==
  /\ command.kind = "assistant" /\ work[s].pc \in {"ended", "paused", "failed"}
  /\ work' = [work EXCEPT ![s] = IdleCommand]
  /\ UNCHANGED <<command, seed, saved, rounds, report, announced, ordeals>>

-----------------------------------------------------------------------------
(* Trouble.                                                                *)

\* The process dies, and with it every run of it.
CommandDies ==
  /\ command.kind # "eval" /\ ordeals < MaxCommandTrouble
  /\ \E s \in Sessions : work[s].pc # "idle"
  /\ ordeals' = ordeals + 1 /\ seed' = <<>>
  /\ work' = [s \in Sessions |-> IdleCommand]
  /\ UNCHANGED <<command, saved, rounds, report, announced>>

\* prune (cleanup of the store) removes a checkpoint, paused or not.
Prune(s) ==
  /\ Checkpointed /\ saved[s] # NoRecord /\ ordeals < MaxCommandTrouble
  /\ ordeals' = ordeals + 1
  /\ saved' = [saved EXCEPT ![s] = NoRecord]
  /\ UNCHANGED <<command, seed, work, rounds, report, announced>>

CommandWork(s) ==
  \/ GraphRuns(s) \/ Note(s) \/ Ask(s) \/ Complete(s) \/ Answered(s) \/ RunExits(s)
  \/ TickSaved(s) \/ TickSkipped(s) \/ DaemonFails(s) \/ CaseDone(s) \/ EvalEnds(s) \/ TurnEnds(s)
CommandNext ==
  \/ \E s \in Sessions :
       \/ CommandWork(s) \/ RunStarts(s) \/ DaemonStarts(s) \/ Tick(s) \/ DaemonStops(s)
       \/ CaseStarts(s) \/ TurnStarts(s) \/ NodeFails(s) \/ JudgeFails(s) \/ Prune(s)
  \/ CommandDies

-----------------------------------------------------------------------------
(* Properties.                                                             *)

OwnMarks(s) ==
  command.kind \in {"eval", "assistant"} /\ work[s].pc # "idle" =>
    \A i \in DOMAIN ItemsOf(Working(s)) : ItemsOf(Working(s))[i] = work[s].mark

(* What a run of one example, or a turn of one user, works on came from no  *)
(* other.  docs/guide/durable.md promises it of owners, eval.py of examples *)
(* ("merged into the workflow state ... on top of the workflow's own        *)
(* state.initial").                                                         *)
RunsAreIndependent == \A s \in Sessions : OwnMarks(s)

(* It is so when the initial state holds no list that a node appends to:    *)
(* the dicts themselves are never shared.                                   *)
OnlyASeededListIsShared == ~command.seeded => RunsAreIndependent

(* A tick the daemon saved is in the state of every later tick, whatever    *)
(* paused, failed or died since.                                            *)
SavedTicksAreKept ==
  \A s \in Sessions : command.kind = "daemon" /\ work[s].pc # "idle" =>
    announced \subseteq ToSet(ItemsOf(work[s].kept))

(* So a command's runs have what earlier runs left them, and nothing else.  *)
RunsKeepTheirOwn == SavedTicksAreKept /\ OnlyASeededListIsShared
=============================================================================
