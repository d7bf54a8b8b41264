------------------------------ MODULE AgentLoop ------------------------------
(***************************************************************************)
(* The tool-calling agent (node/agent.py): a ReActAgent node that calls    *)
(* the model and a ToolExec node that runs the tools the model asked for,  *)
(* in a cycle, under the executor, in a checkpointed session that goes on  *)
(* over several messages.  A tool call may be a question to the operator   *)
(* (ask_human) or need the operator's approval: either pauses the run, and *)
(* the resumed run goes on past ToolExec, at the agent, so that it is the  *)
(* model that has to make the call again.                                  *)
(*                                                                         *)
(* A model reply is abstracted to the calls it makes, a call to the round  *)
(* it was made in and to what it asks for (a question or a tool with its   *)
(* arguments).  AgentCall ids are unique.  The retries of a tool are part of    *)
(* its run; max_iterations is GraphExecution's business.                   *)
(***************************************************************************)
EXTENDS Naturals, Sequences, SequencesExt

CONSTANTS
    Question,       \* what ask_human is called with
    Tool,           \* tools, each with the arguments it is called with
    Approver,       \* tool -> what the tool_approval callable decides
    Batches,        \* the lists of calls the model may reply with
    MaxRounds,      \* max_tool_rounds
    MaxAgentTurns,       \* bound: messages of the user
    Nowhere, Unrecorded, Nothing

What == Question \cup Tool

ASSUME AgentAssumption ==
    /\ Question \cap Tool = {}
    /\ Approver \in [Tool -> {"approve", "deny", "pause"}]
    /\ Batches \subseteq Seq(What)
    /\ \A batch \in Batches : IsInjective(batch)
    /\ MaxRounds \in Nat
    /\ MaxAgentTurns \in Nat
    /\ Nowhere \notin {"agent", "tool", "handler"}

AgentCall == [round : Nat, what : What]

ASSUME NothingAssumption == Nothing \notin AgentCall

MaybeCall == AgentCall \cup {Nothing}

(* A message has a role; the assistant's the calls it makes, a tool's its    *)
(* call and the result: the kind, and the question an answer was given to.   *)
JobStatus == {"answer", "running", "denied", "output", "error"}

AgentMessage ==
    [role : {"user"}]
      \cup [role : {"assistant"}, calls : Seq(AgentCall)]
      \cup [role : {"tool"}, call : AgentCall, result : [kind : JobStatus, to : MaybeCall]]

(* calls is _tool_calls, round is _react_round_, answer is the key          *)
(* ask_human (as the call it was given to), approval is tool_approval.      *)
AgentState == [messages : Seq(AgentMessage), calls : Seq(AgentCall), round : Nat,
               answer : MaybeCall, approval : {"none", "approve", "deny", "unclear"}]

AgentRecords == [next : {"agent", "tool", "handler", Nowhere}, asking : MaybeCall,
                 state : AgentState]

ASSUME UnrecordedAssumption == Unrecorded \notin AgentRecords

Fresh == [messages |-> <<>>, calls |-> <<>>, round |-> 0,
          answer |-> Nothing, approval |-> "none"]

VARIABLES
    recorded,       \* the checkpoint; asking is the call that paused the run
    run,            \* the locals of the run in progress
    turns,          \* messages of the user so far
    paused,         \* history: rounds in which ToolExec paused
    abandoned,      \* history: rounds given up by an error or a new message
    ran,            \* history: calls whose tool was started
    signed,         \* history: what the operator has answered to approvals
    reasked         \* history: after an answer the model made the call again

agentVars == <<recorded, run, turns, paused, abandoned, ran, signed, reasked>>
history == <<paused, abandoned, ran, signed, reasked>>

AgentIdle == [pc |-> "idle", node |-> Nowhere, state |-> Fresh, jobs |-> <<>>,
              reply |-> Nothing]

AgentInit ==
    /\ recorded = Unrecorded
    /\ run = AgentIdle
    /\ turns = 0
    /\ paused = {}
    /\ abandoned = {}
    /\ ran = {}
    /\ signed = {}
    /\ reasked = TRUE

AgentRecord(next, asking, state) == [next |-> next, asking |-> asking, state |-> state]

At(node, state) == [AgentIdle EXCEPT !.pc = "top", !.node = node, !.state = state]

AgentPaused == recorded # Unrecorded /\ recorded.asking # Nothing

Say(state, messages) == [state EXCEPT !.messages = @ \o messages]

-----------------------------------------------------------------------------
(* What the caller does with the session. *)

(* A message: a turn starts at the agent, wherever the last one stopped.    *)
HearUser ==
    /\ run = AgentIdle
    /\ ~AgentPaused
    /\ turns < MaxAgentTurns
    /\ turns' = turns + 1
    /\ LET heard == Say(IF recorded = Unrecorded THEN Fresh ELSE recorded.state,
                        <<[role |-> "user"]>>)
       IN  /\ run' = At("agent", heard)
           /\ IF recorded = Unrecorded
                THEN UNCHANGED <<recorded, abandoned>>
                ELSE /\ recorded' = AgentRecord("agent", Nothing, heard)
                     /\ abandoned' = IF recorded.next = "tool"
                                       THEN abandoned \cup {heard.round} ELSE abandoned
    /\ UNCHANGED <<paused, ran, signed, reasked>>

(* A run that died is run again. *)
Rerun ==
    /\ run = AgentIdle
    /\ recorded # Unrecorded
    /\ recorded.next # Nowhere
    /\ run' = At(recorded.next, recorded.state)
    /\ UNCHANGED <<recorded, turns, history>>

(* The operator answers: the value goes into the state under the key of the *)
(* interrupt, and the run goes on along the edge that leaves ToolExec.      *)
AnswerQuestion ==
    /\ run = AgentIdle
    /\ AgentPaused
    /\ recorded.asking.what \in Question
    /\ run' = At("agent", [recorded.state EXCEPT !.answer = recorded.asking])
    /\ UNCHANGED <<recorded, turns, history>>

AnswerApproval(decision) ==
    /\ run = AgentIdle
    /\ AgentPaused
    /\ recorded.asking.what \in Tool
    /\ run' = At("agent", [recorded.state EXCEPT !.approval = decision])
    /\ signed' = signed \cup {decision}
    /\ UNCHANGED <<recorded, turns, paused, abandoned, ran, reasked>>

-----------------------------------------------------------------------------
(* The executor. *)

AgentSavesBefore ==
    /\ run.pc = "top"
    /\ run.node # Nowhere
    /\ recorded' = AgentRecord(run.node, Nothing, run.state)
    /\ run' = [run EXCEPT !.pc = "executing"]
    /\ UNCHANGED <<turns, history>>

AgentSavesAtEnd ==
    /\ run.pc = "top"
    /\ run.node = Nowhere
    /\ recorded' = AgentRecord(Nowhere, Nothing, run.state)
    /\ run' = AgentIdle
    /\ UNCHANGED <<turns, history>>

HandlerReturns ==
    /\ run.pc = "executing"
    /\ run.node = "handler"
    /\ run' = At(Nowhere, run.state)
    /\ UNCHANGED <<recorded, turns, history>>

-----------------------------------------------------------------------------
(* ReActAgent.execute. *)

(* The model replies with calls, or with none.  Past max_tool_rounds its    *)
(* calls are ignored; the count is a key of the state, which nothing resets.*)
AgentReplies(batch) ==
    /\ run.pc = "executing"
    /\ run.node = "agent"
    /\ LET round == run.state.round + 1
           calls == IF round > MaxRounds THEN <<>>
                    ELSE [i \in DOMAIN batch |-> [round |-> round, what |-> batch[i]]]
       IN  run' = At(IF calls = <<>> THEN Nowhere ELSE "tool",
                     [Say(run.state, <<[role |-> "assistant", calls |-> calls]>>)
                        EXCEPT !.round = round, !.calls = calls])
    /\ reasked' = (reasked /\ (run.state.answer = Nothing
                                 \/ run.state.answer.what \in ToSet(batch)))
    /\ UNCHANGED <<recorded, turns, paused, abandoned, ran, signed>>

-----------------------------------------------------------------------------
(* ToolExec.execute. *)

(* The ask_human calls, by their places. *)
Asks == {i \in DOMAIN run.state.calls : run.state.calls[i].what \in Question}

Unasked == [run.state EXCEPT !.answer = Nothing]

(* An ask_human call takes the operator's answer out of the state; one that *)
(* finds none there pauses the run.                                         *)
Unanswered == IF Asks = {} \/ run.state.answer = Nothing THEN Asks ELSE Asks \ {Min(Asks)}

(* Mutant: an answer that is not one of the two approves. *)
DecisionLenient(call) ==
    CASE run.state.approval \in {"approve", "unclear"} -> "approve"
      [] run.state.approval = "deny" -> "deny"
      [] OTHER -> Approver[call.what]

(* An approval in the state decides for every call. *)
Decision(call) ==
    IF run.state.approval \in {"approve", "deny"}
      THEN run.state.approval ELSE Approver[call.what]

Undecided == {i \in DOMAIN run.state.calls :
    run.state.calls[i].what \in Tool /\ Decision(run.state.calls[i]) = "pause"}

AnsweredAll == Unanswered = {}

AtTools == run.pc = "executing" /\ run.node = "tool"

Pause(call, state) ==
    /\ recorded' = AgentRecord(Nowhere, call, state)
    /\ run' = AgentIdle
    /\ paused' = paused \cup {state.round}
    /\ UNCHANGED <<turns, abandoned, ran, signed, reasked>>

PauseForAnswer ==
    /\ AtTools
    /\ ~AnsweredAll
    /\ Pause(run.state.calls[Min(Unanswered)], Unasked)

PauseForApproval ==
    /\ AtTools
    /\ AnsweredAll
    /\ Undecided # {}
    /\ Pause(run.state.calls[Min(Undecided)], IF Asks = {} THEN run.state ELSE Unasked)

(* All the approved calls start at once. *)
StartTools ==
    /\ AtTools
    /\ AnsweredAll
    /\ Undecided = {}
    /\ LET job(call) == IF call.what \in Question THEN "answer"
                        ELSE IF Decision(call) = "approve" THEN "running" ELSE "denied"
           calls == run.state.calls
       IN  /\ run' = [run EXCEPT !.pc = "tools",
                                 !.state = IF Asks = {} THEN @ ELSE Unasked,
                                 !.jobs = [i \in DOMAIN calls |-> job(calls[i])],
                                 !.reply = IF Asks = {} THEN Nothing ELSE run.state.answer]
           /\ ran' = ran \cup {call \in ToSet(calls) : job(call) = "running"}
    /\ UNCHANGED <<recorded, turns, paused, abandoned, signed, reasked>>

(* A tool returns, or fails for the last time with tool_error_mode          *)
(* "message".                                                               *)
ToolEnds(i, outcome) ==
    /\ run.pc = "tools"
    /\ i \in DOMAIN run.jobs
    /\ run.jobs[i] = "running"
    /\ run' = [run EXCEPT !.jobs[i] = outcome]
    /\ UNCHANGED <<recorded, turns, history>>

(* A tool fails with tool_error_mode "raise", or node_timeout expires: the  *)
(* other tools are cancelled and the error edge is taken.  (Without one the *)
(* run dies, as in Crash.)                                                  *)
ToolExecFails ==
    /\ run.pc = "tools"
    /\ \E i \in DOMAIN run.jobs : run.jobs[i] = "running"
    /\ recorded' = AgentRecord("handler", Nothing, run.state)
    /\ run' = At("handler", run.state)
    /\ abandoned' = abandoned \cup {run.state.round}
    /\ UNCHANGED <<turns, paused, ran, signed, reasked>>

ToolMessage(i) ==
    [role |-> "tool", call |-> run.state.calls[i],
     result |-> [kind |-> run.jobs[i],
                 to |-> IF run.jobs[i] = "answer" THEN run.reply ELSE Nothing]]

(* Mutant: a call that was denied gets no message. *)
ToolExecReturnsApproved ==
    /\ run.pc = "tools"
    /\ \A i \in DOMAIN run.jobs : run.jobs[i] # "running"
    /\ LET messages == [i \in DOMAIN run.jobs |-> ToolMessage(i)]
       IN  run' = At("agent",
             [Say(run.state, SelectSeq(messages, LAMBDA m : m.result.kind # "denied"))
                EXCEPT !.calls = <<>>])
    /\ UNCHANGED <<recorded, turns, history>>

(* The results follow in the order of the calls, the denials after them.    *)
Before(i, j) ==
    IF run.jobs[i] = "denied" <=> run.jobs[j] = "denied" THEN i < j
    ELSE run.jobs[j] = "denied"

ToolExecReturns ==
    /\ run.pc = "tools"
    /\ \A i \in DOMAIN run.jobs : run.jobs[i] # "running"
    /\ \E order \in Bijection(DOMAIN run.jobs, DOMAIN run.jobs) :
          /\ \A i, j \in DOMAIN run.jobs : i < j => Before(order[i], order[j])
          /\ run' = At("agent",
                [Say(run.state, [i \in DOMAIN run.jobs |-> ToolMessage(order[i])])
                   EXCEPT !.calls = <<>>])
    /\ UNCHANGED <<recorded, turns, history>>

(* The process dies, the task is cancelled, or the model call fails. *)
Crash ==
    /\ run # AgentIdle
    /\ run' = AgentIdle
    /\ UNCHANGED <<recorded, turns, history>>

-----------------------------------------------------------------------------
Step ==
    \/ AgentSavesBefore \/ AgentSavesAtEnd \/ HandlerReturns
    \/ \E batch \in Batches \cup {<<>>} : AgentReplies(batch)
    \/ PauseForAnswer \/ PauseForApproval \/ StartTools
    \/ \E i \in DOMAIN run.jobs, outcome \in {"output", "error"} : ToolEnds(i, outcome)
    \/ ToolExecFails \/ ToolExecReturns

AgentNext ==
    \/ HearUser \/ Rerun \/ AnswerQuestion
    \/ \E decision \in {"approve", "deny", "unclear"} : AnswerApproval(decision)
    \/ Step
    \/ Crash

-----------------------------------------------------------------------------
(* Properties. *)

Histories == {run.state.messages}
               \cup (IF recorded = Unrecorded THEN {} ELSE {recorded.state.messages})

(* Providers reject a conversation in which a tool call has no result.  A   *)
(* round that neither paused nor was given up is followed by one message    *)
(* for each of its calls and by nothing in between, whatever was approved,  *)
(* denied, answered, failed or run again after a crash.                     *)
RequestsAreAnswered ==
    \A messages \in Histories : \A i \in DOMAIN messages :
        ( /\ i < Len(messages)
          /\ messages[i].role = "assistant"
          /\ messages[i].calls # <<>>
          /\ Head(messages[i].calls).round \notin paused \cup abandoned ) =>
            LET calls == messages[i].calls
                places == i + 1 .. i + Len(calls)
            IN  /\ i + Len(calls) <= Len(messages)
                /\ \A j \in places : messages[j].role = "tool"
                /\ {messages[j].call : j \in places} = ToSet(calls)

(* The result of an ask_human call is the answer to this question, however  *)
(* often the run stopped and died in between, if only the model makes the   *)
(* call again after the answer: the state keeps the answer of one question, *)
(* not which one it was.                                                    *)
AnswersReachTheirQuestion ==
    reasked => \A messages \in Histories : \A i \in DOMAIN messages :
        (messages[i].role = "tool" /\ messages[i].result.kind = "answer") =>
            messages[i].result.to.what = messages[i].call.what

(* A round that stops for the operator has run none of its tools, and will  *)
(* not: after the answer the model makes its calls again, in another round. *)
PausedRoundRunsNothing == \A call \in ran : call.round \notin paused

\* A round is answered as a whole, or not begun.
RoundsAreWhole ==
    RequestsAreAnswered /\ AnswersReachTheirQuestion /\ PausedRoundRunsNothing

(* As long as the operator has approved nothing, no tool runs that the      *)
(* approver does not approve itself.                                        *)
GatedToolsNeedASignOff ==
    \A call \in ran : Approver[call.what] # "approve" => "approve" \in signed
=============================================================================
