------------------------------- MODULE SubFlow -------------------------------
(***************************************************************************)
(* A node that runs a nested graph (flow/sub_flow.py) under the executor   *)
(* of graph/execution.py.  The nested run has a checkpoint of its own,     *)
(* under an id derived from the parent's, so one pause, one answer and one *)
(* completion are several saves of two records, with a crash possible      *)
(* between any two of them.                                                *)
(*                                                                         *)
(* The workflow is the smallest one with every interaction: the parent     *)
(* graph prepares an input, runs the sub-flow and publishes; the sub-flow  *)
(* asks the operator and then works, and the work may raise.  The parent   *)
(* sends that failure over an error edge back to the preparation (without  *)
(* the edge the run just dies, as in ProcessCrash).  Both graphs share their keys *)
(* (passthrough mode).                                                     *)
(***************************************************************************)
EXTENDS Naturals

CONSTANTS
    MaxInputs,      \* bound: the executions of "prepare" that are told apart
    NoNode,
    NoCheckpoint,
    Nothing         \* a key that has no value

ParentNode == {"prepare", "sub", "publish"}
NestedNode == {"ask", "work"}

ASSUME SubFlowAssumption ==
    /\ MaxInputs \in Nat \ {0}
    /\ NoNode \notin ParentNode \cup NestedNode

(* input: which preparation; note: a key only the operator writes; answer   *)
(* and result: for which input the sub-flow was answered and did its work.  *)
Inputs == 0..MaxInputs
State == [input : Inputs, note : {"plain", "edited"},
          answer : Inputs \cup {Nothing}, result : Inputs \cup {Nothing}]

Fresh == [input |-> 0, note |-> "plain", answer |-> Nothing, result |-> Nothing]

Record(nodes) == [next : nodes \cup {NoNode}, paused : BOOLEAN, state : State]

ASSUME SubFlowRecordAssumption ==
    NoCheckpoint \notin Record(ParentNode) \cup Record(NestedNode)

VARIABLES
    parent,         \* the checkpoint of the run
    nested,         \* the checkpoint {id}:sub:{node}
    call,           \* the locals of the call of Graph.run in progress
    strayed         \* history: whether a failure of the work was routed past the
                    \* nested record, and an answer was sent to its id

subFlowVars == <<parent, nested, call, strayed>>

Idle == [pc |-> "idle", node |-> NoNode, state |-> Fresh, resume |-> FALSE,
         inner |-> NoNode, innerState |-> Fresh]

SubFlowInit ==
    /\ parent = NoCheckpoint
    /\ nested = NoCheckpoint
    /\ call = Idle
    /\ strayed = {}

Saved(next, paused, state) == [next |-> next, paused |-> paused, state |-> state]

IsPaused(record) == record # NoCheckpoint /\ record.paused

-----------------------------------------------------------------------------
(* Calls of Graph.run and Graph.update_state. *)

Run ==
    /\ call = Idle
    /\ ~IsPaused(parent)
    /\ call' = IF parent = NoCheckpoint
                 THEN [Idle EXCEPT !.pc = "top", !.node = "prepare"]
                 ELSE [Idle EXCEPT !.pc = "top", !.node = parent.next,
                                   !.state = parent.state]
    /\ UNCHANGED <<parent, nested, strayed>>

(* The recorded interrupt has a nested_checkpoint_id: the answer stays in   *)
(* ctx.resume and the sub-flow node runs again.                             *)
Resume ==
    /\ call = Idle
    /\ IsPaused(parent)
    /\ call' = [Idle EXCEPT !.pc = "top", !.node = "sub", !.state = parent.state,
                            !.resume = TRUE]
    /\ UNCHANGED <<parent, nested, strayed>>

(* GraphInterrupt.checkpoint_id is set by the innermost run, so it names    *)
(* the nested record.  Resuming the parent graph with it writes the answer, *)
(* finds no edge of the parent graph that leaves "ask", and records the     *)
(* nested run as completed.                                                 *)
ResumeByException ==
    /\ call = Idle
    /\ IsPaused(parent)
    /\ IsPaused(nested)
    /\ nested' = Saved(NoNode, FALSE, [nested.state EXCEPT !.answer = nested.state.input])
    /\ strayed' = strayed \cup {"answer"}
    /\ UNCHANGED <<parent, call>>

UpdateState ==
    /\ call = Idle
    /\ IsPaused(parent)
    /\ parent' = [parent EXCEPT !.state.note = "edited"]
    /\ UNCHANGED <<nested, call, strayed>>

-----------------------------------------------------------------------------
(* The loop of the parent run. *)

SaveBeforeNode ==
    /\ call.pc = "top"
    /\ call.node # NoNode
    /\ parent' = Saved(call.node, FALSE, call.state)
    /\ call' = [call EXCEPT !.pc = "running"]
    /\ UNCHANGED <<nested, strayed>>

SaveAtEnd ==
    /\ call.pc = "top"
    /\ call.node = NoNode
    /\ parent' = Saved(NoNode, FALSE, call.state)
    /\ call' = Idle
    /\ UNCHANGED <<nested, strayed>>

Prepare ==
    /\ call.pc = "running"
    /\ call.node = "prepare"
    /\ call' = [call EXCEPT !.pc = "top", !.node = "sub",
                            !.state.input = IF @ < MaxInputs THEN @ + 1 ELSE @]
    /\ UNCHANGED <<parent, nested, strayed>>

Publish ==
    /\ call.pc = "running"
    /\ call.node = "publish"
    /\ call' = [call EXCEPT !.pc = "top", !.node = NoNode]
    /\ UNCHANGED <<parent, nested, strayed>>

-----------------------------------------------------------------------------
(* SubFlow.execute and the nested run. *)

EnterSubFlowUnanswered ==
    /\ call.pc = "running"
    /\ call.node = "sub"
    /\ call' =
        IF nested = NoCheckpoint
          THEN [call EXCEPT !.pc = "innerTop", !.inner = "ask", !.innerState = call.state]
        ELSE IF nested.paused
          THEN [call EXCEPT !.pc = "interrupted"]
          ELSE [call EXCEPT !.pc = "innerTop", !.inner = nested.next,
                            !.innerState = nested.state]
    /\ UNCHANGED <<parent, nested, strayed>>

(* The nested run starts from a copy of the parent's state, or goes on from *)
(* its checkpoint; it raises at once when that is paused and no answer came.*)
EnterSubFlow ==
    /\ call.pc = "running"
    /\ call.node = "sub"
    /\ call' =
        IF nested = NoCheckpoint
          THEN [call EXCEPT !.pc = "innerTop", !.inner = "ask", !.innerState = call.state]
        ELSE IF ~nested.paused
          THEN [call EXCEPT !.pc = "innerTop", !.inner = nested.next,
                            !.innerState = nested.state]
        ELSE IF call.resume
          THEN [call EXCEPT !.pc = "innerTop", !.inner = "work",
                            !.innerState = [nested.state EXCEPT !.answer = nested.state.input]]
          ELSE [call EXCEPT !.pc = "interrupted"]
    /\ UNCHANGED <<parent, nested, strayed>>

InnerSaveBeforeNode ==
    /\ call.pc = "innerTop"
    /\ call.inner # NoNode
    /\ nested' = Saved(call.inner, FALSE, call.innerState)
    /\ call' = [call EXCEPT !.pc = "innerRunning"]
    /\ UNCHANGED <<parent, strayed>>

InnerSaveAtEnd ==
    /\ call.pc = "innerTop"
    /\ call.inner = NoNode
    /\ nested' = Saved(NoNode, FALSE, call.innerState)
    /\ call' = [call EXCEPT !.pc = "returned"]
    /\ UNCHANGED <<parent, strayed>>

Ask ==
    /\ call.pc = "innerRunning"
    /\ call.inner = "ask"
    /\ nested' = Saved(NoNode, TRUE, call.innerState)
    /\ call' = [call EXCEPT !.pc = "interrupted"]
    /\ UNCHANGED <<parent, strayed>>

(* The re-raised GraphInterrupt reaches the parent's executor. *)
PauseParent ==
    /\ call.pc = "interrupted"
    /\ parent' = Saved(NoNode, TRUE, call.state)
    /\ call' = Idle
    /\ UNCHANGED <<nested, strayed>>

Work ==
    /\ call.pc = "innerRunning"
    /\ call.inner = "work"
    /\ call' = [call EXCEPT !.pc = "innerTop", !.inner = NoNode,
                            !.innerState.result = call.innerState.input]
    /\ UNCHANGED <<parent, nested, strayed>>

(* The exception leaves SubFlow.execute before the nested checkpoint is     *)
(* deleted, and the parent follows its error edge.                          *)
WorkFails ==
    /\ call.pc = "innerRunning"
    /\ call.inner = "work"
    /\ parent' = Saved("prepare", FALSE, call.state)
    /\ call' = [call EXCEPT !.pc = "top", !.node = "prepare", !.inner = NoNode,
                            !.innerState = Fresh]
    /\ strayed' = strayed \cup {"failure"}
    /\ UNCHANGED nested

(* Mutant: only keys that had a value count as changed. *)
MergeKnownKeys(entered, result) ==
    [key \in DOMAIN entered |->
        IF entered[key] \notin {Nothing, result[key]} THEN result[key] ELSE entered[key]]

(* _passthrough_delta merged by the parent: the keys whose nested value     *)
(* differs from the state the sub-flow was entered with.                    *)
MergeDelta(entered, result) ==
    [key \in DOMAIN entered |->
        IF entered[key] # result[key] THEN result[key] ELSE entered[key]]

LeaveSubFlow ==
    /\ call.pc = "returned"
    /\ nested' = NoCheckpoint
    /\ call' = [call EXCEPT !.pc = "top", !.node = "publish", !.inner = NoNode,
                            !.state = MergeDelta(call.state, call.innerState),
                            !.innerState = Fresh]
    /\ UNCHANGED <<parent, strayed>>

ProcessCrash ==
    /\ call # Idle
    /\ call' = Idle
    /\ UNCHANGED <<parent, nested, strayed>>

-----------------------------------------------------------------------------
Step ==
    \/ SaveBeforeNode \/ SaveAtEnd \/ Prepare \/ Publish
    \/ EnterSubFlow \/ InnerSaveBeforeNode \/ InnerSaveAtEnd \/ Ask \/ PauseParent
    \/ Work \/ WorkFails \/ LeaveSubFlow

SubFlowNext == Run \/ Resume \/ ResumeByException \/ UpdateState \/ Step \/ ProcessCrash

SubFlowSpec == SubFlowInit /\ [][SubFlowNext]_subFlowVars

(* A caller that runs the id until it completes and answers its questions.  *)
SubFlowFairness == WF_subFlowVars(Step) /\ WF_subFlowVars(Run) /\ WF_subFlowVars(Resume)

-----------------------------------------------------------------------------
(* Properties. *)

Completed == parent # NoCheckpoint /\ ~parent.paused /\ parent.next = NoNode

(* As long as no failure was routed past an unfinished nested run and no    *)
(* answer was sent to its id, the sub-flow works only on an answer given    *)
(* for the input it works on, and only the result of the input that was     *)
(* prepared last is published, whatever crashes come in between.            *)
AnswersMatchInputs ==
    strayed = {} =>
        /\ (call.pc = "innerRunning" /\ call.inner = "work") =>
              call.innerState.answer = call.innerState.input
        /\ (parent # NoCheckpoint /\ parent.next = "publish") =>
              parent.state.result = parent.state.input

(* The two records belong together: a parent that waits has a nested record *)
(* that waits or has run on, and a run that is completed left none behind,  *)
(* which a later visit would take for its own.                              *)
RecordsBelongTogether ==
    strayed = {} =>
        /\ IsPaused(parent) => nested # NoCheckpoint
        /\ Completed => nested = NoCheckpoint

\* So question, answer, input and result of a visit are those of this visit.
VisitsAreWhole == AnswersMatchInputs /\ RecordsBelongTogether

(* Once nothing crashes or raises any more, a caller that keeps running the *)
(* id and answering gets it completed, wherever the crashes struck.         *)
CompletesOnceTroubleStops ==
    <>[][~ProcessCrash /\ ~WorkFails]_subFlowVars => <>Completed
===============================================================================
