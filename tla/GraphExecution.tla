--------------------------- MODULE GraphExecution ---------------------------
(***************************************************************************)
(* The executor of a graph (graph/execution.py, _execute_impl) for one     *)
(* checkpoint id: it loads the checkpoint, walks the graph node by node,   *)
(* saves before every node, on an error edge, on an interrupt and at the   *)
(* end, and raises out of the run otherwise.  A run is volatile: a crash,  *)
(* a cancellation or an exception of the checkpointer or of a hook drops   *)
(* it and leaves the checkpoint as it is.  The caller runs the same id     *)
(* again, one run at a time.                                               *)
(*                                                                         *)
(* The workflow state, a dict of the application's, is abstracted to what  *)
(* the executor depends on: which nodes' updates were merged into it, in   *)
(* order, and the one value edge conditions read.  A node is taken to      *)
(* return its update and to leave the state it is given alone.  Saves are  *)
(* atomic, as Checkpointer requires.                                       *)
(***************************************************************************)
EXTENDS Naturals, Sequences

CONSTANTS
    Node,           \* graph.nodes
    Entry,          \* graph.entry_point
    Edges,          \* graph.edges, in order
    Commands,       \* node -> the gotos of the Commands it may return
    Interrupting,   \* the nodes whose execute may raise GraphInterrupt
    Nested,         \* those of them that carry a nested_checkpoint_id
    Value,          \* what a node or an answer may write for conditions
    Unset,          \* the value of a fresh state
    MaxIterations,  \* max_iterations
    Always,         \* the condition None
    OnError,        \* the condition "__error__"
    Stop,           \* Command.STOP
    NoNode,         \* the id None
    NoCheckpoint    \* load() found nothing

Edge == [source : Node, target : Node, condition : Value \cup {Always, OnError}]

ASSUME GraphAssumption ==
    /\ Entry \in Node
    /\ Edges \in Seq(Edge)
    /\ Interrupting \subseteq Node
    /\ Nested \subseteq Interrupting
    /\ DOMAIN Commands = Node
    /\ Unset \in Value
    /\ Always \notin Value
    /\ OnError \notin Value
    /\ Always # OnError
    /\ NoNode \notin Node
    /\ Stop \notin Node
    /\ MaxIterations \in Nat

WorkflowState == [done : Seq(Node), value : Value]

Fresh == [done |-> <<>>, value |-> Unset]

Checkpoint == [next : Node \cup {NoNode}, pending : Node \cup {NoNode},
               state : WorkflowState, iteration : Nat]

ASSUME CheckpointAssumption == NoCheckpoint \notin Checkpoint

VARIABLES
    checkpoint,     \* what checkpointer.load returns
    run             \* the locals of the run in progress

vars == <<checkpoint, run>>

Run == [pc : {"idle", "top", "executing", "end"},
        current : Node \cup {NoNode}, state : WorkflowState, iteration : Nat]

(* No run in progress. *)
Idle == [pc |-> "idle", current |-> NoNode, state |-> Fresh, iteration |-> 0]

Snapshot(next, pending, state, iteration) ==
    [next |-> next, pending |-> pending, state |-> state, iteration |-> iteration]

TypeOK ==
    /\ checkpoint \in Checkpoint \cup {NoCheckpoint}
    /\ run \in Run

Init ==
    /\ checkpoint = NoCheckpoint
    /\ run = Idle

-----------------------------------------------------------------------------
(* Routing. *)

FirstTarget(indices) ==
    IF indices = {}
      THEN NoNode
      ELSE Edges[CHOOSE i \in indices : \A j \in indices : i <= j].target

ResolveEdge(node, value) ==
    FirstTarget({i \in DOMAIN Edges : /\ Edges[i].source = node
                                      /\ Edges[i].condition \in {Always, value}})

ErrorTarget(node) ==
    FirstTarget({i \in DOMAIN Edges : /\ Edges[i].source = node
                                      /\ Edges[i].condition = OnError})

(* The top of the loop, or past it when there is no node to run. *)
Continue(node, state, iteration) ==
    [pc |-> IF node = NoNode THEN "end" ELSE "top",
     current |-> node, state |-> state, iteration |-> iteration]

-----------------------------------------------------------------------------
(* A call of Graph.run on this id.  A run of a paused id without an answer *)
(* raises the recorded GraphInterrupt at once and changes nothing.         *)

StartFresh ==
    /\ run = Idle
    /\ checkpoint = NoCheckpoint
    /\ run' = Continue(Entry, Fresh, 0)
    /\ UNCHANGED checkpoint

StartSavedUncounted ==
    /\ run = Idle
    /\ checkpoint # NoCheckpoint
    /\ checkpoint.pending = NoNode
    /\ run' = Continue(checkpoint.next, checkpoint.state, 0)
    /\ UNCHANGED checkpoint

StartSaved ==
    /\ run = Idle
    /\ checkpoint # NoCheckpoint
    /\ checkpoint.pending = NoNode
    /\ run' = Continue(checkpoint.next, checkpoint.state, checkpoint.iteration)
    /\ UNCHANGED checkpoint

(* Mutant: the edges are resolved before the answer is written. *)
ResumeOnOldState(answer) ==
    /\ run = Idle
    /\ checkpoint # NoCheckpoint
    /\ checkpoint.pending # NoNode
    /\ LET asker == checkpoint.pending
           answered == [checkpoint.state EXCEPT !.value = answer]
       IN  run' = IF asker \in Nested
                    THEN Continue(asker, checkpoint.state, checkpoint.iteration)
                    ELSE Continue(ResolveEdge(asker, checkpoint.state.value), answered,
                                  checkpoint.iteration)
    /\ UNCHANGED checkpoint

(* run(resume={key: answer}) writes the answer into the state and routes   *)
(* from the node that asked; a node with a nested checkpoint runs again    *)
(* and hands the answer to the nested graph instead.                       *)
Resume(answer) ==
    /\ run = Idle
    /\ checkpoint # NoCheckpoint
    /\ checkpoint.pending # NoNode
    /\ LET asker == checkpoint.pending
           answered == [checkpoint.state EXCEPT !.value = answer]
       IN  run' = IF asker \in Nested
                    THEN Continue(asker, checkpoint.state, checkpoint.iteration)
                    ELSE Continue(ResolveEdge(asker, answer), answered,
                                  checkpoint.iteration)
    /\ UNCHANGED checkpoint

-----------------------------------------------------------------------------
(* The loop. *)

ExceedIterations ==
    /\ run.pc = "top"
    /\ run.iteration >= MaxIterations
    /\ run' = Idle
    /\ UNCHANGED checkpoint

(* Mutants: the node is counted before it has run; it is run and not saved. *)
SaveBeforeNodeCounted ==
    /\ run.pc = "top"
    /\ run.iteration < MaxIterations
    /\ checkpoint' = Snapshot(run.current, NoNode, run.state, run.iteration + 1)
    /\ run' = [run EXCEPT !.pc = "executing", !.iteration = @ + 1]

SaveBeforeNode ==
    /\ run.pc = "top"
    /\ run.iteration < MaxIterations
    /\ checkpoint' = Snapshot(run.current, NoNode, run.state, run.iteration)
    /\ run' = [run EXCEPT !.pc = "executing", !.iteration = @ + 1]

(* The state after the node's update has been merged into it. *)
Merged(value) ==
    [done |-> Append(run.state.done, run.current), value |-> value]

NodeReturns(value) ==
    /\ run.pc = "executing"
    /\ run' = Continue(ResolveEdge(run.current, value), Merged(value), run.iteration)
    /\ UNCHANGED checkpoint

(* Mutant: the goto is not looked up in graph.nodes. *)
NodeReturnsCommandUnchecked(value, goto) ==
    /\ run.pc = "executing"
    /\ goto \in Commands[run.current]
    /\ run' = Continue(IF goto = Stop THEN NoNode ELSE goto, Merged(value), run.iteration)
    /\ UNCHANGED checkpoint

(* A goto that names no node of the graph raises out of the run: the error *)
(* edges are not consulted.                                                *)
NodeReturnsCommand(value, goto) ==
    /\ run.pc = "executing"
    /\ goto \in Commands[run.current]
    /\ run' = CASE goto = Stop    -> Continue(NoNode, Merged(value), run.iteration)
                [] goto \in Node  -> Continue(goto, Merged(value), run.iteration)
                [] OTHER          -> Idle
    /\ UNCHANGED checkpoint

(* Mutant: a pause is not counted. *)
NodeInterruptsUncounted ==
    /\ run.pc = "executing"
    /\ run.current \in Interrupting
    /\ checkpoint' = Snapshot(NoNode, run.current, run.state, run.iteration - 1)
    /\ run' = Idle

NodeInterrupts ==
    /\ run.pc = "executing"
    /\ run.current \in Interrupting
    /\ checkpoint' = Snapshot(NoNode, run.current, run.state, run.iteration)
    /\ run' = Idle

(* Any exception but GraphInterrupt, a node_timeout included. *)
NodeFails ==
    /\ run.pc = "executing"
    /\ LET handler == ErrorTarget(run.current)
       IN  IF handler = NoNode
             THEN /\ run' = Idle
                  /\ UNCHANGED checkpoint
             ELSE /\ checkpoint' = Snapshot(handler, NoNode, run.state, run.iteration)
                  /\ run' = Continue(handler, run.state, run.iteration)

SaveAtEnd ==
    /\ run.pc = "end"
    /\ checkpoint' = Snapshot(NoNode, NoNode, run.state, run.iteration)
    /\ run' = Idle

(* The process dies, the task is cancelled, or a save or a hook raises. *)
Crash ==
    /\ run # Idle
    /\ run' = Idle
    /\ UNCHANGED checkpoint

-----------------------------------------------------------------------------
Start == StartFresh \/ StartSaved \/ \E answer \in Value : Resume(answer)

Step ==
    \/ ExceedIterations
    \/ SaveBeforeNode
    \/ \E value \in Value : NodeReturns(value)
    \/ \E value \in Value, goto \in UNION {Commands[n] : n \in Node} :
         NodeReturnsCommand(value, goto)
    \/ NodeInterrupts
    \/ NodeFails
    \/ SaveAtEnd

Next == Start \/ Step \/ Crash

Spec == Init /\ [][Next]_vars

(* The event loop keeps stepping a run that can step: node_timeout bounds   *)
(* a node, and every other await of the loop is a save or a hook.           *)
FairSpec == Spec /\ WF_vars(Step)

(* ... and the caller keeps running the id, answering when it is paused.    *)
PersistentSpec == FairSpec /\ WF_vars(Start)
-----------------------------------------------------------------------------
(* Properties. *)

Saved == checkpoint # NoCheckpoint
Paused == Saved /\ checkpoint.pending # NoNode
Completed == Saved /\ ~Paused /\ checkpoint.next = NoNode

(* Where the walk may go after a node: along an edge some value matches, to *)
(* the goto of a Command, or nowhere.                                       *)
MayFollow(node) ==
    {ResolveEdge(node, value) : value \in Value}
      \cup (Commands[node] \cap Node)
      \cup (IF Stop \in Commands[node] THEN {NoNode} ELSE {})

(* The checkpoint read as the abstract record of the run. *)
Phase == IF ~Saved THEN "new"
         ELSE IF Paused THEN "paused"
         ELSE IF Completed THEN "done" ELSE "running"

Position == IF ~Saved THEN NoNode
            ELSE IF Paused THEN checkpoint.pending ELSE checkpoint.next

Recorded == IF Saved THEN checkpoint.iteration ELSE 0

Durable == INSTANCE DurableRun WITH
    Successors <- [node \in Node |-> MayFollow(node)],
    Handler <- [node \in Node |-> ErrorTarget(node)],
    Pausing <- Interrupting,
    Reentered <- Nested,
    phase <- Phase,
    at <- Position,
    merged <- IF Saved THEN checkpoint.state.done ELSE <<>>,
    spent <- Recorded

(* A run is never more than one unrecorded step ahead of the checkpoint:    *)
(* a node executes on the very state the checkpoint holds, and at the top   *)
(* of the loop or past its end the run holds that state, or the one that a  *)
(* single returned node or a single answer makes of it.  This is what makes *)
(* dropping the run harmless.                                               *)
OneStepAhead ==
    \/ /\ ~Saved
       /\ run = Continue(Entry, Fresh, 0)
    \/ /\ Saved
       /\ ~Paused
       /\ run = Continue(checkpoint.next, checkpoint.state, checkpoint.iteration)
    \/ /\ Saved
       /\ ~Paused
       /\ checkpoint.next \in Node
       /\ checkpoint.iteration < MaxIterations
       /\ \E value \in Value, node \in MayFollow(checkpoint.next) :
            run = Continue(node, [done |-> Append(checkpoint.state.done, checkpoint.next),
                                  value |-> value], checkpoint.iteration + 1)
    \/ /\ Paused
       /\ checkpoint.pending \in Nested
       /\ run = Continue(checkpoint.pending, checkpoint.state, checkpoint.iteration)
    \/ /\ Paused
       /\ checkpoint.pending \notin Nested
       /\ \E answer \in Value :
            run = Continue(ResolveEdge(checkpoint.pending, answer),
                           [checkpoint.state EXCEPT !.value = answer],
                           checkpoint.iteration)

RunTracksCheckpoint ==
    /\ run.pc = "executing" =>
         /\ run.current \in Node
         /\ run.iteration \in 1..MaxIterations
         /\ checkpoint = Snapshot(run.current, NoNode, run.state, run.iteration - 1)
    /\ run.pc \in {"top", "end"} => OneStepAhead
    /\ run.pc = "idle" => run = Idle

(* Across crashes, restarts and resumes the sequence of checkpoints is one  *)
(* uninterrupted walk of the graph: no save of _execute_impl skips a node,  *)
(* merges one twice, loses a count or reopens a completed run.              *)
ImplementsDurableRun == Durable!Spec

(* The recorded question of a paused run goes away only in the save that    *)
(* also records the answer, and the walk is routed by the recorded answer:  *)
(* a crash between run(resume=...) and that save loses neither.             *)
QuestionLeavesWithItsAnswer ==
    [][ (Paused /\ checkpoint.pending \notin Nested /\ ~Paused') =>
          /\ checkpoint'.next = ResolveEdge(checkpoint.pending, checkpoint'.state.value)
          /\ checkpoint'.state.done = checkpoint.state.done
          /\ checkpoint'.iteration = checkpoint.iteration ]_vars

(* Running a completed id again executes no node: the caller gets the saved *)
(* state.                                                                   *)
CompletedRunsNothing == Completed => run.pc \in {"idle", "end"}

(* max_iterations ends every run, whatever cycles and error edges the graph *)
(* has: a call of Graph.run returns or raises.                              *)
EveryRunEnds == run # Idle ~> run = Idle

(* What keeps a run from finishing other than an unanswered question. *)
Trouble ==
    \/ Crash
    \/ NodeFails
    \/ \E value \in Value, goto \in UNION {Commands[n] : n \in Node} \ (Node \cup {Stop}) :
          NodeReturnsCommand(value, goto)

Exhausted == Saved /\ checkpoint.iteration + 1 >= MaxIterations

(* Once the trouble stops, a caller that keeps running the id, answering it *)
(* when it is paused, gets it completed or runs into max_iterations: no     *)
(* crash leaves a checkpoint nobody can make progress from.                 *)
TroubleDelaysButNeverWedges ==
    <>[][~Trouble]_vars => <>(Completed \/ Exhausted)
=============================================================================
