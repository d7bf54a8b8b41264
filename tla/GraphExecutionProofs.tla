------------------------- MODULE GraphExecutionProofs -------------------------
(***************************************************************************)
(* Proofs about GraphExecution for every graph, every set of values and    *)
(* every max_iterations.  The inductive invariant is TypeOK together with  *)
(* RunTracksCheckpoint; the promise to the caller follows from it.  The    *)
(* last part is about what a caller pays over all the runs of an id: the   *)
(* bounds on the calls of node.execute, for every number of deaths.        *)
(***************************************************************************)
EXTENDS GraphExecutionHistory, WellFoundedInduction, TLAPS

(* A non-empty set of positions in the edge list has a first one. *)
LEMMA FirstExists ==
    ASSUME NEW indices \in SUBSET Nat, indices # {}
    PROVE  \E i \in indices : \A j \in indices : i <= j
<1> DEFINE less == {pair \in Nat \X Nat : pair[1] < pair[2]}
<1>1. IsWellFoundedOn(less, Nat)
  <2>1. less = OpToRel(<, Nat)
    BY DEF OpToRel
  <2> QED
    BY <2>1, NatLessThanWellFounded
<1> HIDE DEF less
<1>2. PICK i \in indices : \A j \in indices : <<j, i>> \notin less
  BY <1>1, WFMin
<1>3. ASSUME NEW j \in indices PROVE i <= j
  <2>1. i \in Nat /\ j \in Nat
    OBVIOUS
  <2>2. <<j, i>> \in Nat \X Nat /\ <<j, i>>[1] = j /\ <<j, i>>[2] = i
    BY <2>1
  <2>3. ~ (j < i)
    BY <1>2, <2>2 DEF less
  <2> QED
    BY <2>1, <2>3
<1> QED
  BY <1>3

(* The first of some edges leads to a node; of none, nowhere. *)
LEMMA FirstTargetType ==
    ASSUME NEW indices \in SUBSET DOMAIN Edges
    PROVE  FirstTarget(indices) \in Node \cup {NoNode}
<1>1. CASE indices = {}
  BY <1>1 DEF FirstTarget
<1>2. CASE indices # {}
  <2>1. DOMAIN Edges \subseteq Nat /\ \A i \in DOMAIN Edges : Edges[i] \in Edge
    BY GraphAssumption
  <2> DEFINE first == CHOOSE i \in indices : \A j \in indices : i <= j
  <2>2. \E i \in indices : \A j \in indices : i <= j
    BY <1>2, <2>1, FirstExists
  <2>3. first \in indices
    BY <2>2
  <2>4. Edges[first].target \in Node
    BY <2>1, <2>3 DEF Edge
  <2> QED
    BY <1>2, <2>4 DEF FirstTarget
<1> QED
  BY <1>1, <1>2

LEMMA RoutingType ==
    /\ \A node \in Node, value \in Value : ResolveEdge(node, value) \in Node \cup {NoNode}
    /\ \A node \in Node : ErrorTarget(node) \in Node \cup {NoNode}
BY FirstTargetType DEF ResolveEdge, ErrorTarget

(* A run record at the top of the loop or past its end is well typed. *)
LEMMA ContinueType ==
    ASSUME NEW node \in Node \cup {NoNode}, NEW state \in WorkflowState,
           NEW iteration \in Nat
    PROVE  /\ Continue(node, state, iteration) \in Run
           /\ Continue(node, state, iteration).pc \in {"top", "end"}
BY DEF Continue, Run

(* What a node merges into the state keeps the state well typed. *)
LEMMA MergedType ==
    ASSUME run \in Run, run.current \in Node, NEW value \in Value
    PROVE  Merged(value) \in WorkflowState
BY DEF Run, WorkflowState, Merged

LEMMA FreshType == Fresh \in WorkflowState /\ Idle \in Run
BY GraphAssumption DEF Fresh, Idle, Run, WorkflowState

LEMMA AnsweredType ==
    ASSUME NEW state \in WorkflowState, NEW answer \in Value
    PROVE  [state EXCEPT !.value = answer] \in WorkflowState
BY DEF WorkflowState

-----------------------------------------------------------------------------
Inv == TypeOK /\ RunTracksCheckpoint

LEMMA InitInv == Init => Inv
<1> SUFFICES ASSUME Init PROVE Inv
  OBVIOUS
<1>1. TypeOK
  BY FreshType DEF Init, TypeOK
<1>2. RunTracksCheckpoint
  BY DEF Init, RunTracksCheckpoint, Idle
<1> QED
  BY <1>1, <1>2 DEF Inv

(* Everything a walk may do after a node leads to a node or ends. *)
LEMMA MayFollowType ==
    ASSUME NEW node \in Node
    PROVE  /\ MayFollow(node) \subseteq Node \cup {NoNode}
           /\ \A value \in Value : ResolveEdge(node, value) \in MayFollow(node)
           /\ \A goto \in Commands[node] : goto \in Node => goto \in MayFollow(node)
           /\ Stop \in Commands[node] => NoNode \in MayFollow(node)
BY RoutingType DEF MayFollow

LEMMA SnapshotType ==
    ASSUME NEW next \in Node \cup {NoNode}, NEW pending \in Node \cup {NoNode},
           NEW state \in WorkflowState, NEW iteration \in Nat
    PROVE  /\ Snapshot(next, pending, state, iteration) \in Checkpoint
           /\ Snapshot(next, pending, state, iteration) # NoCheckpoint
BY CheckpointAssumption DEF Snapshot, Checkpoint

(* A run that starts, or goes on, one step ahead of an unchanged checkpoint *)
(* keeps the invariant.                                                     *)
LEMMA ContinueInv ==
    ASSUME TypeOK, UNCHANGED checkpoint,
           NEW node \in Node \cup {NoNode}, NEW state \in WorkflowState,
           NEW iteration \in Nat,
           run' = Continue(node, state, iteration), OneStepAhead'
    PROVE  Inv'
<1>1. TypeOK'
  BY ContinueType DEF TypeOK
<1>2. run'.pc \in {"top", "end"}
  BY ContinueType
<1> QED
  BY <1>1, <1>2 DEF Inv, RunTracksCheckpoint

(* A run that is dropped keeps it, whatever checkpoint it leaves. *)
LEMMA DropInv ==
    ASSUME checkpoint' \in Checkpoint \cup {NoCheckpoint}, run' = Idle
    PROVE  Inv'
<1>1. TypeOK'
  BY FreshType DEF TypeOK
<1>2. run'.pc = "idle"
  BY DEF Idle
<1> QED
  BY <1>1, <1>2 DEF Inv, RunTracksCheckpoint

LEMMA StartInv == Inv /\ Start => Inv'
<1> SUFFICES ASSUME Inv, Start PROVE Inv'
  OBVIOUS
<1> USE DEF Inv
<1>1. CASE StartFresh
  <2>1. OneStepAhead'
    BY <1>1 DEF StartFresh, OneStepAhead, Saved
  <2> QED
    BY <1>1, <2>1, GraphAssumption, FreshType, ContinueInv DEF StartFresh
<1>2. CASE StartSaved
  <2>1. OneStepAhead'
    BY <1>2 DEF StartSaved, OneStepAhead, Saved, Paused
  <2>2. checkpoint \in Checkpoint
    BY <1>2 DEF StartSaved, TypeOK
  <2> QED
    BY <1>2, <2>1, <2>2, ContinueInv DEF StartSaved, Checkpoint
<1>3. ASSUME NEW answer \in Value, Resume(answer) PROVE Inv'
  <2> DEFINE asker == checkpoint.pending
             answered == [checkpoint.state EXCEPT !.value = answer]
  <2>1. /\ checkpoint \in Checkpoint
        /\ asker \in Node
        /\ checkpoint.state \in WorkflowState
        /\ checkpoint.iteration \in Nat
        /\ Paused
    BY <1>3 DEF Resume, TypeOK, Checkpoint, Paused, Saved
  <2>2. answered \in WorkflowState
    BY <2>1, AnsweredType
  <2>3. CASE asker \in Nested
    <3>1. run' = Continue(asker, checkpoint.state, checkpoint.iteration)
      BY <1>3, <2>3 DEF Resume
    <3>2. OneStepAhead'
      BY <1>3, <2>1, <2>3, <3>1 DEF Resume, OneStepAhead, Paused, Saved
    <3> QED
      BY <1>3, <2>1, <3>1, <3>2, ContinueInv DEF Resume
  <2>4. CASE asker \notin Nested
    <3>1. run' = Continue(ResolveEdge(asker, answer), answered, checkpoint.iteration)
      BY <1>3, <2>4 DEF Resume
    <3>2. OneStepAhead'
      BY <1>3, <2>1, <2>4, <3>1 DEF Resume, OneStepAhead, Paused, Saved
    <3>3. ResolveEdge(asker, answer) \in Node \cup {NoNode}
      BY <2>1, RoutingType
    <3> QED
      BY <1>3, <2>1, <2>2, <3>1, <3>2, <3>3, ContinueInv DEF Resume
  <2> QED
    BY <2>3, <2>4
<1> QED
  BY <1>1, <1>2, <1>3 DEF Start

(* What the invariant says of the run and the checkpoint around a node. *)
LEMMA Executing ==
    ASSUME Inv, run.pc = "executing"
    PROVE  /\ run \in Run
           /\ run.current \in Node
           /\ run.state \in WorkflowState
           /\ run.iteration \in 1..MaxIterations
           /\ checkpoint \in Checkpoint
           /\ checkpoint.next = run.current
           /\ checkpoint.pending = NoNode
           /\ checkpoint.state = run.state
           /\ checkpoint.iteration = run.iteration - 1
           /\ Saved
           /\ ~Paused
<1>1. /\ run \in Run
      /\ run.current \in Node
      /\ run.state \in WorkflowState
      /\ run.iteration \in 1..MaxIterations
      /\ checkpoint = Snapshot(run.current, NoNode, run.state, run.iteration - 1)
  BY DEF Inv, TypeOK, RunTracksCheckpoint, Run
<1>2. run.iteration - 1 \in Nat
  BY <1>1, GraphAssumption
<1>3. checkpoint \in Checkpoint /\ checkpoint # NoCheckpoint
  BY <1>1, <1>2, SnapshotType
<1> QED
  BY <1>1, <1>3 DEF Snapshot, Saved, Paused

(* At the top of the loop there is a node to run. *)
LEMMA AtTop ==
    ASSUME Inv, run.pc = "top"
    PROVE  run \in Run /\ run.current \in Node /\ OneStepAhead
<1>1. run \in Run /\ OneStepAhead
  BY DEF Inv, TypeOK, RunTracksCheckpoint
<1>2. ASSUME NEW node, NEW state, NEW iteration, run = Continue(node, state, iteration)
      PROVE  run.current = node /\ node # NoNode
  BY <1>2 DEF Continue
<1>3. run.current # NoNode
  BY <1>1, <1>2 DEF OneStepAhead
<1> QED
  BY <1>1, <1>3 DEF Run

(* The save before a node: the checkpoint catches up with the run. *)
LEMMA SaveBeforeNodeInv == Inv /\ SaveBeforeNode => Inv'
<1> SUFFICES ASSUME Inv, SaveBeforeNode PROVE Inv'
  OBVIOUS
<1>1. /\ run \in Run /\ run.current \in Node /\ run.state \in WorkflowState
      /\ run.iteration \in Nat /\ run.iteration < MaxIterations
  BY AtTop DEF SaveBeforeNode, Run
<1>2. /\ checkpoint' = Snapshot(run.current, NoNode, run.state, run.iteration)
      /\ run' = [run EXCEPT !.pc = "executing", !.iteration = @ + 1]
  BY DEF SaveBeforeNode
<1>3. /\ run'.pc = "executing"
      /\ run'.current = run.current
      /\ run'.state = run.state
      /\ run'.iteration = run.iteration + 1
      /\ run' \in Run
  <2>1. run.iteration + 1 \in Nat
    BY <1>1
  <2>2. run' = [pc |-> "executing", current |-> run.current, state |-> run.state,
                iteration |-> run.iteration + 1]
    BY <1>1, <1>2 DEF Run
  <2> QED
    BY <1>1, <2>1, <2>2 DEF Run
<1>4. TypeOK'
  BY <1>1, <1>2, <1>3, SnapshotType DEF TypeOK
<1>5. run'.iteration \in 1..MaxIterations /\ run'.iteration - 1 = run.iteration
  BY <1>1, <1>3, GraphAssumption
<1> QED
  BY <1>1, <1>2, <1>3, <1>4, <1>5 DEF Inv, RunTracksCheckpoint

(* The run after a node returned, one step ahead of the checkpoint. *)
LEMMA ReturnedInv ==
    ASSUME Inv, run.pc = "executing", UNCHANGED checkpoint,
           NEW value \in Value, NEW node \in MayFollow(run.current),
           run' = Continue(node, Merged(value), run.iteration)
    PROVE  Inv'
<1>1. /\ run \in Run /\ run.current \in Node /\ run.iteration \in 1..MaxIterations
      /\ checkpoint.next = run.current /\ checkpoint.state = run.state
      /\ checkpoint.iteration = run.iteration - 1
      /\ Saved /\ ~Paused
  BY Executing
<1>2. Merged(value) = [done |-> Append(checkpoint.state.done, checkpoint.next),
                       value |-> value]
  BY <1>1 DEF Merged
<1>3. /\ run.iteration \in Nat
      /\ checkpoint.iteration < MaxIterations
      /\ run.iteration = checkpoint.iteration + 1
  BY <1>1, GraphAssumption
<1>4. run' = Continue(node, [done |-> Append(checkpoint.state.done, checkpoint.next),
                             value |-> value], checkpoint.iteration + 1)
  BY <1>2, <1>3
<1>5. OneStepAhead'
  BY <1>1, <1>3, <1>4 DEF OneStepAhead, Saved, Paused
<1>6. node \in Node \cup {NoNode} /\ Merged(value) \in WorkflowState
  BY <1>1, MayFollowType, MergedType
<1> QED
  BY <1>3, <1>5, <1>6, ContinueInv DEF Inv

LEMMA NodeReturnsInv ==
    ASSUME Inv, NEW value \in Value, NodeReturns(value)
    PROVE  Inv'
<1>1. ResolveEdge(run.current, value) \in MayFollow(run.current)
  BY Executing, MayFollowType DEF NodeReturns
<1> QED
  BY <1>1, ReturnedInv DEF NodeReturns

LEMMA NodeReturnsCommandInv ==
    ASSUME Inv, NEW value \in Value, NEW goto, NodeReturnsCommand(value, goto)
    PROVE  Inv'
<1>1. run.current \in Node /\ goto \in Commands[run.current]
  BY Executing DEF NodeReturnsCommand
<1>2. CASE goto = Stop
  BY <1>1, <1>2, MayFollowType, ReturnedInv DEF NodeReturnsCommand
<1>3. CASE goto \in Node
  <2>1. run' = Continue(goto, Merged(value), run.iteration)
    BY <1>3, GraphAssumption DEF NodeReturnsCommand
  <2> QED
    BY <1>1, <1>3, <2>1, MayFollowType, ReturnedInv DEF NodeReturnsCommand
<1>4. CASE goto # Stop /\ goto \notin Node
  <2>1. run' = Idle /\ UNCHANGED checkpoint
    BY <1>4 DEF NodeReturnsCommand
  <2> QED
    BY <2>1, DropInv DEF Inv, TypeOK
<1> QED
  BY <1>2, <1>3, <1>4

LEMMA NodeInterruptsInv == Inv /\ NodeInterrupts => Inv'
<1> SUFFICES ASSUME Inv, NodeInterrupts PROVE Inv'
  OBVIOUS
<1>1. run.current \in Node /\ run.state \in WorkflowState /\ run.iteration \in Nat
  BY Executing, GraphAssumption DEF NodeInterrupts
<1>2. checkpoint' \in Checkpoint
  BY <1>1, SnapshotType DEF NodeInterrupts
<1> QED
  BY <1>2, DropInv DEF NodeInterrupts

LEMMA NodeFailsInv == Inv /\ NodeFails => Inv'
<1> SUFFICES ASSUME Inv, NodeFails PROVE Inv'
  OBVIOUS
<1> DEFINE handler == ErrorTarget(run.current)
<1>1. /\ run.current \in Node /\ run.state \in WorkflowState /\ run.iteration \in Nat
      /\ handler \in Node \cup {NoNode}
  BY Executing, GraphAssumption, RoutingType DEF NodeFails
<1>2. CASE handler = NoNode
  BY <1>2, DropInv DEF NodeFails, Inv, TypeOK
<1>3. CASE handler # NoNode
  <2>1. /\ checkpoint' = Snapshot(handler, NoNode, run.state, run.iteration)
        /\ run' = Continue(handler, run.state, run.iteration)
    BY <1>3 DEF NodeFails
  <2>2. checkpoint' \in Checkpoint /\ checkpoint' # NoCheckpoint
    BY <1>1, <2>1, SnapshotType
  <2>3. run' \in Run /\ run'.pc \in {"top", "end"}
    BY <1>1, <2>1, ContinueType
  <2>4. OneStepAhead'
    BY <2>1, <2>2 DEF OneStepAhead, Saved, Paused, Snapshot
  <2> QED
    BY <2>2, <2>3, <2>4 DEF Inv, TypeOK, RunTracksCheckpoint
<1> QED
  BY <1>2, <1>3

LEMMA SaveAtEndInv == Inv /\ SaveAtEnd => Inv'
<1> SUFFICES ASSUME Inv, SaveAtEnd PROVE Inv'
  OBVIOUS
<1>1. run.state \in WorkflowState /\ run.iteration \in Nat
  BY DEF Inv, TypeOK, Run
<1>2. checkpoint' \in Checkpoint
  BY <1>1, SnapshotType DEF SaveAtEnd
<1> QED
  BY <1>2, DropInv DEF SaveAtEnd

LEMMA NextInv == Inv /\ [Next]_vars => Inv'
<1> SUFFICES ASSUME Inv, [Next]_vars PROVE Inv'
  OBVIOUS
<1>1. CASE Start
  BY <1>1, StartInv
<1>2. CASE ExceedIterations \/ Crash
  BY <1>2, DropInv DEF ExceedIterations, Crash, Inv, TypeOK
<1>3. CASE SaveBeforeNode
  BY <1>3, SaveBeforeNodeInv
<1>4. ASSUME NEW value \in Value, NodeReturns(value) PROVE Inv'
  BY <1>4, NodeReturnsInv
<1>5. ASSUME NEW value \in Value, NEW goto, NodeReturnsCommand(value, goto) PROVE Inv'
  BY <1>5, NodeReturnsCommandInv
<1>6. CASE NodeInterrupts
  BY <1>6, NodeInterruptsInv
<1>7. CASE NodeFails
  BY <1>7, NodeFailsInv
<1>8. CASE SaveAtEnd
  BY <1>8, SaveAtEndInv
<1>9. CASE UNCHANGED vars
  BY <1>9 DEF vars, Inv, TypeOK, RunTracksCheckpoint, OneStepAhead, Saved, Paused
<1> QED
  BY <1>1, <1>2, <1>3, <1>4, <1>5, <1>6, <1>7, <1>8, <1>9 DEF Next, Step

(* The checkpoint and the locals of a run keep their types. *)
THEOREM TypeCorrect == Spec => []TypeOK
<1>1. Inv => TypeOK
  BY DEF Inv
<1> QED
  BY <1>1, InitInv, NextInv, PTL DEF Spec

(* A run is never more than one unrecorded step ahead of its checkpoint. *)
THEOREM RunsTrackCheckpoints == Spec => []RunTracksCheckpoint
<1>1. Inv => RunTracksCheckpoint
  BY DEF Inv
<1> QED
  BY <1>1, InitInv, NextInv, PTL DEF Spec

(* Running a completed id again executes no node. *)
THEOREM CompletedStaysQuiet == Spec => []CompletedRunsNothing
<1>1. Inv => CompletedRunsNothing
  <2> SUFFICES ASSUME Inv, Completed PROVE run.pc \in {"idle", "end"}
    BY DEF CompletedRunsNothing
  <2>1. run.pc # "executing"
    BY Executing, GraphAssumption DEF Completed
  <2>2. run.pc # "top"
    <3> SUFFICES ASSUME run.pc = "top" PROVE FALSE
      OBVIOUS
    <3>1. run = Continue(NoNode, checkpoint.state, checkpoint.iteration)
      BY AtTop, GraphAssumption DEF OneStepAhead, Completed
    <3> QED
      BY <3>1 DEF Continue
  <2> QED
    BY <2>1, <2>2 DEF Inv, TypeOK, Run
<1> QED
  BY <1>1, InitInv, NextInv, PTL DEF Spec

-----------------------------------------------------------------------------
(* The refinement of DurableRun. *)

(* How a checkpoint that names a node to run, or none, reads. *)
LEMMA SnapshotReads ==
    ASSUME NEW next \in Node \cup {NoNode}, NEW state \in WorkflowState,
           NEW iteration \in Nat,
           checkpoint' = Snapshot(next, NoNode, state, iteration)
    PROVE  /\ Saved' /\ ~Paused'
           /\ Phase' = IF next = NoNode THEN "done" ELSE "running"
           /\ Position' = next
           /\ Recorded' = iteration
           /\ checkpoint'.state.done = state.done
<1>1. checkpoint' # NoCheckpoint
  BY SnapshotType
<1> QED
  BY <1>1 DEF Saved, Paused, Completed, Phase, Position, Recorded, Snapshot

(* A step that leaves the checkpoint alone does not show. *)
LEMMA UnchangedReads ==
    UNCHANGED checkpoint => UNCHANGED Durable!durable
BY DEF Durable!durable, Saved, Paused, Completed, Phase, Position, Recorded

(* At the top of the loop and past its end the run holds the recorded       *)
(* state, or the one an abstract step makes of it: saving what it holds is  *)
(* that step or a stutter.                                                  *)
LEMMA CatchUp ==
    ASSUME Inv, run.pc \in {"top", "end"},
           checkpoint' = Snapshot(run.current, NoNode, run.state, run.iteration)
    PROVE  [Durable!Next]_(Durable!durable)
<1> USE DEF Inv
<1>1. /\ OneStepAhead
      /\ run.current \in Node \cup {NoNode}
      /\ run.state \in WorkflowState
      /\ run.iteration \in Nat
  BY DEF TypeOK, RunTracksCheckpoint, Run
<1>2. /\ Saved' /\ ~Paused'
      /\ Phase' = IF run.current = NoNode THEN "done" ELSE "running"
      /\ Position' = run.current
      /\ Recorded' = run.iteration
      /\ checkpoint'.state.done = run.state.done
  BY <1>1, SnapshotReads
<1>3. CASE ~Saved /\ run = Continue(Entry, Fresh, 0)
  <2>1. run.current = Entry /\ run.state.done = <<>> /\ run.iteration = 0
    BY <1>3 DEF Continue, Fresh
  <2>2. Phase = "new" /\ Position = NoNode /\ Recorded = 0
    BY <1>3 DEF Phase, Position, Recorded
  <2>3. Durable!Begin
    BY <1>2, <1>3, <2>1, <2>2 DEF Durable!Begin, Durable!MoveTo
  <2> QED
    BY <2>3 DEF Durable!Next
<1>4. CASE /\ Saved /\ ~Paused
           /\ run = Continue(checkpoint.next, checkpoint.state, checkpoint.iteration)
  <2>1. /\ run.current = checkpoint.next
        /\ run.state = checkpoint.state
        /\ run.iteration = checkpoint.iteration
    BY <1>4 DEF Continue
  <2>2. /\ Phase = IF checkpoint.next = NoNode THEN "done" ELSE "running"
        /\ Position = checkpoint.next
        /\ Recorded = checkpoint.iteration
    BY <1>4 DEF Phase, Position, Recorded, Completed
  <2> QED
    BY <1>2, <1>4, <2>1, <2>2 DEF Durable!durable
<1>5. CASE /\ Saved /\ ~Paused
           /\ checkpoint.next \in Node
           /\ checkpoint.iteration < MaxIterations
           /\ \E value \in Value, node \in MayFollow(checkpoint.next) :
                run = Continue(node, [done |-> Append(checkpoint.state.done, checkpoint.next),
                                      value |-> value], checkpoint.iteration + 1)
  <2>1. PICK value \in Value, node \in MayFollow(checkpoint.next) :
          run = Continue(node, [done |-> Append(checkpoint.state.done, checkpoint.next),
                                value |-> value], checkpoint.iteration + 1)
    BY <1>5
  <2>2. /\ run.current = node
        /\ run.state.done = Append(checkpoint.state.done, checkpoint.next)
        /\ run.iteration = checkpoint.iteration + 1
    BY <2>1 DEF Continue
  <2>3. /\ Phase = "running"
        /\ Position = checkpoint.next
        /\ Recorded = checkpoint.iteration
    BY <1>5, GraphAssumption DEF Phase, Position, Recorded, Completed
  <2>4. Durable!Spend
    BY <1>2, <1>5, <2>2, <2>3 DEF Durable!Spend
  <2>5. Durable!MoveTo(node)
    BY <1>2, <2>2 DEF Durable!MoveTo
  <2>6. node \in [n \in Node |-> MayFollow(n)][Position]
    BY <1>5, <2>3
  <2>7. Durable!Complete
    BY <1>2, <1>5, <2>2, <2>3, <2>4, <2>5, <2>6 DEF Durable!Complete
  <2> QED
    BY <2>7 DEF Durable!Next
<1>6. CASE /\ Paused /\ checkpoint.pending \in Nested
           /\ run = Continue(checkpoint.pending, checkpoint.state, checkpoint.iteration)
  <2>1. /\ run.current = checkpoint.pending
        /\ run.state = checkpoint.state
        /\ run.iteration = checkpoint.iteration
    BY <1>6 DEF Continue
  <2>2. /\ Phase = "paused" /\ Position = checkpoint.pending
        /\ Recorded = checkpoint.iteration /\ Saved
    BY <1>6 DEF Phase, Position, Recorded, Paused
  <2>3. Durable!Answer
    BY <1>2, <1>6, <2>1, <2>2 DEF Durable!Answer, Durable!MoveTo
  <2> QED
    BY <2>3 DEF Durable!Next
<1>7. CASE /\ Paused /\ checkpoint.pending \notin Nested
           /\ \E answer \in Value :
                run = Continue(ResolveEdge(checkpoint.pending, answer),
                               [checkpoint.state EXCEPT !.value = answer],
                               checkpoint.iteration)
  <2>1. PICK answer \in Value :
          run = Continue(ResolveEdge(checkpoint.pending, answer),
                         [checkpoint.state EXCEPT !.value = answer],
                         checkpoint.iteration)
    BY <1>7
  <2>2. /\ checkpoint \in Checkpoint /\ checkpoint.pending \in Node
        /\ checkpoint.state \in WorkflowState
    BY <1>7 DEF Paused, Saved, TypeOK, Checkpoint
  <2>3. /\ run.current = ResolveEdge(checkpoint.pending, answer)
        /\ run.state.done = checkpoint.state.done
        /\ run.iteration = checkpoint.iteration
    BY <2>1, <2>2 DEF Continue, WorkflowState
  <2>4. /\ Phase = "paused" /\ Position = checkpoint.pending
        /\ Recorded = checkpoint.iteration /\ Saved
    BY <1>7 DEF Phase, Position, Recorded, Paused
  <2>5. run.current \in [n \in Node |-> MayFollow(n)][Position]
    BY <2>2, <2>3, <2>4, MayFollowType
  <2>6. Durable!MoveTo(run.current)
    BY <1>2 DEF Durable!MoveTo
  <2>7. Durable!Answer
    BY <1>2, <1>7, <2>3, <2>4, <2>5, <2>6 DEF Durable!Answer
  <2> QED
    BY <2>7 DEF Durable!Next
<1> QED
  BY <1>1, <1>3, <1>4, <1>5, <1>6, <1>7 DEF OneStepAhead

(* A run past its end has no node. *)
LEMMA AtEnd ==
    ASSUME Inv, run.pc = "end"
    PROVE  run.current = NoNode
<1>1. OneStepAhead
  BY DEF Inv, RunTracksCheckpoint
<1>2. ASSUME NEW node, NEW state, NEW iteration, run = Continue(node, state, iteration)
      PROVE  run.current = NoNode
  BY <1>2 DEF Continue
<1> QED
  BY <1>1, <1>2 DEF OneStepAhead

(* While a node executes the abstract run stands at that node. *)
LEMMA ExecutingReads ==
    ASSUME Inv, run.pc = "executing"
    PROVE  /\ Phase = "running"
           /\ Position = run.current
           /\ Recorded = run.iteration - 1
           /\ Recorded < MaxIterations
           /\ run.iteration = Recorded + 1
BY Executing, GraphAssumption DEF Phase, Position, Recorded, Completed

LEMMA PauseStep ==
    ASSUME Inv, NodeInterrupts
    PROVE  Durable!Pause
<1>1. /\ run.pc = "executing" /\ run.current \in Interrupting
      /\ checkpoint' = Snapshot(NoNode, run.current, run.state, run.iteration)
  BY DEF NodeInterrupts
<1>2. /\ run.current \in Node /\ run.state \in WorkflowState /\ run.iteration \in Nat
      /\ checkpoint.state = run.state /\ Saved
  BY <1>1, Executing, GraphAssumption
<1>3. checkpoint' # NoCheckpoint
  BY <1>1, <1>2, SnapshotType
<1>4. /\ Saved' /\ Phase' = "paused" /\ Position' = run.current
      /\ Recorded' = run.iteration /\ checkpoint'.state = run.state
  BY <1>1, <1>2, <1>3, GraphAssumption DEF Saved, Paused, Phase, Position, Recorded, Snapshot
<1>5. Durable!Spend
  BY <1>1, <1>4, ExecutingReads DEF Durable!Spend
<1> QED
  BY <1>1, <1>2, <1>4, <1>5, ExecutingReads DEF Durable!Pause

LEMMA FailStep ==
    ASSUME Inv, NodeFails
    PROVE  [Durable!Next]_(Durable!durable)
<1> DEFINE handler == ErrorTarget(run.current)
<1>1. /\ run.pc = "executing" /\ run.current \in Node /\ run.state \in WorkflowState
      /\ run.iteration \in Nat /\ handler \in Node \cup {NoNode}
      /\ checkpoint.state = run.state /\ Saved
  BY Executing, GraphAssumption, RoutingType DEF NodeFails
<1>2. CASE handler = NoNode
  BY <1>2, UnchangedReads DEF NodeFails
<1>3. CASE handler # NoNode
  <2>1. checkpoint' = Snapshot(handler, NoNode, run.state, run.iteration)
    BY <1>3 DEF NodeFails
  <2>2. /\ Saved' /\ Phase' = "running" /\ Position' = handler
        /\ Recorded' = run.iteration /\ checkpoint'.state.done = run.state.done
    BY <1>1, <1>3, <2>1, SnapshotReads
  <2>3. [node \in Node |-> ErrorTarget(node)][Position] = handler
    BY <1>1, ExecutingReads
  <2>4. Durable!Spend
    BY <1>1, <2>2, ExecutingReads DEF Durable!Spend
  <2>5. Durable!MoveTo(handler)
    BY <1>3, <2>2 DEF Durable!MoveTo
  <2>6. Durable!Recover
    BY <1>1, <1>3, <2>2, <2>3, <2>4, <2>5 DEF Durable!Recover
  <2> QED
    BY <2>6 DEF Durable!Next
<1> QED
  BY <1>2, <1>3

LEMMA RefinementStep == Inv /\ [Next]_vars => [Durable!Next]_(Durable!durable)
<1> SUFFICES ASSUME Inv, [Next]_vars PROVE [Durable!Next]_(Durable!durable)
  OBVIOUS
<1>1. CASE Start \/ ExceedIterations \/ Crash
  BY <1>1, UnchangedReads DEF Start, StartFresh, StartSaved, Resume, ExceedIterations, Crash
<1>2. ASSUME NEW value \in Value, NodeReturns(value)
      PROVE  [Durable!Next]_(Durable!durable)
  BY <1>2, UnchangedReads DEF NodeReturns
<1>3. ASSUME NEW value \in Value, NEW goto, NodeReturnsCommand(value, goto)
      PROVE  [Durable!Next]_(Durable!durable)
  BY <1>3, UnchangedReads DEF NodeReturnsCommand
<1>4. CASE SaveBeforeNode
  BY <1>4, CatchUp DEF SaveBeforeNode
<1>5. CASE SaveAtEnd
  BY <1>5, AtEnd, CatchUp DEF SaveAtEnd
<1>6. CASE NodeInterrupts
  BY <1>6, PauseStep DEF Durable!Next
<1>7. CASE NodeFails
  BY <1>7, FailStep
<1>8. CASE UNCHANGED vars
  BY <1>8, UnchangedReads DEF vars
<1> QED
  BY <1>1, <1>2, <1>3, <1>4, <1>5, <1>6, <1>7, <1>8 DEF Next, Step

(* Whatever the graph and wherever runs die, the sequence of checkpoints of *)
(* an id is an uninterrupted walk of the graph.                             *)
THEOREM Refinement == Spec => ImplementsDurableRun
<1>1. Init => Durable!Init
  BY DEF Init, Durable!Init, Saved, Phase, Position, Recorded
<1> QED
  BY <1>1, InitInv, NextInv, RefinementStep, PTL
  DEF Spec, Durable!Spec, ImplementsDurableRun

-----------------------------------------------------------------------------
(* A question leaves the record only together with its answer: the save of  *)
(* the answered run is the only one that can follow a paused checkpoint.    *)
THEOREM QuestionsAreAnswered == Spec => QuestionLeavesWithItsAnswer
<1> DEFINE Leaves ==
      (Paused /\ checkpoint.pending \notin Nested /\ ~Paused') =>
        /\ checkpoint'.next = ResolveEdge(checkpoint.pending, checkpoint'.state.value)
        /\ checkpoint'.state.done = checkpoint.state.done
        /\ checkpoint'.iteration = checkpoint.iteration
<1>1. Inv /\ [Next]_vars => [Leaves]_vars
  <2> SUFFICES ASSUME Inv, Next, Paused, checkpoint.pending \notin Nested, ~Paused'
               PROVE  /\ checkpoint'.next = ResolveEdge(checkpoint.pending,
                                                        checkpoint'.state.value)
                      /\ checkpoint'.state.done = checkpoint.state.done
                      /\ checkpoint'.iteration = checkpoint.iteration
    OBVIOUS
  <2>1. checkpoint' # checkpoint
    BY DEF Paused, Saved
  <2>2. run.pc # "executing"
    BY Executing
  <2>3. SaveBeforeNode \/ SaveAtEnd
    BY <2>1, <2>2 DEF Next, Step, Start, StartFresh, StartSaved, Resume, ExceedIterations,
                      NodeReturns, NodeReturnsCommand, NodeInterrupts, NodeFails, Crash
  <2>4. /\ run.pc \in {"top", "end"}
        /\ checkpoint' = Snapshot(run.current, NoNode, run.state, run.iteration)
    BY <2>3, AtEnd DEF SaveBeforeNode, SaveAtEnd
  <2>5. PICK answer \in Value :
          run = Continue(ResolveEdge(checkpoint.pending, answer),
                         [checkpoint.state EXCEPT !.value = answer],
                         checkpoint.iteration)
    BY <2>4 DEF Inv, RunTracksCheckpoint, OneStepAhead, Paused
  <2>6. checkpoint.state \in WorkflowState
    BY DEF Inv, TypeOK, Paused, Saved, Checkpoint
  <2>7. /\ run.current = ResolveEdge(checkpoint.pending, answer)
        /\ run.state.value = answer
        /\ run.state.done = checkpoint.state.done
        /\ run.iteration = checkpoint.iteration
    BY <2>5, <2>6 DEF Continue, WorkflowState
  <2> QED
    BY <2>4, <2>7 DEF Snapshot
<1> QED
  BY <1>1, InitInv, NextInv, PTL DEF Spec, QuestionLeavesWithItsAnswer

-----------------------------------------------------------------------------
(* The accounts: a run counts the executions on from the checkpoint, and is *)
(* at most one ahead of it.                                                 *)
Accounts ==
    /\ executions \in Nat
    /\ deaths \in Nat
    /\ Recorded <= MaxIterations
    /\ run = Idle => executions <= Recorded + deaths
    /\ run # Idle => executions <= run.iteration + deaths

HistoryInv == Inv /\ Accounts

(* How far ahead of the checkpoint a run counts. *)
LEMMA RunAhead ==
    ASSUME Inv
    PROVE  /\ Recorded \in Nat
           /\ run.iteration \in Nat
           /\ run = Idle <=> run.pc = "idle"
           /\ run.pc \in {"top", "end"} =>
                \/ run.iteration = Recorded
                \/ run.iteration = Recorded + 1 /\ Recorded < MaxIterations
           /\ run.pc = "executing" => /\ run.iteration = Recorded + 1
                                      /\ run.iteration <= MaxIterations
<1>1. Recorded \in Nat /\ run.iteration \in Nat
  BY DEF Inv, TypeOK, Recorded, Saved, Checkpoint, Run
<1>2. run = Idle <=> run.pc = "idle"
  BY DEF Inv, RunTracksCheckpoint, Idle
<1>3. ASSUME run.pc \in {"top", "end"}
      PROVE  \/ run.iteration = Recorded
             \/ run.iteration = Recorded + 1 /\ Recorded < MaxIterations
  <2>1. OneStepAhead
    BY <1>3 DEF Inv, RunTracksCheckpoint
  <2> QED
    BY <2>1 DEF OneStepAhead, Recorded, Paused, Saved, Continue
<1>4. ASSUME run.pc = "executing"
      PROVE  run.iteration = Recorded + 1 /\ run.iteration <= MaxIterations
  BY <1>4, Executing, GraphAssumption DEF Recorded
<1> QED
  BY <1>1, <1>2, <1>3, <1>4

(* The run counter of a step that starts, continues or saves. *)
LEMMA RunOfContinue ==
    ASSUME NEW node, NEW state, NEW iteration
    PROVE  /\ Continue(node, state, iteration) # Idle
           /\ Continue(node, state, iteration).iteration = iteration
BY DEF Continue, Idle

LEMMA RecordedOfSnapshot ==
    ASSUME NEW next \in Node \cup {NoNode}, NEW pending \in Node \cup {NoNode},
           NEW state \in WorkflowState, NEW iteration \in Nat,
           checkpoint' = Snapshot(next, pending, state, iteration)
    PROVE  Recorded' = iteration
<1>1. checkpoint' # NoCheckpoint /\ checkpoint'.iteration = iteration
  BY SnapshotType DEF Snapshot
<1> QED
  BY <1>1 DEF Recorded, Saved

LEMMA RecordedUnchanged == UNCHANGED checkpoint => Recorded' = Recorded
BY DEF Recorded, Saved

LEMMA RestartAccounts == Inv /\ Accounts /\ Restart => Accounts'
<1> SUFFICES ASSUME Inv, Accounts, Restart PROVE Accounts'
  OBVIOUS
<1>1. /\ Start /\ run = Idle /\ UNCHANGED <<checkpoint, executions, deaths>>
  BY DEF Restart, history, Start, StartFresh, StartSaved, Resume
<1>2. run' # Idle /\ run'.iteration = Recorded
  <2>1. CASE StartFresh
    BY <2>1, RunOfContinue DEF StartFresh, Recorded, Saved
  <2>2. CASE StartSaved
    BY <2>2, RunOfContinue DEF StartSaved, Recorded, Saved
  <2>3. ASSUME NEW answer \in Value, Resume(answer)
        PROVE  run' # Idle /\ run'.iteration = Recorded
    <3>1. CASE checkpoint.pending \in Nested
      BY <2>3, <3>1, RunOfContinue DEF Resume, Recorded, Saved
    <3>2. CASE checkpoint.pending \notin Nested
      BY <2>3, <3>2, RunOfContinue DEF Resume, Recorded, Saved
    <3> QED
      BY <3>1, <3>2
  <2> QED
    BY <1>1, <2>1, <2>2, <2>3 DEF Start
<1> QED
  BY <1>1, <1>2, RecordedUnchanged DEF Accounts

LEMMA ExecuteAccounts == Inv /\ Accounts /\ Execute => Accounts'
<1> SUFFICES ASSUME Inv, Accounts, Execute PROVE Accounts'
  OBVIOUS
<1>1. /\ run.pc = "top" /\ run \in Run /\ run.current \in Node /\ run # Idle
      /\ run.iteration \in Nat /\ run.iteration < MaxIterations
      /\ executions' = executions + 1 /\ deaths' = deaths
      /\ checkpoint' = Snapshot(run.current, NoNode, run.state, run.iteration)
      /\ run' = [run EXCEPT !.pc = "executing", !.iteration = @ + 1]
  BY AtTop, RunAhead DEF Execute, SaveBeforeNode
<1>2. Recorded' = run.iteration
  BY <1>1, RecordedOfSnapshot DEF Run
<1>3. run' # Idle /\ run'.iteration = run.iteration + 1
  BY <1>1 DEF Run, Idle
<1> QED
  BY <1>1, <1>2, <1>3, GraphAssumption DEF Accounts

(* A step after which the run is gone and the checkpoint as before. *)
LEMMA DeathAccounts ==
    ASSUME Inv, Accounts, run # Idle, run' = Idle, UNCHANGED <<checkpoint, executions>>,
           deaths' = deaths + 1
    PROVE  Accounts'
<1>1. /\ Recorded \in Nat /\ run.iteration \in Nat
      /\ run.iteration <= Recorded + 1
  <2>1. run.pc # "idle" /\ run.pc \in {"idle", "top", "executing", "end"}
    BY RunAhead DEF Inv, TypeOK, Run
  <2> QED
    BY <2>1, RunAhead
<1>2. executions <= run.iteration + deaths
  BY DEF Accounts
<1> QED
  BY <1>1, <1>2, RecordedUnchanged DEF Accounts

LEMMA ReturnAccounts == Inv /\ Accounts /\ Return => Accounts'
<1> SUFFICES ASSUME Inv, Accounts, Return PROVE Accounts'
  OBVIOUS
<1>1. /\ run.pc = "executing" /\ run # Idle /\ UNCHANGED <<checkpoint, executions>>
      /\ \/ run' = Idle
         \/ run' # Idle /\ run'.iteration = run.iteration
  BY RunOfContinue, RunAhead DEF Return, NodeReturns, NodeReturnsCommand
<1>2. CASE run' = Idle
  BY <1>1, <1>2, DeathAccounts DEF Return, CountDeath
<1>3. CASE run' # Idle
  BY <1>1, <1>3, RecordedUnchanged DEF Accounts, Return, CountDeath
<1> QED
  BY <1>2, <1>3

(* A step that records the executing node's iteration. *)
LEMMA RecordExecution ==
    ASSUME Inv, Accounts, run.pc = "executing", UNCHANGED <<executions, deaths>>,
           Recorded' = run.iteration,
           run' = Idle \/ run'.iteration = run.iteration
    PROVE  Accounts'
BY RunAhead DEF Accounts

LEMMA FailAccounts == Inv /\ Accounts /\ Fail => Accounts'
<1> SUFFICES ASSUME Inv, Accounts, Fail PROVE Accounts'
  OBVIOUS
<1> DEFINE handler == ErrorTarget(run.current)
<1>1. /\ run.pc = "executing" /\ run # Idle /\ UNCHANGED executions
      /\ run.current \in Node /\ run.state \in WorkflowState /\ run.iteration \in Nat
      /\ handler \in Node \cup {NoNode}
  BY RunAhead, Executing, RoutingType DEF Fail, NodeFails
<1>2. CASE handler = NoNode
  BY <1>1, <1>2, DeathAccounts DEF Fail, NodeFails, CountDeath
<1>3. CASE handler # NoNode
  <2>1. /\ checkpoint' = Snapshot(handler, NoNode, run.state, run.iteration)
        /\ run' = Continue(handler, run.state, run.iteration)
    BY <1>3 DEF Fail, NodeFails
  <2>2. Recorded' = run.iteration
    BY <1>1, <2>1, RecordedOfSnapshot
  <2>3. run' # Idle /\ run'.iteration = run.iteration
    BY <2>1, RunOfContinue
  <2> QED
    BY <1>1, <2>2, <2>3, RecordExecution DEF Fail, CountDeath
<1> QED
  BY <1>2, <1>3

LEMMA SettleAccounts == Inv /\ Accounts /\ Settle => Accounts'
<1> SUFFICES ASSUME Inv, Accounts, Settle PROVE Accounts'
  OBVIOUS
<1>1. CASE NodeInterrupts
  <2>1. Recorded' = run.iteration
    BY <1>1, Executing, RunAhead, RecordedOfSnapshot DEF NodeInterrupts
  <2> QED
    BY <1>1, <2>1, RecordExecution DEF NodeInterrupts, Settle, history
<1>2. CASE SaveAtEnd
  <2>1. run.state \in WorkflowState /\ run.iteration \in Nat /\ run # Idle
    BY <1>2, RunAhead DEF SaveAtEnd, Inv, TypeOK, Run
  <2>2. Recorded' = run.iteration
    BY <1>2, <2>1, RecordedOfSnapshot DEF SaveAtEnd
  <2> QED
    BY <1>2, <2>1, <2>2, RunAhead, GraphAssumption DEF SaveAtEnd, Settle, history, Accounts
<1> QED
  BY <1>1, <1>2 DEF Settle

LEMMA HistoryNextInv == HistoryInv /\ [HistoryNext]_<<vars, history>> => HistoryInv'
<1> SUFFICES ASSUME HistoryInv, [HistoryNext]_<<vars, history>> PROVE HistoryInv'
  OBVIOUS
<1> USE DEF HistoryInv
<1>1. [Next]_vars
  BY DEF HistoryNext, Restart, Execute, Return, Fail, Exceed, Killed,
         Settle, Next, Step, history
<1>2. Inv'
  BY <1>1, NextInv
<1>3. Accounts'
  <2>1. CASE Restart
    BY <2>1, RestartAccounts
  <2>2. CASE Execute
    BY <2>2, ExecuteAccounts
  <2>3. CASE Return
    BY <2>3, ReturnAccounts
  <2>4. CASE Fail
    BY <2>4, FailAccounts
  <2>5. CASE Exceed
    <3>1. run # Idle
      BY <2>5, RunAhead DEF Exceed, ExceedIterations
    <3> QED
      BY <2>5, <3>1, DeathAccounts DEF Exceed, ExceedIterations
  <2>6. CASE Killed
    BY <2>6, DeathAccounts DEF Killed, Crash
  <2>7. CASE Settle
    BY <2>7, SettleAccounts
  <2>8. CASE UNCHANGED <<vars, history>>
    BY <2>8, RecordedUnchanged DEF vars, history, Accounts
  <2> QED
    BY <2>1, <2>2, <2>3, <2>4, <2>5, <2>6, <2>7, <2>8 DEF HistoryNext
<1> QED
  BY <1>2, <1>3

LEMMA HistoryInitInv == HistoryInit => HistoryInv
<1> SUFFICES ASSUME HistoryInit PROVE HistoryInv
  OBVIOUS
<1>1. Inv
  BY InitInv DEF HistoryInit
<1>2. Accounts
  BY GraphAssumption DEF HistoryInit, Init, Accounts, Recorded, Saved
<1> QED
  BY <1>1, <1>2 DEF HistoryInv

(* Every call of node.execute is recorded, in flight, or the last of a run  *)
(* that died.                                                               *)
THEOREM DeathsRepeatAtMostOneNode == HistorySpec => []EachDeathRepeatsAtMostOneNode
<1>1. HistoryInv => EachDeathRepeatsAtMostOneNode
  <2> SUFFICES ASSUME HistoryInv PROVE EachDeathRepeatsAtMostOneNode
    OBVIOUS
  <2>1. run.pc \in {"idle", "top", "executing", "end"}
    BY DEF HistoryInv, Inv, TypeOK, Run
  <2> QED
    BY <2>1, RunAhead DEF HistoryInv, Accounts, EachDeathRepeatsAtMostOneNode
<1> QED
  BY <1>1, HistoryInitInv, HistoryNextInv, PTL DEF HistorySpec

(* max_iterations bounds the calls over all the runs of an id. *)
THEOREM IterationsBoundTheId == HistorySpec => []IterationsBoundAllRuns
<1>1. HistoryInv => IterationsBoundAllRuns
  <2> SUFFICES ASSUME HistoryInv PROVE IterationsBoundAllRuns
    OBVIOUS
  <2>1. run.pc \in {"idle", "top", "executing", "end"}
    BY DEF HistoryInv, Inv, TypeOK, Run
  <2> QED
    BY <2>1, RunAhead, GraphAssumption DEF HistoryInv, Accounts, IterationsBoundAllRuns
<1> QED
  BY <1>1, HistoryInitInv, HistoryNextInv, PTL DEF HistorySpec
===============================================================================
