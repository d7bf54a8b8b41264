------------------------------ MODULE TasksProofs ------------------------------
(***************************************************************************)
(* Proofs about work that runs under other work, for every number of       *)
(* inputs, branches, chunks, rounds and attempts: a visit of a sub-flow is *)
(* whole, the branches of a Parallel node stay apart, and a node that      *)
(* repeats returns the work of its last attempt.                           *)
(***************************************************************************)
EXTENDS SubFlow, ParallelBranches, RepeatingNodes, SequenceTheorems,
        WellFoundedInduction, TLAPS

(* The types of the two records and of the locals of both runs. *)
SubCalls ==
    [pc : {"idle", "top", "running", "innerTop", "innerRunning", "returned", "interrupted"},
     node : ParentNode \cup {NoNode}, state : State, resume : BOOLEAN,
     inner : NestedNode \cup {NoNode}, innerState : State]

SubFlowTypeOK ==
    /\ parent \in Record(ParentNode) \cup {NoCheckpoint}
    /\ nested \in Record(NestedNode) \cup {NoCheckpoint}
    /\ call \in SubCalls
    /\ strayed \in SUBSET {"failure", "answer"}

(* What a state has by the node of the nested run that it is given to. *)
InnerFits(node, held) ==
    /\ node = "work" => held.answer = held.input
    /\ node = NoNode => held.result = held.input

(* A nested record is that of the visit the parent's record stands in. *)
NestedBelongs ==
    nested # NoCheckpoint =>
        /\ parent # NoCheckpoint
        /\ parent.paused \/ parent.next = "sub"
        /\ nested.state.input = parent.state.input
        /\ ~nested.paused => InnerFits(nested.next, nested.state)

ParentBelongs ==
    /\ IsPaused(parent) => nested # NoCheckpoint
    /\ (parent # NoCheckpoint /\ parent.next = "publish") =>
          parent.state.result = parent.state.input

(* Where the run is, by what the records say. *)
CallBelongs ==
    /\ call.pc = "top" =>
          /\ (call.node = "sub" /\ nested # NoCheckpoint) =>
                nested.state.input = call.state.input
          /\ call.node # "sub" => nested = NoCheckpoint
          /\ call.node = "publish" => call.state.result = call.state.input
    /\ call.pc \notin {"idle", "top"} => parent = Saved(call.node, FALSE, call.state)
    /\ call.pc \in {"innerTop", "innerRunning", "returned", "interrupted"} =>
          call.node = "sub"
    /\ call.pc \in {"innerTop", "innerRunning", "returned"} =>
          call.innerState.input = call.state.input
    /\ call.pc \in {"innerTop", "innerRunning"} => InnerFits(call.inner, call.innerState)
    /\ call.pc = "innerRunning" => call.inner # NoNode
    /\ call.pc = "returned" => call.innerState.result = call.innerState.input
    /\ call.pc = "interrupted" => nested # NoCheckpoint

SubFlowInv ==
    /\ SubFlowTypeOK
    /\ call.pc = "idle" => call = Idle
    /\ strayed = {} => NestedBelongs /\ ParentBelongs /\ CallBelongs

-----------------------------------------------------------------------------
(* The types of what repeats. *)
RepSpec == RepInit /\ [][RepNext]_repVars

Result == [chunk : Chunk, attempt : Nat]
LogEntry == [attempt : Nat, round : Nat, node : {1, 2}]
RepLocals ==
    [pc : {"running", "backoff", "failed", "interrupted", "done"},
     attempt : Nat, round : Nat, node : {1, 2}, output : {<<>>} \cup [Chunk -> Result]]
ChunkStatus == {"waiting", "running", "done", "cancelled"}

RepTypeOK ==
    /\ repeating \in {"map", "loop"}
    /\ rep \in RepLocals
    /\ chunk \in [Chunk -> ChunkStatus]
    /\ produced \in Seq(Result)
    /\ log \in Seq(LogEntry)
    /\ verdict \in {"again", "enough"}

(* The results are those of this attempt, and of the chunks that are done.  *)
ResultsAreOfTheAttempt ==
    /\ \A result \in ToSet(produced) : result.attempt = rep.attempt
    /\ \A c \in Chunk : chunk[c] = "done" => \E result \in ToSet(produced) : result.chunk = c

(* The last entries of the log are the first ones of this attempt, as many  *)
(* as it has made, and the entries before are of earlier attempts.          *)
EntryAt(attempt, i) ==
    [attempt |-> attempt, round |-> (i + 1) \div 2, node |-> IF i % 2 = 1 THEN 1 ELSE 2]

Made(entries, attempt, made) ==
    /\ made <= Len(entries)
    /\ \A i \in 1..Len(entries) - made : entries[i].attempt # attempt
    /\ \A i \in 1..made : entries[Len(entries) - made + i] = EntryAt(attempt, i)

LogIsOfTheAttempt ==
    /\ \A i \in DOMAIN log : log[i].attempt <= rep.attempt
    /\ (repeating = "loop" /\ rep.pc = "running") =>
          Made(log, rep.attempt, 2 * (rep.round - 1) + rep.node - 1)
    /\ (repeating = "loop" /\ rep.pc = "done") => Made(log, rep.attempt, 2 * rep.round)
    /\ rep.round >= 1
    /\ (repeating = "loop" /\ rep.pc = "done") => verdict = "enough" \/ rep.round = LoopRounds

RepInv ==
    /\ RepTypeOK
    /\ ResultsAreOfTheAttempt
    /\ LogIsOfTheAttempt
    /\ MapGathersOneAttempt

-----------------------------------------------------------------------------
(* What the parent merges is what the nested run made of the state. *)
LEMMA DeltaIsWhole ==
    ASSUME NEW entered \in State, NEW result \in State
    PROVE  MergeDelta(entered, result) = result
<1>1. /\ DOMAIN entered = {"input", "note", "answer", "result"}
      /\ DOMAIN result = {"input", "note", "answer", "result"}
  BY DEF State
<1>2. \A key \in DOMAIN entered : MergeDelta(entered, result)[key] = result[key]
  BY DEF MergeDelta
<1>3. DOMAIN MergeDelta(entered, result) = DOMAIN entered
  BY DEF MergeDelta
<1>4. MergeDelta(entered, result) = [key \in DOMAIN entered |-> result[key]]
  BY DEF MergeDelta
<1>5. result = [key \in DOMAIN result |-> result[key]]
  BY DEF State
<1> QED
  BY <1>1, <1>4, <1>5

(* The records that are saved. *)
LEMMA ParentSaved ==
    ASSUME NEW next \in ParentNode \cup {NoNode}, NEW held \in State
    PROVE  /\ Saved(next, FALSE, held) \in Record(ParentNode)
           /\ Saved(next, FALSE, held) # NoCheckpoint
           /\ Saved(next, FALSE, held).next = next
           /\ Saved(next, FALSE, held).paused = FALSE
           /\ Saved(next, FALSE, held).state = held
           /\ Saved(next, TRUE, held) \in Record(ParentNode)
           /\ Saved(next, TRUE, held) # NoCheckpoint
           /\ Saved(next, TRUE, held).next = next
           /\ Saved(next, TRUE, held).paused = TRUE
           /\ Saved(next, TRUE, held).state = held
<1>1. /\ Saved(next, FALSE, held) \in Record(ParentNode)
      /\ Saved(next, TRUE, held) \in Record(ParentNode)
  BY DEF Saved, Record
<1> QED
  BY <1>1, SubFlowRecordAssumption DEF Saved

LEMMA NestedSaved ==
    ASSUME NEW next \in NestedNode \cup {NoNode}, NEW held \in State
    PROVE  /\ Saved(next, FALSE, held) \in Record(NestedNode)
           /\ Saved(next, FALSE, held) # NoCheckpoint
           /\ Saved(next, FALSE, held).next = next
           /\ Saved(next, FALSE, held).paused = FALSE
           /\ Saved(next, FALSE, held).state = held
           /\ Saved(next, TRUE, held) \in Record(NestedNode)
           /\ Saved(next, TRUE, held) # NoCheckpoint
           /\ Saved(next, TRUE, held).next = next
           /\ Saved(next, TRUE, held).paused = TRUE
           /\ Saved(next, TRUE, held).state = held
<1>1. /\ Saved(next, FALSE, held) \in Record(NestedNode)
      /\ Saved(next, TRUE, held) \in Record(NestedNode)
  BY DEF Saved, Record
<1> QED
  BY <1>1, SubFlowRecordAssumption DEF Saved

LEMMA SubFlowFacts ==
    ASSUME SubFlowInv
    PROVE  /\ Fresh \in State /\ Idle \in SubCalls /\ Idle.pc = "idle"
           /\ call.state \in State /\ call.innerState \in State
           /\ call.node \in ParentNode \cup {NoNode}
           /\ call.inner \in NestedNode \cup {NoNode}
           /\ parent # NoCheckpoint => parent \in Record(ParentNode) /\ parent.state \in State
           /\ nested # NoCheckpoint => nested \in Record(NestedNode) /\ nested.state \in State
           /\ call = Idle <=> call.pc = "idle"
BY SubFlowAssumption
   DEF SubFlowInv, SubFlowTypeOK, SubCalls, Record, Idle, Fresh, State, Inputs

LEMMA SubFlowInitInv == SubFlowInit => SubFlowInv
<1> SUFFICES ASSUME SubFlowInit PROVE SubFlowInv
  OBVIOUS
<1>1. Fresh \in State
  BY SubFlowAssumption DEF Fresh, State, Inputs
<1>2. Idle \in SubCalls /\ Idle.pc = "idle"
  BY <1>1 DEF Idle, SubCalls
<1> QED
  BY <1>2 DEF SubFlowInit, SubFlowInv, SubFlowTypeOK, NestedBelongs, ParentBelongs,
     CallBelongs, IsPaused

LEMMA RunInv == SubFlowInv /\ Run => SubFlowInv'
<1> SUFFICES ASSUME SubFlowInv, Run PROVE SubFlowInv'
  OBVIOUS
<1>1. /\ call = Idle /\ ~IsPaused(parent)
      /\ parent' = parent /\ nested' = nested /\ strayed' = strayed
  BY DEF Run
<1>2. /\ call' \in SubCalls /\ call'.pc = "top"
      /\ parent = NoCheckpoint => call'.node = "prepare"
      /\ parent # NoCheckpoint => call'.node = parent.next /\ call'.state = parent.state
  BY SubFlowFacts DEF Run, Idle, SubCalls, ParentNode, Record
<1>3. SubFlowTypeOK' /\ call'.pc # "idle"
  BY <1>1, <1>2 DEF SubFlowInv, SubFlowTypeOK
<1>4. (strayed = {} => NestedBelongs /\ ParentBelongs)'
  BY <1>1 DEF SubFlowInv, NestedBelongs, ParentBelongs, IsPaused, InnerFits
<1>5. (strayed = {} => CallBelongs)'
  BY <1>1, <1>2, SubFlowAssumption
     DEF SubFlowInv, NestedBelongs, ParentBelongs, CallBelongs, IsPaused, ParentNode
<1> QED
  BY <1>3, <1>4, <1>5 DEF SubFlowInv

LEMMA ResumeInv == SubFlowInv /\ Resume => SubFlowInv'
<1> SUFFICES ASSUME SubFlowInv, Resume PROVE SubFlowInv'
  OBVIOUS
<1>1. /\ call = Idle /\ IsPaused(parent) /\ parent # NoCheckpoint
      /\ call' \in SubCalls /\ call'.pc = "top" /\ call'.node = "sub"
      /\ call'.state = parent.state
      /\ parent' = parent /\ nested' = nested /\ strayed' = strayed
  BY SubFlowFacts DEF Resume, Idle, SubCalls, ParentNode, IsPaused
<1>2. SubFlowTypeOK' /\ (call'.pc = "idle" => call' = Idle)
  BY <1>1, SubFlowFacts DEF SubFlowInv, SubFlowTypeOK
<1>3. (strayed = {} => NestedBelongs /\ ParentBelongs)'
  BY <1>1 DEF SubFlowInv, NestedBelongs, ParentBelongs, IsPaused, InnerFits
<1>4. (strayed = {} => CallBelongs)'
  BY <1>1, SubFlowAssumption
     DEF SubFlowInv, NestedBelongs, ParentBelongs, CallBelongs, IsPaused, ParentNode
<1> QED
  BY <1>2, <1>3, <1>4 DEF SubFlowInv

LEMMA UpdateStateInv == SubFlowInv /\ UpdateState => SubFlowInv'
<1> SUFFICES ASSUME SubFlowInv, UpdateState PROVE SubFlowInv'
  OBVIOUS
<1>1. /\ call = Idle /\ IsPaused(parent) /\ parent # NoCheckpoint
      /\ parent' \in Record(ParentNode) /\ parent' # NoCheckpoint
      /\ parent'.next = parent.next /\ parent'.paused = parent.paused
      /\ parent'.state.input = parent.state.input
      /\ parent'.state.result = parent.state.result
      /\ call' = call /\ nested' = nested /\ strayed' = strayed
  <2>1. /\ call = Idle /\ IsPaused(parent) /\ parent # NoCheckpoint
        /\ parent' = [parent EXCEPT !.state.note = "edited"]
        /\ call' = call /\ nested' = nested /\ strayed' = strayed
    BY DEF UpdateState, IsPaused
  <2>2. parent \in Record(ParentNode)
    BY <2>1, SubFlowFacts
  <2>3. /\ parent' \in Record(ParentNode)
        /\ parent'.next = parent.next /\ parent'.paused = parent.paused
        /\ parent'.state.input = parent.state.input
        /\ parent'.state.result = parent.state.result
    BY <2>1, <2>2 DEF Record, State
  <2> QED
    BY <2>1, <2>3, SubFlowRecordAssumption
<1>2. SubFlowTypeOK' /\ (call'.pc = "idle" => call' = Idle)
  BY <1>1, SubFlowFacts DEF SubFlowInv, SubFlowTypeOK
<1>3. (strayed = {} => NestedBelongs /\ ParentBelongs)'
  BY <1>1 DEF SubFlowInv, NestedBelongs, ParentBelongs, IsPaused, InnerFits
<1>4. (strayed = {} => CallBelongs)'
  BY <1>1, SubFlowFacts DEF CallBelongs
<1> QED
  BY <1>2, <1>3, <1>4 DEF SubFlowInv

LEMMA SaveBeforeNodeInv == SubFlowInv /\ SaveBeforeNode => SubFlowInv'
<1> SUFFICES ASSUME SubFlowInv, SaveBeforeNode PROVE SubFlowInv'
  OBVIOUS
<1>1. /\ call.pc = "top" /\ call.node \in ParentNode
      /\ parent' = Saved(call.node, FALSE, call.state)
      /\ parent' \in Record(ParentNode) /\ parent' # NoCheckpoint
      /\ parent'.next = call.node /\ parent'.paused = FALSE /\ parent'.state = call.state
      /\ call' \in SubCalls /\ call'.pc = "running"
      /\ call'.node = call.node /\ call'.state = call.state
      /\ nested' = nested /\ strayed' = strayed
  <2>1. /\ call.pc = "top" /\ call.node # NoNode /\ call \in SubCalls
        /\ parent' = Saved(call.node, FALSE, call.state)
        /\ call' = [call EXCEPT !.pc = "running"]
        /\ nested' = nested /\ strayed' = strayed
    BY DEF SaveBeforeNode, SubFlowInv, SubFlowTypeOK
  <2>2. /\ call' \in SubCalls /\ call'.pc = "running" /\ call'.node = call.node
        /\ call'.state = call.state
    BY <2>1 DEF SubCalls
  <2> QED
    BY ZenonT(60), <2>1, <2>2, SubFlowFacts, ParentSaved
<1>2. SubFlowTypeOK' /\ (call'.pc = "idle" => call' = Idle)
  BY <1>1, SubFlowFacts DEF SubFlowInv, SubFlowTypeOK
<1>3. (strayed = {} => NestedBelongs /\ ParentBelongs)'
  BY <1>1, SubFlowAssumption
     DEF SubFlowInv, NestedBelongs, ParentBelongs, CallBelongs, InnerFits, IsPaused,
         ParentNode, NestedNode
<1>4. (strayed = {} => CallBelongs)'
  BY <1>1, SubFlowAssumption
     DEF SubFlowInv, NestedBelongs, ParentBelongs, CallBelongs, InnerFits, IsPaused,
         ParentNode, NestedNode
<1> QED
  BY <1>2, <1>3, <1>4 DEF SubFlowInv

LEMMA SaveAtEndInv == SubFlowInv /\ SaveAtEnd => SubFlowInv'
<1> SUFFICES ASSUME SubFlowInv, SaveAtEnd PROVE SubFlowInv'
  OBVIOUS
<1>1. /\ call.pc = "top" /\ call.node = NoNode /\ call' = Idle
      /\ parent' \in Record(ParentNode) /\ parent' # NoCheckpoint
      /\ parent'.next = NoNode /\ parent'.paused = FALSE /\ parent'.state = call.state
      /\ nested' = nested /\ strayed' = strayed
  <2>1. /\ call.pc = "top" /\ call.node = NoNode /\ call' = Idle
        /\ parent' = Saved(NoNode, FALSE, call.state)
        /\ nested' = nested /\ strayed' = strayed
    BY DEF SaveAtEnd
  <2> QED
    BY ZenonT(60), <2>1, SubFlowFacts, ParentSaved
<1>2. SubFlowTypeOK' /\ (call'.pc = "idle" => call' = Idle)
  BY <1>1, SubFlowFacts DEF SubFlowInv, SubFlowTypeOK
<1>3. (strayed = {} => NestedBelongs /\ ParentBelongs)'
  BY <1>1, SubFlowAssumption
     DEF SubFlowInv, NestedBelongs, ParentBelongs, CallBelongs, InnerFits, IsPaused,
         ParentNode, NestedNode
<1>4. (strayed = {} => CallBelongs)'
  BY <1>1, SubFlowFacts DEF CallBelongs
<1> QED
  BY <1>2, <1>3, <1>4 DEF SubFlowInv

LEMMA PrepareInv == SubFlowInv /\ Prepare => SubFlowInv'
<1> SUFFICES ASSUME SubFlowInv, Prepare PROVE SubFlowInv'
  OBVIOUS
<1>1. /\ call.pc = "running" /\ call.node = "prepare"
      /\ call' \in SubCalls /\ call'.pc = "top" /\ call'.node = "sub"
      /\ parent' = parent /\ nested' = nested /\ strayed' = strayed
  <2>1. /\ call \in SubCalls /\ call.state \in State
    BY DEF SubFlowInv, SubFlowTypeOK, SubCalls
  <2>2. (IF call.state.input < MaxInputs THEN call.state.input + 1 ELSE call.state.input)
          \in Inputs
    BY <2>1, SubFlowAssumption DEF State, Inputs
  <2> QED
    BY <2>1, <2>2 DEF Prepare, SubCalls, State, ParentNode
<1>2. SubFlowTypeOK' /\ (call'.pc = "idle" => call' = Idle)
  BY <1>1, SubFlowFacts DEF SubFlowInv, SubFlowTypeOK
<1>3. (strayed = {} => NestedBelongs /\ ParentBelongs)'
  BY <1>1 DEF SubFlowInv, NestedBelongs, ParentBelongs, IsPaused, InnerFits
<1>4. (strayed = {} => CallBelongs)'
  <2>1. call.state \in State /\ parent \in Record(ParentNode) \cup {NoCheckpoint}
    BY SubFlowFacts DEF SubFlowInv, SubFlowTypeOK
  <2>2. strayed = {} => nested = NoCheckpoint
    BY <1>1, <2>1, SubFlowAssumption
       DEF SubFlowInv, NestedBelongs, CallBelongs, ParentNode, Saved
  <2> QED
    BY <1>1, <2>2 DEF CallBelongs
<1> QED
  BY <1>2, <1>3, <1>4 DEF SubFlowInv

LEMMA PublishInv == SubFlowInv /\ Publish => SubFlowInv'
<1> SUFFICES ASSUME SubFlowInv, Publish PROVE SubFlowInv'
  OBVIOUS
<1>1. /\ call.pc = "running" /\ call.node = "publish"
      /\ call' \in SubCalls /\ call'.pc = "top" /\ call'.node = NoNode
      /\ parent' = parent /\ nested' = nested /\ strayed' = strayed
  BY DEF Publish, SubFlowInv, SubFlowTypeOK, SubCalls
<1>2. SubFlowTypeOK' /\ (call'.pc = "idle" => call' = Idle)
  BY <1>1, SubFlowFacts DEF SubFlowInv, SubFlowTypeOK
<1>3. (strayed = {} => NestedBelongs /\ ParentBelongs)'
  BY <1>1 DEF SubFlowInv, NestedBelongs, ParentBelongs, IsPaused, InnerFits
<1>4. (strayed = {} => CallBelongs)'
  <2>1. strayed = {} => nested = NoCheckpoint
    BY <1>1, SubFlowAssumption
       DEF SubFlowInv, NestedBelongs, CallBelongs, ParentNode, Saved
  <2> QED
    BY <1>1, <2>1, SubFlowAssumption DEF CallBelongs, ParentNode
<1> QED
  BY <1>2, <1>3, <1>4 DEF SubFlowInv

LEMMA EnterSubFlowInv == SubFlowInv /\ EnterSubFlow => SubFlowInv'
<1> SUFFICES ASSUME SubFlowInv, EnterSubFlow PROVE SubFlowInv'
  OBVIOUS
<1>1. /\ call.pc = "running" /\ call.node = "sub"
      /\ call' \in SubCalls /\ call'.pc \in {"innerTop", "interrupted"}
      /\ call'.node = "sub" /\ call'.state = call.state
      /\ call'.pc = "interrupted" => nested # NoCheckpoint
      /\ call'.pc = "innerTop" =>
            \/ nested = NoCheckpoint /\ call'.inner = "ask" /\ call'.innerState = call.state
            \/ /\ nested # NoCheckpoint /\ ~nested.paused
               /\ call'.inner = nested.next /\ call'.innerState = nested.state
            \/ /\ nested # NoCheckpoint /\ call'.inner = "work"
               /\ call'.innerState.input = nested.state.input
               /\ call'.innerState.answer = nested.state.input
      /\ parent' = parent /\ nested' = nested /\ strayed' = strayed
  <2>1. call \in SubCalls
    BY DEF SubFlowInv, SubFlowTypeOK
  <2>2. nested # NoCheckpoint =>
           /\ nested.next \in NestedNode \cup {NoNode} /\ nested.state \in State
           /\ [nested.state EXCEPT !.answer = nested.state.input] \in State
           /\ [nested.state EXCEPT !.answer = nested.state.input].input = nested.state.input
           /\ [nested.state EXCEPT !.answer = nested.state.input].answer = nested.state.input
    BY SubFlowFacts DEF Record, State
  <2> QED
    BY <2>1, <2>2 DEF EnterSubFlow, SubCalls, NestedNode
<1>2. SubFlowTypeOK' /\ (call'.pc = "idle" => call' = Idle)
  BY <1>1, SubFlowFacts DEF SubFlowInv, SubFlowTypeOK
<1>3. (strayed = {} => NestedBelongs /\ ParentBelongs)'
  BY <1>1 DEF SubFlowInv, NestedBelongs, ParentBelongs, IsPaused, InnerFits
<1>4. (strayed = {} => CallBelongs)'
  <2> SUFFICES ASSUME strayed = {} PROVE CallBelongs'
    BY <1>1
  <2>1. parent = Saved("sub", FALSE, call.state) /\ parent.state = call.state
    BY <1>1 DEF SubFlowInv, CallBelongs, Saved
  <2>2. nested # NoCheckpoint =>
           /\ nested.state.input = call.state.input
           /\ ~nested.paused => InnerFits(nested.next, nested.state)
    BY <2>1 DEF SubFlowInv, NestedBelongs
  <2> QED
    BY <1>1, <2>1, <2>2, SubFlowAssumption DEF CallBelongs, InnerFits, NestedNode
<1> QED
  BY <1>2, <1>3, <1>4 DEF SubFlowInv

(* While the nested run is in progress, the parent's record stands at the  *)
(* sub-flow with the state it was entered with.                            *)
LEMMA InnerFacts ==
    ASSUME SubFlowInv, call.pc \in {"innerTop", "innerRunning", "returned"}, strayed = {}
    PROVE  /\ call.node = "sub" /\ parent # NoCheckpoint
           /\ parent = Saved(call.node, FALSE, call.state)
           /\ parent.next = "sub" /\ parent.paused = FALSE /\ parent.state = call.state
           /\ call.innerState.input = call.state.input
           /\ call.pc \in {"innerTop", "innerRunning"} =>
                 InnerFits(call.inner, call.innerState)
<1>1. /\ parent = Saved("sub", FALSE, call.state) /\ call.node = "sub"
      /\ call.innerState.input = call.state.input
      /\ call.pc \in {"innerTop", "innerRunning"} => InnerFits(call.inner, call.innerState)
  BY DEF SubFlowInv, CallBelongs
<1>2. call.state \in State /\ "sub" \in ParentNode \cup {NoNode}
  BY SubFlowFacts DEF ParentNode
<1>3. /\ Saved("sub", FALSE, call.state) # NoCheckpoint
      /\ Saved("sub", FALSE, call.state).next = "sub"
      /\ Saved("sub", FALSE, call.state).paused = FALSE
      /\ Saved("sub", FALSE, call.state).state = call.state
  BY ZenonT(60), <1>2, ParentSaved
<1> QED
  BY <1>1, <1>3

LEMMA WaitingFacts ==
    ASSUME SubFlowInv, call.pc = "interrupted", strayed = {}
    PROVE  /\ nested # NoCheckpoint /\ nested.state.input = call.state.input
           /\ ~nested.paused => InnerFits(nested.next, nested.state)
<1>1. parent = Saved("sub", FALSE, call.state) /\ nested # NoCheckpoint
  BY DEF SubFlowInv, CallBelongs
<1>2. parent.state = call.state
  BY <1>1 DEF Saved
<1> QED
  BY <1>1, <1>2 DEF SubFlowInv, NestedBelongs

LEMMA InnerSaveBeforeNodeInv == SubFlowInv /\ InnerSaveBeforeNode => SubFlowInv'
<1> SUFFICES ASSUME SubFlowInv, InnerSaveBeforeNode PROVE SubFlowInv'
  OBVIOUS
<1>1. /\ call.pc = "innerTop" /\ call.inner \in NestedNode
      /\ nested' \in Record(NestedNode) /\ nested' # NoCheckpoint
      /\ nested'.next = call.inner /\ nested'.paused = FALSE
      /\ nested'.state = call.innerState
      /\ call' \in SubCalls /\ call'.pc = "innerRunning" /\ call'.node = call.node
      /\ call'.state = call.state /\ call'.inner = call.inner
      /\ call'.innerState = call.innerState
      /\ parent' = parent /\ strayed' = strayed
  <2>1. /\ call.pc = "innerTop" /\ call.inner # NoNode /\ call \in SubCalls
        /\ nested' = Saved(call.inner, FALSE, call.innerState)
        /\ call' = [call EXCEPT !.pc = "innerRunning"]
        /\ parent' = parent /\ strayed' = strayed
    BY DEF InnerSaveBeforeNode, SubFlowInv, SubFlowTypeOK
  <2>2. /\ call' \in SubCalls /\ call'.pc = "innerRunning" /\ call'.node = call.node
        /\ call'.state = call.state /\ call'.inner = call.inner
        /\ call'.innerState = call.innerState
    BY <2>1 DEF SubCalls
  <2> QED
    BY ZenonT(60), <2>1, <2>2, SubFlowFacts, NestedSaved
<1>2. SubFlowTypeOK' /\ (call'.pc = "idle" => call' = Idle)
  BY <1>1, SubFlowFacts DEF SubFlowInv, SubFlowTypeOK
<1>3. (strayed = {} => NestedBelongs /\ ParentBelongs)'
  BY <1>1, InnerFacts, SubFlowAssumption
     DEF NestedBelongs, ParentBelongs, IsPaused, InnerFits
<1>4. (strayed = {} => CallBelongs)'
  BY <1>1, InnerFacts, SubFlowAssumption
     DEF CallBelongs, InnerFits, NestedNode
<1> QED
  BY <1>2, <1>3, <1>4 DEF SubFlowInv

LEMMA InnerSaveAtEndInv == SubFlowInv /\ InnerSaveAtEnd => SubFlowInv'
<1> SUFFICES ASSUME SubFlowInv, InnerSaveAtEnd PROVE SubFlowInv'
  OBVIOUS
<1>1. /\ call.pc = "innerTop" /\ call.inner = NoNode
      /\ nested' \in Record(NestedNode) /\ nested' # NoCheckpoint
      /\ nested'.next = NoNode /\ nested'.paused = FALSE
      /\ nested'.state = call.innerState
      /\ call' \in SubCalls /\ call'.pc = "returned" /\ call'.node = call.node
      /\ call'.state = call.state /\ call'.innerState = call.innerState
      /\ parent' = parent /\ strayed' = strayed
  <2>1. /\ call.pc = "innerTop" /\ call.inner = NoNode /\ call \in SubCalls
        /\ nested' = Saved(NoNode, FALSE, call.innerState)
        /\ call' = [call EXCEPT !.pc = "returned"]
        /\ parent' = parent /\ strayed' = strayed
    BY DEF InnerSaveAtEnd, SubFlowInv, SubFlowTypeOK
  <2>2. /\ call' \in SubCalls /\ call'.pc = "returned" /\ call'.node = call.node
        /\ call'.state = call.state /\ call'.innerState = call.innerState
    BY <2>1 DEF SubCalls
  <2>3. call.innerState \in State /\ NoNode \in NestedNode \cup {NoNode}
    BY SubFlowFacts
  <2> QED
    BY ZenonT(60), <2>1, <2>2, <2>3, NestedSaved
<1>2. SubFlowTypeOK' /\ (call'.pc = "idle" => call' = Idle)
  BY <1>1, SubFlowFacts DEF SubFlowInv, SubFlowTypeOK
<1>3. (strayed = {} => NestedBelongs /\ ParentBelongs)'
  BY <1>1, InnerFacts, SubFlowAssumption
     DEF NestedBelongs, ParentBelongs, IsPaused, InnerFits, NestedNode
<1>4. (strayed = {} => CallBelongs)'
  BY <1>1, InnerFacts, SubFlowAssumption
     DEF CallBelongs, InnerFits, NestedNode
<1> QED
  BY <1>2, <1>3, <1>4 DEF SubFlowInv

LEMMA AskInv == SubFlowInv /\ Ask => SubFlowInv'
<1> SUFFICES ASSUME SubFlowInv, Ask PROVE SubFlowInv'
  OBVIOUS
<1>1. /\ call.pc = "innerRunning"
      /\ nested' \in Record(NestedNode) /\ nested' # NoCheckpoint
      /\ nested'.next = NoNode /\ nested'.paused = TRUE
      /\ nested'.state = call.innerState
      /\ call' \in SubCalls /\ call'.pc = "interrupted" /\ call'.node = call.node
      /\ call'.state = call.state
      /\ parent' = parent /\ strayed' = strayed
  <2>1. /\ call.pc = "innerRunning" /\ call \in SubCalls
        /\ nested' = Saved(NoNode, TRUE, call.innerState)
        /\ call' = [call EXCEPT !.pc = "interrupted"]
        /\ parent' = parent /\ strayed' = strayed
    BY DEF Ask, SubFlowInv, SubFlowTypeOK
  <2>2. /\ call' \in SubCalls /\ call'.pc = "interrupted" /\ call'.node = call.node
        /\ call'.state = call.state
    BY <2>1 DEF SubCalls
  <2>3. call.innerState \in State /\ NoNode \in NestedNode \cup {NoNode}
    BY SubFlowFacts
  <2> QED
    BY <2>1, <2>2, <2>3, NestedSaved
<1>2. SubFlowTypeOK' /\ (call'.pc = "idle" => call' = Idle)
  BY <1>1, SubFlowFacts DEF SubFlowInv, SubFlowTypeOK
<1>3. (strayed = {} => NestedBelongs /\ ParentBelongs)'
  BY <1>1, InnerFacts, SubFlowAssumption
     DEF NestedBelongs, ParentBelongs, IsPaused
<1>4. (strayed = {} => CallBelongs)'
  BY <1>1, InnerFacts, SubFlowAssumption
     DEF CallBelongs
<1> QED
  BY <1>2, <1>3, <1>4 DEF SubFlowInv

LEMMA PauseParentInv == SubFlowInv /\ PauseParent => SubFlowInv'
<1> SUFFICES ASSUME SubFlowInv, PauseParent PROVE SubFlowInv'
  OBVIOUS
<1>1. /\ call.pc = "interrupted" /\ call' = Idle
      /\ parent' \in Record(ParentNode) /\ parent' # NoCheckpoint
      /\ parent'.next = NoNode /\ parent'.paused = TRUE /\ parent'.state = call.state
      /\ nested' = nested /\ strayed' = strayed
  <2>1. /\ call.pc = "interrupted" /\ call' = Idle
        /\ parent' = Saved(NoNode, TRUE, call.state)
        /\ nested' = nested /\ strayed' = strayed
    BY DEF PauseParent
  <2> QED
    BY ZenonT(60), <2>1, SubFlowFacts, ParentSaved
<1>2. SubFlowTypeOK' /\ (call'.pc = "idle" => call' = Idle)
  BY <1>1, SubFlowFacts DEF SubFlowInv, SubFlowTypeOK
<1>3. (strayed = {} => NestedBelongs /\ ParentBelongs)'
  BY <1>1, WaitingFacts, SubFlowAssumption
     DEF NestedBelongs, ParentBelongs, IsPaused, InnerFits, ParentNode
<1>4. (strayed = {} => CallBelongs)'
  BY <1>1, SubFlowFacts DEF CallBelongs
<1> QED
  BY <1>2, <1>3, <1>4 DEF SubFlowInv

LEMMA WorkInv == SubFlowInv /\ Work => SubFlowInv'
<1> SUFFICES ASSUME SubFlowInv, Work PROVE SubFlowInv'
  OBVIOUS
<1>1. /\ call.pc = "innerRunning" /\ call.inner = "work"
      /\ call' \in SubCalls /\ call'.pc = "innerTop" /\ call'.node = call.node
      /\ call'.state = call.state /\ call'.inner = NoNode
      /\ call'.innerState.input = call.innerState.input
      /\ call'.innerState.result = call.innerState.input
      /\ parent' = parent /\ nested' = nested /\ strayed' = strayed
  <2>1. /\ call \in SubCalls /\ call.innerState \in State
    BY DEF SubFlowInv, SubFlowTypeOK, SubCalls
  <2>2. /\ [call.innerState EXCEPT !.result = call.innerState.input] \in State
        /\ [call.innerState EXCEPT !.result = call.innerState.input].input
              = call.innerState.input
        /\ [call.innerState EXCEPT !.result = call.innerState.input].result
              = call.innerState.input
    BY <2>1 DEF State
  <2> QED
    BY <2>1, <2>2 DEF Work, SubCalls
<1>2. SubFlowTypeOK' /\ (call'.pc = "idle" => call' = Idle)
  BY <1>1, SubFlowFacts DEF SubFlowInv, SubFlowTypeOK
<1>3. (strayed = {} => NestedBelongs /\ ParentBelongs)'
  BY <1>1 DEF SubFlowInv, NestedBelongs, ParentBelongs, IsPaused, InnerFits
<1>4. (strayed = {} => CallBelongs)'
  BY <1>1, InnerFacts, SubFlowAssumption
     DEF CallBelongs, InnerFits, NestedNode
<1> QED
  BY <1>2, <1>3, <1>4 DEF SubFlowInv

LEMMA LeaveSubFlowInv == SubFlowInv /\ LeaveSubFlow => SubFlowInv'
<1> SUFFICES ASSUME SubFlowInv, LeaveSubFlow PROVE SubFlowInv'
  OBVIOUS
<1>1. /\ call.pc = "returned" /\ nested' = NoCheckpoint
      /\ call' \in SubCalls /\ call'.pc = "top" /\ call'.node = "publish"
      /\ call'.state = call.innerState
      /\ parent' = parent /\ strayed' = strayed
  <2>1. /\ call \in SubCalls /\ call.state \in State /\ call.innerState \in State
        /\ Fresh \in State
    BY SubFlowFacts DEF SubFlowInv, SubFlowTypeOK
  <2>2. MergeDelta(call.state, call.innerState) = call.innerState
    BY <2>1, DeltaIsWhole
  <2> QED
    BY <2>1, <2>2 DEF LeaveSubFlow, SubCalls, ParentNode
<1>2. SubFlowTypeOK' /\ (call'.pc = "idle" => call' = Idle)
  BY <1>1, SubFlowFacts DEF SubFlowInv, SubFlowTypeOK
<1>3. (strayed = {} => NestedBelongs /\ ParentBelongs)'
  <2>1. strayed = {} => parent.next = "sub" /\ ~IsPaused(parent)
    BY <1>1, InnerFacts DEF IsPaused
  <2> QED
    BY <1>1, <2>1 DEF NestedBelongs, ParentBelongs, IsPaused
<1>4. (strayed = {} => CallBelongs)'
  BY <1>1 DEF SubFlowInv, CallBelongs
<1> QED
  BY <1>2, <1>3, <1>4 DEF SubFlowInv

LEMMA ProcessCrashInv == SubFlowInv /\ ProcessCrash => SubFlowInv'
<1> SUFFICES ASSUME SubFlowInv, ProcessCrash PROVE SubFlowInv'
  OBVIOUS
<1>1. /\ call' = Idle
      /\ parent' = parent /\ nested' = nested /\ strayed' = strayed
  BY DEF ProcessCrash
<1>2. SubFlowTypeOK' /\ (call'.pc = "idle" => call' = Idle)
  BY <1>1, SubFlowFacts DEF SubFlowInv, SubFlowTypeOK
<1>3. (strayed = {} => NestedBelongs /\ ParentBelongs)'
  BY <1>1 DEF SubFlowInv, NestedBelongs, ParentBelongs, IsPaused, InnerFits
<1>4. (strayed = {} => CallBelongs)'
  BY <1>1, SubFlowFacts DEF CallBelongs
<1> QED
  BY <1>2, <1>3, <1>4 DEF SubFlowInv

LEMMA WorkFailsInv == SubFlowInv /\ WorkFails => SubFlowInv'
<1> SUFFICES ASSUME SubFlowInv, WorkFails PROVE SubFlowInv'
  OBVIOUS
<1>1. /\ parent' \in Record(ParentNode) /\ call' \in SubCalls /\ call'.pc = "top"
      /\ nested' = nested /\ strayed' = strayed \cup {"failure"}
  <2>1. /\ call \in SubCalls /\ Fresh \in State /\ "prepare" \in ParentNode
       
    BY SubFlowFacts DEF SubFlowInv, SubFlowTypeOK, ParentNode
  <2> QED
    BY <2>1, SubFlowFacts, ParentSaved DEF WorkFails, SubCalls
<1>2. SubFlowTypeOK' /\ (call'.pc = "idle" => call' = Idle)
  BY <1>1, SubFlowFacts DEF SubFlowInv, SubFlowTypeOK
<1>3. (strayed = {} => NestedBelongs /\ ParentBelongs)'
  BY <1>1
<1>4. (strayed = {} => CallBelongs)'
  BY <1>1
<1> QED
  BY <1>2, <1>3, <1>4 DEF SubFlowInv

LEMMA ResumeByExceptionInv == SubFlowInv /\ ResumeByException => SubFlowInv'
<1> SUFFICES ASSUME SubFlowInv, ResumeByException PROVE SubFlowInv'
  OBVIOUS
<1>1. /\ nested' \in Record(NestedNode)
      /\ call' = call /\ parent' = parent /\ strayed' = strayed \cup {"answer"}
  <2>1. nested # NoCheckpoint /\ nested.state \in State
    BY SubFlowFacts DEF ResumeByException, IsPaused
  <2>2. [nested.state EXCEPT !.answer = nested.state.input] \in State
    BY <2>1 DEF State
  <2> QED
    BY <2>1, <2>2, NestedSaved DEF ResumeByException
<1>2. SubFlowTypeOK' /\ (call'.pc = "idle" => call' = Idle)
  BY <1>1, SubFlowFacts DEF SubFlowInv, SubFlowTypeOK
<1>3. (strayed = {} => NestedBelongs /\ ParentBelongs)'
  BY <1>1
<1>4. (strayed = {} => CallBelongs)'
  BY <1>1
<1> QED
  BY <1>2, <1>3, <1>4 DEF SubFlowInv

LEMMA SubFlowNextInv == SubFlowInv /\ [SubFlowNext]_subFlowVars => SubFlowInv'
<1> SUFFICES ASSUME SubFlowInv, [SubFlowNext]_subFlowVars PROVE SubFlowInv'
  OBVIOUS
<1>1. CASE UNCHANGED subFlowVars
  <2>1. parent' = parent /\ nested' = nested /\ call' = call /\ strayed' = strayed
    BY <1>1 DEF subFlowVars
  <2>2. SubFlowTypeOK' /\ (call'.pc = "idle" => call' = Idle)
    BY <2>1 DEF SubFlowInv, SubFlowTypeOK
  <2>3. (NestedBelongs <=> NestedBelongs') /\ (ParentBelongs <=> ParentBelongs')
    BY <2>1 DEF NestedBelongs, ParentBelongs, IsPaused
  <2>4. CallBelongs <=> CallBelongs'
    BY <2>1 DEF CallBelongs
  <2> QED
    BY <2>1, <2>2, <2>3, <2>4 DEF SubFlowInv
<1> QED
  BY <1>1, RunInv, ResumeInv, ResumeByExceptionInv, UpdateStateInv, SaveBeforeNodeInv,
     SaveAtEndInv, PrepareInv, PublishInv, EnterSubFlowInv, InnerSaveBeforeNodeInv,
     InnerSaveAtEndInv, AskInv, PauseParentInv, WorkInv, WorkFailsInv, LeaveSubFlowInv,
     ProcessCrashInv DEF SubFlowNext, Step

(* As long as no failure was routed past the nested run and no answer was   *)
(* sent to its id, a sub-flow works on the answer to its own input, what is *)
(* published is the result of the last preparation, a waiting parent has a  *)
(* nested record, and a completed run leaves none behind: wherever crashes  *)
(* strike, and however often the question is asked.                         *)
THEOREM SubFlowVisitsAreWhole == SubFlowSpec => []VisitsAreWhole
<1>1. SubFlowInv => VisitsAreWhole
  BY SubFlowAssumption
     DEF SubFlowInv, NestedBelongs, ParentBelongs, CallBelongs, InnerFits, VisitsAreWhole,
         AnswersMatchInputs, RecordsBelongTogether, Completed, IsPaused, ParentNode
<1> QED
  BY <1>1, SubFlowInitInv, SubFlowNextInv, PTL DEF SubFlowSpec

-----------------------------------------------------------------------------
(* One more entry of the attempt. *)
LEMMA MadeGrows ==
    ASSUME NEW entries \in Seq(LogEntry), NEW attempt \in Nat, NEW made \in Nat,
           Made(entries, attempt, made)
    PROVE  Made(Append(entries, EntryAt(attempt, made + 1)), attempt, made + 1)
<1> DEFINE entry == EntryAt(attempt, made + 1)
           longer == Append(entries, entry)
           n == Len(entries)
<1>1. /\ n \in Nat /\ Len(longer) = n + 1 /\ longer[n + 1] = entry
      /\ \A i \in 1..n : longer[i] = entries[i]
  OBVIOUS
<1>2. /\ made <= n
      /\ \A i \in 1..n - made : entries[i].attempt # attempt
      /\ \A i \in 1..made : entries[n - made + i] = EntryAt(attempt, i)
  BY DEF Made
<1> HIDE DEF longer, n
<1>3. Len(longer) - (made + 1) = n - made /\ made + 1 <= Len(longer)
  BY <1>1, <1>2
<1>4. \A i \in 1..n - made : longer[i].attempt # attempt
  BY <1>1, <1>2
<1>5. ASSUME NEW i \in 1..made + 1 PROVE longer[n - made + i] = EntryAt(attempt, i)
  <2>1. CASE i = made + 1
    <3>1. n - made + i = n + 1
      BY <1>1, <2>1
    <3> QED
      BY <1>1, <2>1, <3>1
  <2>2. CASE i \in 1..made
    <3>1. n - made + i \in 1..n
      BY <1>1, <1>2, <2>2
    <3> QED
      BY <1>1, <1>2, <2>2, <3>1
  <2> QED
    BY <2>1, <2>2
<1> QED
  BY <1>3, <1>4, <1>5 DEF Made, longer

(* The numbers of the entries that round makes. *)
LEMMA EntriesOfRound ==
    ASSUME NEW attempt \in Nat, NEW round \in Nat \ {0}
    PROVE  /\ EntryAt(attempt, 2 * (round - 1) + 1)
                 = [attempt |-> attempt, round |-> round, node |-> 1]
           /\ EntryAt(attempt, 2 * (round - 1) + 2)
                 = [attempt |-> attempt, round |-> round, node |-> 2]
<1>1. (2 * (round - 1) + 1 + 1) \div 2 = round /\ (2 * (round - 1) + 1) % 2 = 1
  OBVIOUS
<1>2. (2 * (round - 1) + 2 + 1) \div 2 = round /\ (2 * (round - 1) + 2) % 2 = 0
  OBVIOUS
<1> QED
  BY <1>1, <1>2 DEF EntryAt

LEMMA RepInitInv == RepInit => RepInv
<1> SUFFICES ASSUME RepInit PROVE RepInv
  OBVIOUS
<1>1. /\ repeating \in {"map", "loop"} /\ chunk = Waiting /\ produced = <<>> /\ log = <<>>
      /\ rep = [pc |-> "running", attempt |-> 1, round |-> 1, node |-> 1, output |-> <<>>]
      /\ verdict = "again"
  BY DEF RepInit
<1>2. RepTypeOK
  BY <1>1 DEF RepTypeOK, RepLocals, ChunkStatus, Waiting
<1>3. ResultsAreOfTheAttempt /\ MapGathersOneAttempt
  BY <1>1 DEF ResultsAreOfTheAttempt, MapGathersOneAttempt, Waiting, ToSet
<1>4. LogIsOfTheAttempt
  BY <1>1 DEF LogIsOfTheAttempt, Made
<1> QED
  BY <1>2, <1>3, <1>4 DEF RepInv

(* An attempt that ends without a result leaves no chunk at work. *)
LEMMA AttemptEndsInv ==
    ASSUME RepInv, rep.pc = "running",
           NEW pc \in {"backoff", "failed", "interrupted"}, rep' = [rep EXCEPT !.pc = pc],
           chunk' = Cancelled,
           repeating' = repeating, produced' = produced, log' = log, verdict' = verdict
    PROVE  RepInv'
<1>1. /\ rep'.pc = pc /\ rep'.attempt = rep.attempt /\ rep'.round = rep.round
      /\ pc \notin {"running", "done"}
  BY DEF RepInv, RepTypeOK, RepLocals
<1>2. RepTypeOK'
  BY DEF RepInv, RepTypeOK, RepLocals, ChunkStatus, Cancelled
<1>3. /\ \A c \in Chunk : chunk'[c] \notin {"waiting", "running"}
      /\ \A c \in Chunk : chunk'[c] = "done" => chunk[c] = "done"
  BY DEF RepInv, RepTypeOK, RepLocals, ChunkStatus, Cancelled
<1>4. ResultsAreOfTheAttempt'
  BY <1>1, <1>3 DEF RepInv, ResultsAreOfTheAttempt
<1>5. MapGathersOneAttempt'
  BY <1>1, <1>3 DEF MapGathersOneAttempt
<1>6. LogIsOfTheAttempt'
  BY <1>1 DEF RepInv, LogIsOfTheAttempt
<1> QED
  BY <1>2, <1>4, <1>5, <1>6 DEF RepInv

LEMMA AttemptFailsInv ==
    RepInv /\ (AttemptRaises \/ AttemptTimesOut) => RepInv'
<1> SUFFICES ASSUME RepInv, AttemptRaises \/ AttemptTimesOut PROVE RepInv'
  OBVIOUS
<1>1. rep.pc = "running"
  BY DEF AttemptRaises, AttemptTimesOut
<1>2. ASSUME NEW retryable \in BOOLEAN, AttemptFails(retryable) PROVE RepInv'
  <2>1. /\ \/ rep' = [rep EXCEPT !.pc = "backoff"]
           \/ rep' = [rep EXCEPT !.pc = "failed"]
        /\ chunk' = Cancelled
        /\ repeating' = repeating /\ produced' = produced /\ log' = log
        /\ verdict' = verdict
    BY <1>2 DEF AttemptFails
  <2> QED
    BY <1>1, <2>1, AttemptEndsInv
<1>3. CASE AttemptInterrupted
  BY <1>1, <1>3, AttemptEndsInv DEF AttemptInterrupted
<1> QED
  BY <1>2, <1>3 DEF AttemptRaises, AttemptTimesOut

(* The next attempt is later than every entry and has no result yet. *)
LEMMA NextAttemptInv == RepInv /\ NextAttempt => RepInv'
<1> SUFFICES ASSUME RepInv, NextAttempt PROVE RepInv'
  OBVIOUS
<1>1. /\ rep' = [rep EXCEPT !.pc = "running", !.attempt = @ + 1, !.round = 1, !.node = 1]
      /\ chunk' = Waiting /\ produced' = <<>>
      /\ repeating' = repeating /\ log' = log /\ verdict' = verdict
  BY DEF NextAttempt
<1>2. /\ rep'.pc = "running" /\ rep'.attempt = rep.attempt + 1 /\ rep'.round = 1
      /\ rep'.node = 1 /\ rep.attempt \in Nat
  BY <1>1 DEF RepInv, RepTypeOK, RepLocals
<1>3. RepTypeOK'
  <2>1. rep \in RepLocals /\ rep.attempt + 1 \in Nat
    BY <1>2 DEF RepInv, RepTypeOK
  <2>2. rep' \in RepLocals
    BY <1>1, <2>1 DEF RepLocals
  <2>3. chunk' \in [Chunk -> ChunkStatus]
    BY <1>1 DEF Waiting, ChunkStatus
  <2>4. produced' \in Seq(Result)
    BY <1>1
  <2> QED
    BY <1>1, <2>2, <2>3, <2>4 DEF RepInv, RepTypeOK
<1>4. ResultsAreOfTheAttempt' /\ MapGathersOneAttempt'
  BY <1>1, <1>2 DEF ResultsAreOfTheAttempt, MapGathersOneAttempt, Waiting, ToSet
<1>5. LogIsOfTheAttempt'
  <2>1. log \in Seq(LogEntry) /\ DOMAIN log = 1..Len(log) /\ Len(log) \in Nat
    BY DEF RepInv, RepTypeOK
  <2>2. \A i \in DOMAIN log : log[i] \in LogEntry
    BY <2>1
  <2>3. \A i \in DOMAIN log : log[i].attempt <= rep.attempt
    BY DEF RepInv, LogIsOfTheAttempt
  <2>4. \A i \in DOMAIN log : log[i].attempt \in Nat /\ log[i].attempt <= rep.attempt
    BY <2>2, <2>3 DEF LogEntry
  <2>5. Made(log, rep.attempt + 1, 0)
    BY <1>2, <2>4, <2>1 DEF Made
  <2> QED
    BY <1>1, <1>2, <2>4, <2>5 DEF LogIsOfTheAttempt
<1> QED
  BY <1>3, <1>4, <1>5 DEF RepInv

LEMMA ChunkStartsInv ==
    ASSUME RepInv, NEW c \in Chunk, ChunkStarts(c)
    PROVE  RepInv'
<1>1. /\ repeating = "map" /\ rep.pc = "running" /\ chunk' = [chunk EXCEPT ![c] = "running"]
      /\ repeating' = repeating /\ rep' = rep /\ produced' = produced
      /\ log' = log /\ verdict' = verdict
  BY DEF ChunkStarts, MapRuns
<1>2. RepTypeOK'
  BY <1>1 DEF RepInv, RepTypeOK, ChunkStatus
<1>3. \A d \in Chunk : chunk'[d] = "done" => chunk[d] = "done"
  BY <1>1 DEF RepInv, RepTypeOK
<1> QED
  BY <1>1, <1>2, <1>3
     DEF RepInv, ResultsAreOfTheAttempt, LogIsOfTheAttempt, MapGathersOneAttempt

LEMMA ChunkEndsInv ==
    ASSUME RepInv, NEW c \in Chunk, ChunkEnds(c)
    PROVE  RepInv'
<1> DEFINE result == [chunk |-> c, attempt |-> rep.attempt]
<1>1. /\ repeating = "map" /\ rep.pc = "running" /\ chunk' = [chunk EXCEPT ![c] = "done"]
      /\ produced' = Append(produced, result)
      /\ repeating' = repeating /\ rep' = rep /\ log' = log /\ verdict' = verdict
  BY DEF ChunkEnds, MapRuns
<1>2. /\ produced \in Seq(Result) /\ result \in Result
      /\ chunk \in [Chunk -> ChunkStatus]
  BY DEF RepInv, RepTypeOK, RepLocals, Result
<1>3. RepTypeOK'
  BY <1>1, <1>2 DEF RepInv, RepTypeOK, ChunkStatus
<1>4. /\ result.chunk = c /\ result.attempt = rep.attempt
  OBVIOUS
<1> HIDE DEF result
<1>5. /\ \A r \in ToSet(produced') : r \in ToSet(produced) \/ r = result
      /\ \A r \in ToSet(produced) : r \in ToSet(produced')
      /\ result \in ToSet(produced')
  <2>1. /\ Len(produced) \in Nat /\ DOMAIN produced = 1..Len(produced)
        /\ DOMAIN produced' = 1..Len(produced) + 1
        /\ produced'[Len(produced) + 1] = result
        /\ \A i \in 1..Len(produced) : produced'[i] = produced[i]
    BY <1>1, <1>2
  <2> QED
    BY <2>1 DEF ToSet
<1>6. \A d \in Chunk : d # c => chunk'[d] = chunk[d]
  BY <1>1, <1>2
<1>7. ResultsAreOfTheAttempt'
  BY <1>1, <1>4, <1>5, <1>6 DEF RepInv, ResultsAreOfTheAttempt
<1>8. LogIsOfTheAttempt' /\ MapGathersOneAttempt'
  BY <1>1 DEF RepInv, LogIsOfTheAttempt, MapGathersOneAttempt
<1> QED
  BY <1>3, <1>7, <1>8 DEF RepInv

(* Each chunk has a result, and every result of a chunk is the same. *)
LEMMA MapReturnsInv == RepInv /\ MapReturns => RepInv'
<1> SUFFICES ASSUME RepInv, MapReturns PROVE RepInv'
  OBVIOUS
<1> DEFINE output == [c \in Chunk |->
                        CHOOSE result \in ToSet(produced) : result.chunk = c]
<1>1. /\ repeating = "map" /\ rep.pc = "running" /\ \A c \in Chunk : chunk[c] = "done"
      /\ rep' = [rep EXCEPT !.pc = "done", !.output = output]
      /\ repeating' = repeating /\ chunk' = chunk /\ produced' = produced
      /\ log' = log /\ verdict' = verdict
  BY DEF MapReturns, MapRuns
<1>2. /\ rep \in RepLocals /\ rep.attempt \in Nat /\ ToSet(produced) \subseteq Result
  BY DEF RepInv, RepTypeOK, RepLocals, ToSet
<1>3. \A c \in Chunk :
         (CHOOSE result \in ToSet(produced) : result.chunk = c)
           = [chunk |-> c, attempt |-> rep.attempt]
  <2> SUFFICES ASSUME NEW c \in Chunk
               PROVE  (CHOOSE result \in ToSet(produced) : result.chunk = c)
                        = [chunk |-> c, attempt |-> rep.attempt]
    OBVIOUS
  <2>1. \E result \in ToSet(produced) : result.chunk = c
    BY <1>1 DEF RepInv, ResultsAreOfTheAttempt
  <2>2. PICK result : /\ result = CHOOSE any \in ToSet(produced) : any.chunk = c
                      /\ result \in ToSet(produced) /\ result.chunk = c
    BY <2>1
  <2>3. result.attempt = rep.attempt /\ result \in Result
    BY <1>2, <2>2 DEF RepInv, ResultsAreOfTheAttempt
  <2>4. result = [chunk |-> c, attempt |-> rep.attempt]
    BY <2>2, <2>3 DEF Result
  <2> QED
    BY <2>2, <2>4
<1>4. output = [c \in Chunk |-> [chunk |-> c, attempt |-> rep.attempt]]
  BY <1>3
<1> HIDE DEF output
<1>5. output \in [Chunk -> Result]
  BY <1>2, <1>4 DEF Result
<1>6. /\ rep' \in RepLocals /\ rep'.pc = "done" /\ rep'.output = output
      /\ rep'.attempt = rep.attempt /\ rep'.round = rep.round
  BY <1>1, <1>2, <1>5 DEF RepLocals
<1>7. RepTypeOK' /\ ResultsAreOfTheAttempt'
  BY <1>1, <1>6 DEF RepInv, RepTypeOK, ResultsAreOfTheAttempt
<1>8. MapGathersOneAttempt'
  BY <1>1, <1>4, <1>6 DEF MapGathersOneAttempt
<1>9. LogIsOfTheAttempt'
  BY <1>1, <1>6 DEF RepInv, LogIsOfTheAttempt
<1> QED
  BY <1>7, <1>8, <1>9 DEF RepInv

(* The nodes of the body append the next entry of the attempt. *)
LEMMA BodyInv ==
    ASSUME RepInv, LoopRuns, NEW made \in Nat, NEW entry,
           made = 2 * (rep.round - 1) + rep.node - 1,
           entry = EntryAt(rep.attempt, made + 1),
           log' = Append(log, entry)
    PROVE  /\ log' \in Seq(LogEntry)
           /\ \A i \in DOMAIN log' : log'[i].attempt <= rep.attempt
           /\ Made(log', rep.attempt, made + 1)
<1>1. /\ log \in Seq(LogEntry) /\ rep.attempt \in Nat
      /\ \A i \in DOMAIN log : log[i].attempt <= rep.attempt
      /\ Made(log, rep.attempt, made)
  BY DEF RepInv, RepTypeOK, RepLocals, LogIsOfTheAttempt, LoopRuns
<1>2. entry \in LogEntry /\ entry.attempt = rep.attempt
  <2>1. (made + 1 + 1) \div 2 \in Nat
    OBVIOUS
  <2> QED
    BY <1>1, <2>1 DEF EntryAt, LogEntry
<1>3. log' \in Seq(LogEntry)
  BY <1>1, <1>2
<1>4. Made(log', rep.attempt, made + 1)
  BY <1>1, MadeGrows
<1>5. \A i \in DOMAIN log' : (i \in DOMAIN log /\ log'[i] = log[i]) \/ log'[i] = entry
  BY <1>1, <1>2
<1> QED
  BY <1>1, <1>2, <1>3, <1>4, <1>5

LEMMA FirstOfBodyInv == RepInv /\ FirstOfBody => RepInv'
<1> SUFFICES ASSUME RepInv, FirstOfBody PROVE RepInv'
  OBVIOUS
<1> DEFINE made == 2 * (rep.round - 1) + rep.node - 1
<1>1. /\ LoopRuns /\ repeating = "loop" /\ rep.pc = "running" /\ rep.node = 1
      /\ log' = Append(log, Entry(1)) /\ rep' = [rep EXCEPT !.node = 2]
      /\ repeating' = repeating /\ chunk' = chunk /\ produced' = produced
      /\ verdict' = verdict
  BY DEF FirstOfBody, LoopRuns
<1>2. /\ rep \in RepLocals /\ rep.attempt \in Nat /\ rep.round \in Nat \ {0}
      /\ made \in Nat /\ made = 2 * (rep.round - 1)
  BY <1>1 DEF RepInv, RepTypeOK, RepLocals, LogIsOfTheAttempt
<1>3. Entry(1) = EntryAt(rep.attempt, made + 1)
  BY <1>2, EntriesOfRound DEF Entry
<1>4. /\ rep' \in RepLocals /\ rep'.pc = "running" /\ rep'.attempt = rep.attempt
      /\ rep'.round = rep.round /\ rep'.node = 2
  BY <1>1, <1>2 DEF RepLocals
<1>5. made + 1 = 2 * (rep'.round - 1) + rep'.node - 1
  BY <1>2, <1>4
<1> HIDE DEF made
<1>6. /\ log' \in Seq(LogEntry) /\ \A i \in DOMAIN log' : log'[i].attempt <= rep.attempt
      /\ Made(log', rep.attempt, made + 1)
  BY <1>1, <1>2, <1>3, BodyInv DEF made
<1>7. RepTypeOK'
  BY <1>1, <1>4, <1>6 DEF RepInv, RepTypeOK
<1>8. ResultsAreOfTheAttempt' /\ MapGathersOneAttempt'
  BY <1>1, <1>4 DEF RepInv, ResultsAreOfTheAttempt, MapGathersOneAttempt
<1>9. LogIsOfTheAttempt'
  BY <1>1, <1>2, <1>4, <1>5, <1>6 DEF LogIsOfTheAttempt
<1> QED
  BY <1>7, <1>8, <1>9 DEF RepInv

LEMMA SecondOfBodyInv == RepInv /\ SecondOfBody => RepInv'
<1> SUFFICES ASSUME RepInv, SecondOfBody PROVE RepInv'
  OBVIOUS
<1> DEFINE made == 2 * (rep.round - 1) + rep.node - 1
<1>1. /\ LoopRuns /\ repeating = "loop" /\ rep.pc = "running" /\ rep.node = 2
      /\ log' = Append(log, Entry(2)) /\ verdict' \in {"again", "enough"}
      /\ repeating' = repeating /\ chunk' = chunk /\ produced' = produced
  BY DEF SecondOfBody, LoopRuns
<1>2. /\ rep \in RepLocals /\ rep.attempt \in Nat /\ rep.round \in Nat \ {0}
      /\ made \in Nat /\ made = 2 * (rep.round - 1) + 1 /\ made + 1 = 2 * rep.round
  BY <1>1 DEF RepInv, RepTypeOK, RepLocals, LogIsOfTheAttempt
<1>3. Entry(2) = EntryAt(rep.attempt, made + 1)
  <2>1. made + 1 = 2 * (rep.round - 1) + 2
    BY <1>2
  <2> QED
    BY <1>2, <2>1, EntriesOfRound DEF Entry
<1>4. /\ rep' \in RepLocals /\ rep'.attempt = rep.attempt
      /\ \/ /\ rep'.pc = "done" /\ rep'.round = rep.round
            /\ verdict' = "enough" \/ rep.round = LoopRounds
         \/ rep'.pc = "running" /\ rep'.round = rep.round + 1 /\ rep'.node = 1
  <2>1. CASE verdict' = "enough" \/ rep.round = LoopRounds
    <3>1. rep' = [rep EXCEPT !.pc = "done"]
      BY <2>1 DEF SecondOfBody
    <3> QED
      BY <1>2, <2>1, <3>1 DEF RepLocals
  <2>2. CASE ~(verdict' = "enough" \/ rep.round = LoopRounds)
    <3>1. rep' = [rep EXCEPT !.round = @ + 1, !.node = 1]
      BY <2>2 DEF SecondOfBody
    <3>2. rep.round + 1 \in Nat
      BY <1>2
    <3>3. /\ rep' \in RepLocals /\ rep'.attempt = rep.attempt /\ rep'.pc = rep.pc
          /\ rep'.round = rep.round + 1 /\ rep'.node = 1
      BY <1>2, <3>1, <3>2 DEF RepLocals
    <3> QED
      BY <1>1, <3>3
  <2> QED
    BY <2>1, <2>2
<1> HIDE DEF made
<1>5. /\ log' \in Seq(LogEntry) /\ \A i \in DOMAIN log' : log'[i].attempt <= rep.attempt
      /\ Made(log', rep.attempt, made + 1)
  BY <1>1, <1>2, <1>3, BodyInv DEF made
<1>6. RepTypeOK'
  BY <1>1, <1>4, <1>5 DEF RepInv, RepTypeOK
<1>7. ResultsAreOfTheAttempt' /\ MapGathersOneAttempt'
  BY <1>1, <1>4 DEF RepInv, ResultsAreOfTheAttempt, MapGathersOneAttempt
<1>8. LogIsOfTheAttempt'
  <2>1. rep'.pc = "running" => 2 * (rep'.round - 1) + rep'.node - 1 = made + 1
    BY <1>2, <1>4
  <2>2. rep'.pc = "done" => 2 * rep'.round = made + 1
    BY <1>2, <1>4
  <2>3. rep'.round >= 1
    BY <1>2, <1>4
  <2> QED
    BY <1>1, <1>4, <1>5, <2>1, <2>2, <2>3 DEF LogIsOfTheAttempt
<1> QED
  BY <1>6, <1>7, <1>8 DEF RepInv

LEMMA RepNextInv == RepInv /\ [RepNext]_repVars => RepInv'
<1> SUFFICES ASSUME RepInv, [RepNext]_repVars PROVE RepInv'
  OBVIOUS
<1>1. CASE UNCHANGED repVars
  BY <1>1 DEF repVars, RepInv, RepTypeOK, ResultsAreOfTheAttempt, LogIsOfTheAttempt,
     MapGathersOneAttempt
<1>2. ASSUME NEW c \in Chunk, ChunkStarts(c) \/ ChunkEnds(c) PROVE RepInv'
  BY <1>2, ChunkStartsInv, ChunkEndsInv
<1> QED
  BY <1>1, <1>2, AttemptFailsInv, NextAttemptInv, MapReturnsInv, FirstOfBodyInv,
     SecondOfBodyInv DEF RepNext

(* A Map returns one result for each chunk, in order and of its last        *)
(* attempt, and leaves no chunk at work; a Loop's last attempt ran whole    *)
(* rounds and stopped when it should: whatever failed, timed out or was     *)
(* interrupted before.                                                      *)
THEOREM RepeatingKeepsTheLastAttempt == RepSpec => []LastAttemptIsWhole
<1>1. RepInv => LastAttemptIsWhole
  <2> SUFFICES ASSUME RepInv PROVE LastAttemptIsWhole
    OBVIOUS
  <2>1. LoopRunsWholeRounds
    <3> SUFFICES ASSUME repeating = "loop", rep.pc = "done" PROVE LoopRunsWholeRounds
      BY DEF LoopRunsWholeRounds
    <3>1. /\ Made(log, rep.attempt, 2 * rep.round) /\ Len(log) \in Nat
          /\ rep.round \in Nat
          /\ verdict = "enough" \/ rep.round = LoopRounds
      BY DEF RepInv, RepTypeOK, RepLocals, LogIsOfTheAttempt
    <3> QED
      BY <3>1 DEF LoopRunsWholeRounds, Made, EntryAt
  <2> QED
    BY <2>1 DEF RepInv, LastAttemptIsWhole
<1> QED
  BY <1>1, RepInitInv, RepNextInv, PTL DEF RepSpec

-----------------------------------------------------------------------------
(* Induction, for a set: the least number outside would have a predecessor. *)
LEMMA NumbersByInduction ==
    ASSUME NEW S \in SUBSET Nat, 0 \in S, \A n \in S : n + 1 \in S
    PROVE  S = Nat
<1> SUFFICES ASSUME Nat \ S # {} PROVE FALSE
  OBVIOUS
<1>1. PICK R : R = OpToRel(<, Nat)
  OBVIOUS
<1>2. IsWellFoundedOn(R, Nat)
  BY <1>1, NatLessThanWellFounded
<1>3. PICK m \in Nat \ S : \A n \in Nat \ S : ~(<<n, m>> \in R)
  BY <1>2, WFMin
<1>4. R = {pair \in Nat \X Nat : pair[1] < pair[2]}
  BY <1>1 DEF OpToRel
<1>5. \A n \in Nat \ S : ~(n < m)
  BY <1>3, <1>4
<1>6. m # 0 /\ m - 1 \in Nat /\ m - 1 < m
  BY <1>3
<1>7. m - 1 \in S
  BY <1>5, <1>6
<1> QED
  BY <1>3, <1>6, <1>7

(* A value and a step make a function over the numbers.                     *)
Recurs(T, first, step) == first \in T /\ step \in [T \X Nat -> T]

Unrolls(f, T, first, step) ==
    f \in [Nat -> T] /\ f[0] = first /\ \A n \in Nat : f[n + 1] = step[<<f[n], n>>]

LEMMA Recursion ==
    ASSUME NEW T, NEW first, NEW step, Recurs(T, first, step)
    PROVE  \E f : Unrolls(f, T, first, step)
<1> USE DEF Recurs
<1> DEFINE Runs(n) == {g \in [0..n -> T] : /\ g[0] = first
                                           /\ \A i \in 0..(n - 1) : g[i + 1] = step[<<g[i], i>>]}
<1>1. \A n \in Nat : Runs(n) # {}
  <2>1. PICK S : S = {n \in Nat : Runs(n) # {}}
    OBVIOUS
  <2>2. 0 \in S
    <3>1. [i \in 0..0 |-> first] \in Runs(0)
      OBVIOUS
    <3> QED
      BY <2>1, <3>1
  <2>3. ASSUME NEW n \in S PROVE n + 1 \in S
    <3>1. n \in Nat /\ Runs(n) # {}
      BY <2>1
    <3>2. PICK g \in [0..n -> T] : g[0] = first /\ \A i \in 0..(n - 1) : g[i + 1] = step[<<g[i], i>>]
      BY <3>1
    <3>3. PICK next \in T : next = step[<<g[n], n>>]
      <4>1. g[n] \in T
        BY <3>1, <3>2
      <4>2. <<g[n], n>> \in T \X Nat
        BY <3>1, <4>1
      <4> QED
        BY <4>2
    <3>4. PICK h : h = [i \in 0..(n + 1) |-> IF i = n + 1 THEN next ELSE g[i]]
      OBVIOUS
    <3>5. h \in [0..(n + 1) -> T] /\ h[0] = first /\ h[n + 1] = next
      BY <3>1, <3>2, <3>4
    <3>6. \A i \in 0..n : h[i] = g[i]
      BY <3>1, <3>4
    <3>7. ASSUME NEW i \in 0..n PROVE h[i + 1] = step[<<h[i], i>>]
      <4>1. CASE i = n
        BY <3>3, <3>5, <3>6, <4>1
      <4>2. CASE i # n
        <5>1. i \in 0..(n - 1) /\ i + 1 \in 0..n
          BY <3>1, <4>2
        <5> QED
          BY <3>2, <3>6, <5>1
      <4> QED
        BY <4>1, <4>2
    <3>8. (n + 1) - 1 = n
      BY <3>1
    <3>9. h \in Runs(n + 1)
      BY <3>5, <3>7, <3>8
    <3> QED
      BY <2>1, <3>1, <3>9
  <2>4. S = Nat
    BY <2>1, <2>2, <2>3, NumbersByInduction
  <2> QED
    BY <2>1, <2>4
<1>2. ASSUME NEW n \in Nat, NEW m \in Nat, n <= m, NEW g \in Runs(n), NEW h \in Runs(m)
      PROVE  \A i \in 0..n : g[i] = h[i]
  <2>1. PICK S : S = {i \in Nat : i <= n => g[i] = h[i]}
    OBVIOUS
  <2>2. 0 \in S
    BY <2>1
  <2>3. ASSUME NEW i \in S PROVE i + 1 \in S
    <3> SUFFICES ASSUME i + 1 <= n PROVE g[i + 1] = h[i + 1]
      BY <2>1
    <3>1. i \in 0..(n - 1) /\ i \in 0..(m - 1) /\ i <= n
      BY <1>2, <2>1
    <3>2. g[i] = h[i]
      BY <2>1, <3>1
    <3>3. g[i + 1] = step[<<g[i], i>>]
      BY <3>1
    <3>4. h[i + 1] = step[<<h[i], i>>]
      BY <3>1
    <3> QED
      BY <3>2, <3>3, <3>4
  <2>4. S = Nat
    BY <2>1, <2>2, <2>3, NumbersByInduction
  <2> QED
    BY <2>1, <2>4
<1>3. PICK run : run = [n \in Nat |-> CHOOSE g \in Runs(n) : TRUE]
  OBVIOUS
<1>4. \A n \in Nat : run[n] \in Runs(n)
  BY <1>1, <1>3
<1>5. PICK f : f = [n \in Nat |-> run[n][n]]
  OBVIOUS
<1>6. ASSUME NEW n \in Nat PROVE f[n] \in T /\ f[n] = run[n][n]
  <2>1. run[n] \in [0..n -> T]
    BY <1>4
  <2> QED
    BY <1>5, <2>1
<1>7. f \in [Nat -> T]
  BY <1>5, <1>6
<1>8. f[0] = first
  <2>1. run[0][0] = first
    BY <1>4
  <2> QED
    BY <1>5, <2>1
<1>9. ASSUME NEW n \in Nat PROVE f[n + 1] = step[<<f[n], n>>]
  <2>1. run[n + 1][n + 1] = step[<<run[n + 1][n], n>>]
    <3>1. run[n + 1] \in Runs(n + 1)
      BY <1>4
    <3>2. n \in 0..((n + 1) - 1)
      OBVIOUS
    <3> QED
      BY <3>1, <3>2
  <2>2. run[n][n] = run[n + 1][n]
    <3>1. n <= n + 1 /\ n + 1 \in Nat /\ n \in 0..n
      OBVIOUS
    <3>2. run[n] \in Runs(n) /\ run[n + 1] \in Runs(n + 1)
      BY <1>4, <3>1
    <3> HIDE DEF Runs
    <3> QED
      BY <1>2, <3>1, <3>2
  <2>3. f[n + 1] = run[n + 1][n + 1] /\ f[n] = run[n][n]
    BY <1>5
  <2> QED
    BY <2>1, <2>2, <2>3
<1> QED
  BY <1>7, <1>8, <1>9 DEF Unrolls

(* FlattenSeq concatenates from the first sequence to the last.             *)
LEMMA FlattenSteps ==
    ASSUME NEW T, NEW seqs \in Seq(Seq(T))
    PROVE  \E flat \in [Nat -> Seq(T)] :
              /\ flat[0] = <<>>
              /\ \A i \in 1..Len(seqs) : flat[i] = flat[i - 1] \o seqs[i]
              /\ FlattenSeq(seqs) = flat[Len(seqs)]
<1>1. PICK step : step = [pair \in Seq(T) \X Nat |->
                            IF pair[2] + 1 \in 1..Len(seqs) THEN pair[1] \o seqs[pair[2] + 1] ELSE pair[1]]
  OBVIOUS
<1>2. step \in [Seq(T) \X Nat -> Seq(T)]
  <2>1. ASSUME NEW s \in Seq(T), NEW i \in 1..Len(seqs) PROVE s \o seqs[i] \in Seq(T)
    BY <2>1
  <2> QED
    BY <1>1, <2>1
<1>3. <<>> \in Seq(T)
  OBVIOUS
<1>4. PICK flat \in [Nat -> Seq(T)] : flat[0] = <<>> /\ \A n \in Nat : flat[n + 1] = step[<<flat[n], n>>]
  <2>1. Recurs(Seq(T), <<>>, step)
    BY <1>2, <1>3 DEF Recurs
  <2>2. PICK flat : Unrolls(flat, Seq(T), <<>>, step)
    BY <2>1, Recursion
  <2> QED
    BY <2>2 DEF Unrolls
<1>5. ASSUME NEW i \in 1..Len(seqs) PROVE flat[i] = flat[i - 1] \o seqs[i]
  <2>1. i - 1 \in Nat /\ (i - 1) + 1 = i
    OBVIOUS
  <2>2. flat[i] = step[<<flat[i - 1], i - 1>>]
    BY <1>4, <2>1
  <2>3. <<flat[i - 1], i - 1>> \in Seq(T) \X Nat
    BY <1>4, <2>1
  <2> QED
    BY <1>1, <2>1, <2>2, <2>3
<1>6. CASE Len(seqs) = 0
  <2>1. seqs = <<>>
    BY <1>6
  <2>2. FlattenSeq(seqs) = seqs
    BY <1>6 DEF FlattenSeq
  <2> QED
    BY <1>4, <1>5, <1>6, <2>1, <2>2
<1>7. CASE Len(seqs) # 0
  <2> DEFINE flatten[i \in 1..Len(seqs)] == IF i = 1 THEN seqs[i] ELSE flatten[i - 1] \o seqs[i]
  <2>1. PICK g : g = [i \in 1..Len(seqs) |-> flat[i]]
    OBVIOUS
  <2>2. g = [i \in 1..Len(seqs) |-> IF i = 1 THEN seqs[i] ELSE g[i - 1] \o seqs[i]]
    <3>1. ASSUME NEW i \in 1..Len(seqs) PROVE flat[i] = IF i = 1 THEN seqs[i] ELSE g[i - 1] \o seqs[i]
      <4>1. CASE i = 1
        <5>0. 1 \in 1..Len(seqs) /\ 1 - 1 = 0 /\ seqs[1] \in Seq(T)
          BY <4>1
        <5>1. flat[1] = flat[0] \o seqs[1]
          BY <1>5, <5>0
        <5>2. <<>> \o seqs[1] = seqs[1]
          BY <5>0
        <5> QED
          BY <1>4, <4>1, <5>1, <5>2
      <4>2. CASE i # 1
        <5>1. i - 1 \in 1..Len(seqs)
          BY <4>2
        <5> QED
          BY <1>5, <2>1, <4>2, <5>1
      <4> QED
        BY <4>1, <4>2
    <3> QED
      BY <2>1, <3>1
  <2>3. flatten = [i \in 1..Len(seqs) |-> IF i = 1 THEN seqs[i] ELSE flatten[i - 1] \o seqs[i]]
    BY <2>2
  <2>4. \A i \in 1..Len(seqs) : flatten[i] = flat[i]
    <3>1. PICK S : S = {n \in Nat : n + 1 \in 1..Len(seqs) => flatten[n + 1] = flat[n + 1]}
      OBVIOUS
    <3> HIDE DEF flatten
    <3>2. 0 \in S
      <4> SUFFICES ASSUME 1 \in 1..Len(seqs) PROVE flatten[1] = flat[1]
        BY <3>1
      <4>0. 1 - 1 = 0 /\ seqs[1] \in Seq(T)
        OBVIOUS
      <4>1. flat[1] = flat[0] \o seqs[1]
        BY <1>5, <4>0
      <4>2. <<>> \o seqs[1] = seqs[1]
        BY <4>0
      <4>3. flatten[1] = seqs[1]
        BY <2>3
      <4> QED
        BY <1>4, <4>1, <4>2, <4>3
    <3>3. ASSUME NEW n \in S PROVE n + 1 \in S
      <4> SUFFICES ASSUME n + 2 \in 1..Len(seqs) PROVE flatten[n + 2] = flat[n + 2]
        BY <3>1
      <4>1. n + 1 \in 1..Len(seqs) /\ n + 2 # 1 /\ (n + 2) - 1 = n + 1 /\ n \in Nat
        BY <3>1
      <4>2. flatten[n + 2] = flatten[n + 1] \o seqs[n + 2]
        BY <2>3, <4>1
      <4>3. flat[n + 2] = flat[n + 1] \o seqs[n + 2]
        BY <1>5, <4>1
      <4> QED
        BY <3>1, <4>1, <4>2, <4>3
    <3>4. S = Nat
      BY <3>1, <3>2, <3>3, NumbersByInduction
    <3>5. \A i \in 1..Len(seqs) : i - 1 \in Nat /\ (i - 1) + 1 = i
      OBVIOUS
    <3> QED
      BY <3>1, <3>4, <3>5
  <2>5. FlattenSeq(seqs) = flatten[Len(seqs)]
    BY <1>7 DEF FlattenSeq
  <2>6. Len(seqs) \in 1..Len(seqs)
    BY <1>7
  <2> HIDE DEF flatten
  <2> QED
    BY <1>4, <1>5, <2>4, <2>5, <2>6
<1> QED
  BY <1>6, <1>7

-----------------------------------------------------------------------------
(* The branches of a Parallel node.                                        *)

ExtendsState == case.reducer = "append" /\ case.present

OwnLists(b) == {Returned(b, i) : i \in 1..Lengths[b]} \cup {Built("branch", b), Built("delta", b)}

OwnItems(b) == {item \in Nat \X Nat : item = Old \/ item[1] = b}

(* What a branch can reach holds its own items and the state's, and nobody  *)
(* has written into the list of the state.                                  *)
HeapIsApart(h) ==
    /\ h \in [List -> Seq(Nat \X Nat)]
    /\ h[Shared] = Before
    /\ \A b \in Branch : \A l \in OwnLists(b) : h[l] \in Seq(OwnItems(b))

BranchesInv ==
    outcome # "merged" =>
        /\ position \in [Branch -> Nat]
        /\ state = IF case.present THEN Shared ELSE Absent
        /\ ~ExtendsState =>
              /\ HeapIsApart(heap)
              /\ branchState \in [Branch -> List \cup {Absent}]
              /\ delta \in [Branch -> List \cup {Absent}]
              /\ \A b \in Branch : /\ branchState[b] \in OwnLists(b) \cup {state}
                                   /\ delta[b] \in OwnLists(b) \cup {Absent}

LEMMA BranchesAreNumbers ==
    /\ Branch \subseteq Nat \ {0}
    /\ \A b \in Branch : Lengths[b] \in Nat
BY LengthsAssumption DEF Branch

LEMMA ListsAreApart ==
    ASSUME NEW b \in Branch
    PROVE  /\ OwnLists(b) \subseteq List
           /\ Shared \in List /\ Absent \notin List
           /\ Shared \notin OwnLists(b)
           /\ \A c \in Branch \ {b} : OwnLists(b) \cap OwnLists(c) = {}
<1>1. \A i \in 1..Lengths[b] : <<b, i>> \in Item \ {Old} /\ <<b, i>>[1] = b /\ <<b, i>>[2] = i
  BY BranchesAreNumbers DEF Item, Old
<1>2. \A i \in 1..Lengths[b] : Returned(b, i) \in List
  <2> SUFFICES ASSUME NEW i \in 1..Lengths[b] PROVE Returned(b, i) \in List
    OBVIOUS
  <2>1. PICK item \in Item \ {Old} : item[1] = b /\ item[2] = i
    BY <1>1
  <2> QED
    BY <2>1 DEF List
<1>3. Built("branch", b) \in List /\ Built("delta", b) \in List
  BY DEF List
<1>4. OwnLists(b) \subseteq List
  BY <1>2, <1>3 DEF OwnLists
<1>5. Shared \in List /\ Absent \notin List
  BY AbsentAssumption DEF List
<1>6. Shared \notin OwnLists(b)
  BY DEF OwnLists, Shared, Returned, Built
<1>7. \A c \in Branch : \A l \in OwnLists(c) : l[2] = c
  BY DEF OwnLists, Returned, Built
<1> QED
  BY <1>4, <1>5, <1>6, <1>7

LEMMA BeforeIsOwn ==
    ASSUME NEW b \in Branch PROVE Before \in Seq(OwnItems(b)) /\ Before \in Seq(Nat \X Nat)
<1>1. Old \in OwnItems(b) /\ Old \in Nat \X Nat
  BY DEF OwnItems, Old
<1> QED
  BY <1>1 DEF Before

LEMMA HeapWritten ==
    ASSUME NEW h, HeapIsApart(h), NEW b \in Branch, NEW l \in OwnLists(b),
           NEW items \in Seq(OwnItems(b))
    PROVE  HeapIsApart([h EXCEPT ![l] = items])
<1>1. OwnItems(b) \subseteq Nat \X Nat
  BY DEF OwnItems
<1>2. items \in Seq(Nat \X Nat)
  BY <1>1
<1>3. l \in List /\ l # Shared /\ \A c \in Branch \ {b} : l \notin OwnLists(c)
  BY ListsAreApart
<1>4. PICK written : written = [h EXCEPT ![l] = items]
  OBVIOUS
<1>5. written \in [List -> Seq(Nat \X Nat)] /\ written[l] = items
      /\ \A k \in List \ {l} : written[k] = h[k]
  BY <1>2, <1>3, <1>4 DEF HeapIsApart
<1>6. written[Shared] = Before
  BY <1>3, <1>5, ListsAreApart DEF HeapIsApart
<1>7. ASSUME NEW c \in Branch, NEW k \in OwnLists(c) PROVE written[k] \in Seq(OwnItems(c))
  <2>1. k \in List
    BY ListsAreApart
  <2>2. CASE k = l
    BY <2>2, <1>3, <1>5
  <2>3. CASE k # l
    BY <2>1, <2>3, <1>5 DEF HeapIsApart
  <2> QED
    BY <2>2, <2>3
<1> QED
  BY <1>4, <1>5, <1>6, <1>7 DEF HeapIsApart

(* A reducer that is given lists of a branch leaves the others alone.       *)
LEMMA ReducerStaysApart ==
    ASSUME NEW b \in Branch, NEW h, NEW dict, NEW value \in OwnLists(b), NEW built \in OwnLists(b),
           HeapIsApart(h), dict \in OwnLists(b) \cup {Shared, Absent},
           case.reducer = "append" => dict # Shared,
           NEW next, next = ApplyReducer(Memory(h, dict), value, built)
    PROVE  HeapIsApart(next.heap) /\ next.dict \in OwnLists(b) \cup {dict}
<1>1. Memory(h, dict).heap = h /\ Memory(h, dict).dict = dict
  BY DEF Memory
<1>2. h[value] \in Seq(OwnItems(b))
  BY DEF HeapIsApart
<1>3. dict # Absent => h[dict] \in Seq(OwnItems(b))
  BY BeforeIsOwn DEF HeapIsApart
<1>4. CASE dict = Absent \/ case.reducer = "override"
  <2>1. next = Memory(h, value)
    BY <1>1, <1>4 DEF ApplyReducer
  <2> QED
    BY <2>1 DEF Memory
<1>5. CASE ~(dict = Absent \/ case.reducer = "override") /\ case.reducer = "append"
  <2>1. h[dict] \o h[value] \in Seq(OwnItems(b)) /\ dict \in OwnLists(b)
    BY <1>2, <1>3, <1>5
  <2>2. PICK items \in Seq(OwnItems(b)) : items = h[dict] \o h[value]
    BY <2>1
  <2>w. PICK written : written = [h EXCEPT ![dict] = items]
    OBVIOUS
  <2>3. next = Memory(written, dict)
    BY <2>w, <1>1, <1>5, <2>2 DEF ApplyReducer
  <2>4. next.heap = written /\ next.dict = dict
    BY <2>3 DEF Memory
  <2>5. HeapIsApart([h EXCEPT ![dict] = items])
    BY <2>1, HeapWritten
  <2> QED
    BY <2>1, <2>w, <2>4, <2>5
<1>6. CASE ~(dict = Absent \/ case.reducer = "override") /\ case.reducer = "combine"
  <2>1. h[dict] \o h[value] \in Seq(OwnItems(b))
    BY <1>2, <1>3, <1>6
  <2>2. PICK items \in Seq(OwnItems(b)) : items = h[dict] \o h[value]
    BY <2>1
  <2>w. PICK written : written = [h EXCEPT ![built] = items]
    OBVIOUS
  <2>3. next = Memory(written, built)
    BY <2>w, <1>1, <1>6, <2>2 DEF ApplyReducer
  <2>4. next.heap = written /\ next.dict = built
    BY <2>3 DEF Memory
  <2>5. HeapIsApart([h EXCEPT ![built] = items])
    BY HeapWritten
  <2> QED
    BY <2>w, <2>4, <2>5
<1>7. CASE ~(dict = Absent \/ case.reducer = "override") /\ case.reducer \notin {"append", "combine"}
  <2>1. next = Memory(h, dict)
    BY <1>1, <1>7 DEF ApplyReducer
  <2> QED
    BY <2>1 DEF Memory
<1> QED
  BY <1>4, <1>5, <1>6, <1>7

LEMMA BranchesInitInv == BranchesInit => BranchesInv
<1> SUFFICES ASSUME BranchesInit PROVE BranchesInv
  OBVIOUS
<1>1. <<>> \in Seq(Nat \X Nat) /\ \A b \in Branch : <<>> \in Seq(OwnItems(b))
  BY EmptySeq
<1>2. Before \in Seq(Nat \X Nat)
  <2>1. Old \in Nat \X Nat
    BY DEF Old
  <2>2. <<Old>> \in Seq(Nat \X Nat)
    BY <2>1
  <2> QED
    BY <1>1, <2>2 DEF Before
<1>3. Shared \in List
  BY DEF List
<1>4. heap \in [List -> Seq(Nat \X Nat)] /\ heap[Shared] = Before
  BY <1>1, <1>2, <1>3 DEF BranchesInit
<1>5. ASSUME NEW b \in Branch, NEW l \in OwnLists(b) PROVE heap[l] \in Seq(OwnItems(b))
  <2>1. l \in List /\ l # Shared
    BY ListsAreApart
  <2> QED
    BY <1>1, <2>1 DEF BranchesInit
<1> QED
  BY <1>3, <1>4, <1>5 DEF BranchesInit, BranchesInv, HeapIsApart

LEMMA NodeReturnsInv ==
    ASSUME BranchesInv, NEW b \in Branch, NodeReturns(b)
    PROVE  BranchesInv'
<1>0. /\ outcome # "merged" /\ position \in [Branch -> Nat] /\ position[b] < Lengths[b]
      /\ state = IF case.present THEN Shared ELSE Absent
      /\ position' = [position EXCEPT ![b] = position[b] + 1]
      /\ UNCHANGED <<case, state, outcome>>
  BY DEF NodeReturns, CanRun, BranchesInv
<1>1. position' \in [Branch -> Nat]
  BY <1>0
<1>2. SUFFICES ASSUME ~ExtendsState
               PROVE  /\ HeapIsApart(heap')
                      /\ branchState' \in [Branch -> List \cup {Absent}]
                      /\ delta' \in [Branch -> List \cup {Absent}]
                      /\ \A c \in Branch : /\ branchState'[c] \in OwnLists(c) \cup {state}
                                           /\ delta'[c] \in OwnLists(c) \cup {Absent}
  <2> QED
    BY <1>0, <1>1 DEF BranchesInv, ExtendsState, HeapIsApart, Before
<1>3. /\ HeapIsApart(heap)
      /\ branchState \in [Branch -> List \cup {Absent}] /\ delta \in [Branch -> List \cup {Absent}]
      /\ \A c \in Branch : /\ branchState[c] \in OwnLists(c) \cup {state}
                           /\ delta[c] \in OwnLists(c) \cup {Absent}
  BY <1>0, <1>2 DEF BranchesInv
<1>4. PICK i \in 1..Lengths[b] : i = position[b] + 1
  BY <1>0, BranchesAreNumbers
<1>5. PICK value \in OwnLists(b) : value = Returned(b, i)
  BY DEF OwnLists
<1>6. PICK saying \in Seq(OwnItems(b)) : saying = Contribution(b, <<b, i>>)
  <2>0. <<b, i>> \in Nat \X Nat /\ <<b, i>>[1] = b
    BY BranchesAreNumbers
  <2>1. PICK item \in OwnItems(b) : item = <<b, i>>
    BY <2>0 DEF OwnItems
  <2>2. <<item>> \in Seq(OwnItems(b))
    BY <2>1
  <2>3. branchState[b] # Absent => heap[branchState[b]] \in Seq(OwnItems(b))
    BY <1>0, <1>3, BeforeIsOwn DEF HeapIsApart
  <2>4. branchState[b] # Absent => Append(heap[branchState[b]], item) \in Seq(OwnItems(b))
    BY <2>1, <2>3
  <2> QED
    BY <2>1, <2>2, <2>4 DEF Contribution
<1>7. PICK written : written = [heap EXCEPT ![value] = saying]
  OBVIOUS
<1>8. HeapIsApart(written)
  BY <1>3, <1>7, HeapWritten
<1>9. PICK inBranch : inBranch = ApplyReducer(Memory(written, branchState[b]), value, Built("branch", b))
  OBVIOUS
<1>10. Built("branch", b) \in OwnLists(b) /\ Built("delta", b) \in OwnLists(b)
  BY DEF OwnLists
<1>11. HeapIsApart(inBranch.heap) /\ inBranch.dict \in OwnLists(b) \cup {branchState[b]}
  <2>1. branchState[b] \in OwnLists(b) \cup {Shared, Absent}
    BY <1>0, <1>3
  <2>2. case.reducer = "append" => branchState[b] # Shared
    <3>1. Shared \notin OwnLists(b) /\ Shared # Absent
      BY ListsAreApart
    <3> QED
      BY <3>1, <1>0, <1>2, <1>3 DEF ExtendsState
  <2> QED
    BY <1>8, <1>9, <1>10, <2>1, <2>2, ReducerStaysApart
<1>12. PICK inDelta : inDelta = ApplyReducer(Memory(inBranch.heap, delta[b]), value, Built("delta", b))
  OBVIOUS
<1>13. HeapIsApart(inDelta.heap) /\ inDelta.dict \in OwnLists(b) \cup {delta[b]}
  <2>1. delta[b] \in OwnLists(b) \cup {Shared, Absent} /\ delta[b] # Shared
    BY <1>3, ListsAreApart
  <2> QED
    BY <1>10, <1>11, <1>12, <2>1, ReducerStaysApart
<1>14. /\ heap' = inDelta.heap
       /\ branchState' = [branchState EXCEPT ![b] = inBranch.dict]
       /\ delta' = [delta EXCEPT ![b] = inDelta.dict]
  BY <1>4, <1>5, <1>6, <1>7, <1>9, <1>12 DEF NodeReturns
<1>15. OwnLists(b) \subseteq List
  BY ListsAreApart
<1> QED
  BY <1>3, <1>11, <1>13, <1>14, <1>15

LEMMA BranchesNextInv == BranchesInv /\ [BranchesNext]_branchesVars => BranchesInv'
<1> SUFFICES ASSUME BranchesInv, [BranchesNext]_branchesVars PROVE BranchesInv'
  OBVIOUS
<1>1. CASE UNCHANGED <<case, heap, state, branchState, delta>>
           /\ (outcome' = "merged" \/ outcome # "merged" \/ outcome' = outcome)
           /\ (outcome # "merged" => position' \in [Branch -> Nat])
  <2>1. outcome' # "merged" => outcome # "merged"
    BY <1>1
  <2>2. HeapIsApart(heap)' = HeapIsApart(heap) /\ ExtendsState' = ExtendsState
    BY <1>1 DEF HeapIsApart, ExtendsState, Before
  <2> QED
    BY <1>1, <2>1, <2>2 DEF BranchesInv
<1>2. CASE UNCHANGED branchesVars
  BY <1>1, <1>2 DEF branchesVars, BranchesInv
<1>3. CASE \E b \in Branch : NodeReturns(b)
  BY <1>3, NodeReturnsInv
<1>4. ASSUME NEW b \in Branch, NodeReturnsNothing(b) \/ NodeRaises(b)
      PROVE  BranchesInv'
  <2>1. outcome # "merged"
    BY <1>4 DEF NodeReturnsNothing, NodeRaises, CanRun
  <2>2. position' \in [Branch -> Nat]
    BY <1>4, <2>1 DEF NodeReturnsNothing, NodeRaises, BranchesInv
  <2> QED
    BY <1>1, <1>4, <2>1, <2>2 DEF NodeReturnsNothing, NodeRaises
<1>5. CASE CancelSiblings \/ Timeout
  <2>1. outcome # "merged" /\ UNCHANGED position
    BY <1>5 DEF CancelSiblings, Timeout
  <2> QED
    BY <1>1, <1>5, <2>1 DEF CancelSiblings, Timeout, BranchesInv
<1>6. CASE MergeDeltas
  BY <1>6 DEF MergeDeltas, BranchesInv
<1>7. CASE Done
  BY <1>2, <1>7 DEF Done
<1> QED
  BY <1>2, <1>3, <1>4, <1>5, <1>6, <1>7 DEF BranchesNext

(* No branch sees what another wrote, and a node that failed has left the   *)
(* state alone, but through the list that "append" extends.                 *)
THEOREM BranchesStayApart == BranchesSpec => [](FailureLeavesStateAlone /\ BranchesAreIsolated)
<1>1. BranchesInv => FailureLeavesStateAlone
  <2> SUFFICES ASSUME BranchesInv, outcome = "failed", ~ExtendsState
               PROVE  Contents(state) = Before
    BY DEF FailureLeavesStateAlone, ExtendsState
  <2>1. HeapIsApart(heap) /\ state = IF case.present THEN Shared ELSE Absent
    BY DEF BranchesInv
  <2>2. Shared # Absent
    BY AbsentAssumption DEF List
  <2> QED
    BY <2>1, <2>2 DEF Contents, HeapIsApart, Before
<1>2. BranchesInv => BranchesAreIsolated
  <2> SUFFICES ASSUME BranchesInv, outcome # "merged", ~ExtendsState, NEW b \in Branch
               PROVE  \A item \in ToSet(Contents(branchState[b])) \cup ToSet(Contents(delta[b])) :
                          item = Old \/ item[1] = b
    BY DEF BranchesAreIsolated, ExtendsState
  <2>1. /\ HeapIsApart(heap) /\ state \in {Shared, Absent}
        /\ branchState[b] \in OwnLists(b) \cup {state}
        /\ delta[b] \in OwnLists(b) \cup {Absent}
    BY DEF BranchesInv
  <2>2. ASSUME NEW dict \in OwnLists(b) \cup {Shared, Absent}
        PROVE  Contents(dict) \in Seq(OwnItems(b))
    BY <2>1, BeforeIsOwn, EmptySeq DEF HeapIsApart, Contents
  <2>3. \A s \in Seq(OwnItems(b)) : ToSet(s) \subseteq OwnItems(b)
    BY DEF ToSet
  <2>4. ToSet(Contents(branchState[b])) \subseteq OwnItems(b)
        /\ ToSet(Contents(delta[b])) \subseteq OwnItems(b)
    BY <2>1, <2>2, <2>3
  <2> QED
    BY <2>4 DEF OwnItems
<1>3. BranchesInv => FailureLeavesStateAlone /\ BranchesAreIsolated
  BY <1>1, <1>2
<1> QED
  BY <1>3, BranchesInitInv, BranchesNextInv, PTL DEF BranchesSpec

-----------------------------------------------------------------------------
(* What the merge makes of the deltas.                                      *)
AnyItem == Nat \X Nat

Past(b) == {Returned(b, i) : i \in 1..position[b]}

(* What the delta of a branch holds of what its nodes returned.             *)
DeltaTells(b) ==
    /\ delta[b] \in {Absent, Built("delta", b)} \cup Past(b)
    /\ branchState[b] \in {state, Built("branch", b)} \cup Past(b)
    /\ delta[b] = Absent <=> said[b] = <<>>
    /\ case.reducer = "append" =>
          delta[b] # Built("delta", b) /\ branchState[b] # Built("branch", b)
    /\ case.reducer = "override" =>
          branchState[b] = IF said[b] = <<>> THEN state ELSE delta[b]
    /\ said[b] # <<>> =>
          CASE case.reducer = "combine"  -> heap[delta[b]] = said[b]
            [] case.reducer = "override" -> heap[delta[b]] = Before \o said[b]
            [] case.reducer = "keep"     -> heap[delta[b]] = <<Head(said[b])>>
            [] case.reducer = "append"   ->
                 /\ Len(said[b]) = 1 => heap[delta[b]] = said[b]
                 /\ ToSet(said[b]) \subseteq ToSet(heap[delta[b]])

BranchesAtWork ==
    /\ heap \in [List -> Seq(AnyItem)]
    /\ position \in [Branch -> Nat]
    /\ state = IF case.present THEN Shared ELSE Absent
    /\ branchState \in [Branch -> List \cup {Absent}]
    /\ delta \in [Branch -> List \cup {Absent}]
    /\ \A b \in Branch : position[b] <= Lengths[b]
    /\ ToSet(Before) \subseteq ToSet(heap[Shared])
    /\ case.reducer # "append" => heap[Shared] = Before

MergeInv ==
    /\ case \in Cases
    /\ said \in [Branch -> Seq(AnyItem)]
    /\ outcome # "merged" => BranchesAtWork /\ \A b \in Branch : DeltaTells(b)
    /\ outcome = "merged" => MergedOnceInBranchOrder /\ NothingIsLost

-----------------------------------------------------------------------------
LEMMA SetsOfSequences ==
    ASSUME NEW T, NEW s \in Seq(T), NEW t \in Seq(T)
    PROVE  s \o t \in Seq(T) /\ ToSet(s \o t) = ToSet(s) \cup ToSet(t)
<1>1. s \o t \in Seq(T) /\ Len(s \o t) = Len(s) + Len(t) /\ Len(s) \in Nat /\ Len(t) \in Nat
  OBVIOUS
<1>2. \A i \in 1..Len(s) : (s \o t)[i] = s[i]
  OBVIOUS
<1>3. \A i \in 1..Len(t) : (s \o t)[Len(s) + i] = t[i]
  OBVIOUS
<1>4. ASSUME NEW i \in 1..(Len(s) + Len(t)) PROVE (s \o t)[i] \in ToSet(s) \cup ToSet(t)
  <2>1. CASE i \in 1..Len(s)
    BY <1>2, <2>1 DEF ToSet
  <2>2. CASE i \notin 1..Len(s)
    <3>1. i - Len(s) \in 1..Len(t) /\ Len(s) + (i - Len(s)) = i
      BY <1>1, <2>2
    <3>2. (s \o t)[i] = t[i - Len(s)]
      BY <1>3, <3>1
    <3> QED
      BY <3>1, <3>2 DEF ToSet
  <2> QED
    BY <2>1, <2>2
<1>5. ASSUME NEW i \in 1..Len(s) PROVE s[i] \in ToSet(s \o t)
  <2>1. i \in DOMAIN (s \o t)
    BY <1>1
  <2> QED
    BY <1>2, <2>1 DEF ToSet
<1>6. ASSUME NEW i \in 1..Len(t) PROVE t[i] \in ToSet(s \o t)
  <2>1. Len(s) + i \in DOMAIN (s \o t)
    BY <1>1
  <2> QED
    BY <1>3, <2>1 DEF ToSet
<1>7. DOMAIN (s \o t) = 1..(Len(s) + Len(t))
  BY <1>1
<1>8. ToSet(s \o t) \subseteq ToSet(s) \cup ToSet(t)
  <2> SUFFICES ASSUME NEW i \in DOMAIN (s \o t) PROVE (s \o t)[i] \in ToSet(s) \cup ToSet(t)
    BY DEF ToSet
  <2> QED
    BY <1>4, <1>7
<1>9. ToSet(s) \subseteq ToSet(s \o t)
  <2>1. ToSet(s) = {s[i] : i \in 1..Len(s)}
    BY DEF ToSet
  <2> QED
    BY <1>5, <2>1
<1>10. ToSet(t) \subseteq ToSet(s \o t)
  <2>1. ToSet(t) = {t[i] : i \in 1..Len(t)}
    BY DEF ToSet
  <2> QED
    BY <1>6, <2>1
<1> QED
  BY <1>1, <1>8, <1>9, <1>10

LEMMA SequenceFacts ==
    ASSUME NEW T, NEW s \in Seq(T), NEW x \in T
    PROVE  /\ Append(s, x) = s \o <<x>> /\ Append(s, x) \in Seq(T)
           /\ <<x>> \in Seq(T) /\ ToSet(<<x>>) = {x}
           /\ Append(s, x) # <<>> /\ Len(Append(s, x)) = Len(s) + 1
           /\ s = <<>> => Append(s, x) = <<x>>
           /\ s # <<>> => Head(Append(s, x)) = Head(s)
           /\ Head(<<x>>) = x
<1>1. <<x>> \in Seq(T) /\ Len(<<x>>) = 1 /\ <<x>>[1] = x
  OBVIOUS
<1>2. ToSet(<<x>>) = {x}
  BY <1>1 DEF ToSet
<1>3. Append(s, x) = s \o <<x>>
  OBVIOUS
<1>4. Append(s, x) \in Seq(T) /\ Len(Append(s, x)) = Len(s) + 1 /\ Append(s, x) # <<>>
  <2>1. Append(s, x) \in Seq(T) /\ Len(Append(s, x)) = Len(s) + 1 /\ Len(s) \in Nat
    OBVIOUS
  <2>2. Len(s) + 1 # 0
    BY <2>1
  <2>3. Len(<<>>) = 0
    OBVIOUS
  <2> QED
    BY <2>1, <2>2, <2>3
<1>5. s = <<>> => Append(s, x) = <<x>>
  OBVIOUS
<1>6. ASSUME s # <<>> PROVE Head(Append(s, x)) = Head(s)
  <2>1. 1 \in 1..Len(s)
    BY <1>6
  <2>2. Append(s, x)[1] = s[1]
    BY <2>1
  <2> QED
    BY <1>4, <1>6, <2>2
<1>7. Head(<<x>>) = x
  OBVIOUS
<1> QED
  BY <1>1, <1>2, <1>3, <1>4, <1>5, <1>6, <1>7

(* What a reducer makes of two dicts.                                       *)
LEMMA ReducedToValue ==
    ASSUME NEW h, NEW dict, NEW value, NEW built,
           NEW next, next = ApplyReducer(Memory(h, dict), value, built),
           dict = Absent \/ case.reducer = "override"
    PROVE  next.heap = h /\ next.dict = value
<1>1. next = Memory(h, value)
  BY DEF ApplyReducer, Memory
<1> QED
  BY <1>1 DEF Memory

LEMMA ReducedToFirst ==
    ASSUME NEW h, NEW dict, NEW value, NEW built,
           NEW next, next = ApplyReducer(Memory(h, dict), value, built),
           dict # Absent, case.reducer = "keep"
    PROVE  next.heap = h /\ next.dict = dict
<1>1. next = Memory(h, dict)
  BY DEF ApplyReducer, Memory
<1> QED
  BY <1>1 DEF Memory

Joins(h, dict, value, at, next) ==
    /\ next.dict = at
    /\ next.heap \in [List -> Seq(AnyItem)]
    /\ next.heap[at] = h[dict] \o h[value]
    /\ \A l \in List \ {at} : next.heap[l] = h[l]

LEMMA ReducedToJoined ==
    ASSUME NEW h \in [List -> Seq(AnyItem)], NEW dict \in List, NEW value \in List, NEW built \in List,
           NEW next, next = ApplyReducer(Memory(h, dict), value, built)
    PROVE  /\ case.reducer = "append" => Joins(h, dict, value, dict, next)
           /\ case.reducer = "combine" => Joins(h, dict, value, built, next)
<1>1. PICK joined \in Seq(AnyItem) : joined = h[dict] \o h[value]
  BY SetsOfSequences
<1>2. dict # Absent /\ Memory(h, dict).heap = h /\ Memory(h, dict).dict = dict
  BY AbsentAssumption DEF Memory
<1>3. ASSUME NEW at \in List, NEW w \in [List -> Seq(AnyItem)], w[at] = joined,
             \A l \in List \ {at} : w[l] = h[l], next = Memory(w, at)
      PROVE  Joins(h, dict, value, at, next)
  <2>1. next.heap = w /\ next.dict = at
    BY ONLY next = Memory(w, at) DEF Memory
  <2> QED
    BY <1>1, <1>3, <2>1 DEF Joins
<1>4. CASE case.reducer = "append"
  <2>1. PICK w : w = [h EXCEPT ![dict] = joined]
    OBVIOUS
  <2>4. w \in [List -> Seq(AnyItem)] /\ w[dict] = joined /\ \A l \in List \ {dict} : w[l] = h[l]
    BY <2>1
  <2>2. next = Memory(w, dict)
    BY <1>1, <1>2, <1>4, <2>1 DEF ApplyReducer
  <2>3. case.reducer # "combine"
    BY <1>4
  <2> QED
    BY <1>3, <2>2, <2>3, <2>4
<1>5. CASE case.reducer = "combine"
  <2>1. PICK w : w = [h EXCEPT ![built] = joined]
    OBVIOUS
  <2>4. w \in [List -> Seq(AnyItem)] /\ w[built] = joined /\ \A l \in List \ {built} : w[l] = h[l]
    BY <2>1
  <2>2. next = Memory(w, built)
    BY <1>1, <1>2, <1>5, <2>1 DEF ApplyReducer
  <2>3. case.reducer # "append"
    BY <1>5
  <2> QED
    BY <1>3, <2>2, <2>3, <2>4
<1> QED
  BY <1>4, <1>5

LEMMA ListsDiffer ==
    ASSUME NEW b \in Branch, NEW i \in 1..Lengths[b]
    PROVE  /\ Returned(b, i) \in OwnLists(b)
           /\ \A j \in Nat : Returned(b, i) = Returned(b, j) => i = j
           /\ Returned(b, i) \notin {Built("branch", b), Built("delta", b), Shared, Absent}
           /\ Built("branch", b) # Built("delta", b)
           /\ {Built("branch", b), Built("delta", b)} \subseteq OwnLists(b)
           /\ Built("merged", 0) \in List /\ Built("final", 0) \in List
           /\ Built("merged", 0) \notin OwnLists(b) /\ Built("final", 0) \notin OwnLists(b)
           /\ Built("merged", 0) # Built("final", 0)
           /\ Shared \notin {Built("merged", 0), Built("final", 0)}
<1>1. Returned(b, i) \in OwnLists(b)
  BY DEF OwnLists
<1>2. Returned(b, i) # Absent
  BY <1>1, ListsAreApart
<1>3. \A l \in OwnLists(b) : l[2] = b
  BY DEF OwnLists, Returned, Built
<1>4. b # 0
  BY BranchesAreNumbers
<1>5. {Built("branch", b), Built("delta", b)} \subseteq OwnLists(b)
  BY DEF OwnLists
<1>6. Built("merged", 0)[2] = 0 /\ Built("final", 0)[2] = 0
  BY DEF Built
<1>7. Built("merged", 0) \notin OwnLists(b) /\ Built("final", 0) \notin OwnLists(b)
  BY <1>3, <1>4, <1>6
<1>8. Built("merged", 0) \in List /\ Built("final", 0) \in List
  BY DEF List
<1>9. Returned(b, i) \notin {Built("branch", b), Built("delta", b), Shared}
  BY DEF Returned, Built, Shared
<1>10. \A j \in Nat : Returned(b, i) = Returned(b, j) => i = j
  BY DEF Returned
<1>11. /\ Built("branch", b) # Built("delta", b) /\ Built("merged", 0) # Built("final", 0)
       /\ Shared \notin {Built("merged", 0), Built("final", 0)}
  BY DEF Built, Shared
<1> QED
  BY <1>1, <1>2, <1>5, <1>7, <1>8, <1>9, <1>10, <1>11

-----------------------------------------------------------------------------
(* A node returns: its list, and the dicts the reducers make of it.         *)
Returning(b, i, value, saying, written, inBranch, inDelta) ==
    /\ i = position[b] + 1 /\ i \in 1..Lengths[b] /\ <<b, i>> \in AnyItem
    /\ value = Returned(b, i)
    /\ saying \in Seq(AnyItem) /\ saying = Contribution(b, <<b, i>>)
    /\ written = [heap EXCEPT ![value] = saying]
    /\ inBranch = ApplyReducer(Memory(written, branchState[b]), value, Built("branch", b))
    /\ inDelta = ApplyReducer(Memory(inBranch.heap, delta[b]), value, Built("delta", b))
    /\ heap' = inDelta.heap
    /\ branchState' = [branchState EXCEPT ![b] = inBranch.dict]
    /\ delta' = [delta EXCEPT ![b] = inDelta.dict]
    /\ position' = [position EXCEPT ![b] = i]
    /\ said' = [said EXCEPT ![b] = Append(said[b], <<b, i>>)]
    /\ UNCHANGED <<case, state, outcome>>

AtWork ==
    /\ case \in Cases
    /\ said \in [Branch -> Seq(AnyItem)]
    /\ BranchesAtWork /\ \A b \in Branch : DeltaTells(b)

LEMMA ReturnsMake ==
    ASSUME AtWork, NEW b \in Branch, NodeReturns(b)
    PROVE  \E i, value, saying, written, inBranch, inDelta :
              Returning(b, i, value, saying, written, inBranch, inDelta)
<1>0. /\ position \in [Branch -> Nat] /\ position[b] < Lengths[b]
      /\ UNCHANGED <<case, state, outcome>>
      /\ said' = [said EXCEPT ![b] = Append(said[b], <<b, position[b] + 1>>)]
      /\ position' = [position EXCEPT ![b] = position[b] + 1]
  BY DEF NodeReturns, CanRun, AtWork, BranchesAtWork
<1>1. PICK i \in 1..Lengths[b] : i = position[b] + 1
  BY <1>0, BranchesAreNumbers
<1>2. PICK value : value = Returned(b, i)
  OBVIOUS
<1>3. <<b, i>> \in AnyItem
  BY BranchesAreNumbers DEF AnyItem
<1>4. PICK saying \in Seq(AnyItem) : saying = Contribution(b, <<b, i>>)
  <2>1. PICK item \in AnyItem : item = <<b, i>>
    BY <1>3
  <2>2. <<item>> \in Seq(AnyItem)
    BY SequenceFacts, EmptySeq
  <2>3. branchState[b] # Absent => heap[branchState[b]] \in Seq(AnyItem)
    BY DEF AtWork, BranchesAtWork
  <2>4. branchState[b] # Absent => Append(heap[branchState[b]], item) \in Seq(AnyItem)
    BY <2>3
  <2> QED
    BY <2>1, <2>2, <2>4 DEF Contribution
<1>5. PICK written : written = [heap EXCEPT ![value] = saying]
  OBVIOUS
<1>6. PICK inBranch : inBranch = ApplyReducer(Memory(written, branchState[b]), value, Built("branch", b))
  OBVIOUS
<1>7. PICK inDelta : inDelta = ApplyReducer(Memory(inBranch.heap, delta[b]), value, Built("delta", b))
  OBVIOUS
<1>8. /\ heap' = inDelta.heap
      /\ branchState' = [branchState EXCEPT ![b] = inBranch.dict]
      /\ delta' = [delta EXCEPT ![b] = inDelta.dict]
  BY <1>1, <1>2, <1>4, <1>5, <1>6, <1>7 DEF NodeReturns
<1>9. Returning(b, i, value, saying, written, inBranch, inDelta)
  BY <1>0, <1>1, <1>2, <1>3, <1>4, <1>5, <1>6, <1>7, <1>8 DEF Returning
<1> QED
  BY <1>9

(* What every case of it needs.                                             *)
ReturnedList(b, i, value, saying, written) ==
    /\ i \in 1..Lengths[b] /\ value \in OwnLists(b) /\ value \in List
    /\ value \notin {Absent, Shared, Built("branch", b), Built("delta", b)} \cup Past(b)
    /\ value # delta[b] /\ value # branchState[b]
    /\ Past(b)' = Past(b) \cup {value} /\ Past(b) \subseteq OwnLists(b)
    /\ written \in [List -> Seq(AnyItem)] /\ written[value] = saying
    /\ \A l \in List \ {value} : written[l] = heap[l]
    /\ said'[b] = Append(said[b], <<b, i>>)
    /\ said'[b] = said[b] \o <<<<b, i>>>>
    /\ said'[b] # <<>> /\ said[b] \in Seq(AnyItem) /\ said' \in [Branch -> Seq(AnyItem)]
    /\ position' \in [Branch -> Nat] /\ \A c \in Branch : position'[c] <= Lengths[c]
    /\ case.reducer # "override" => saying = <<<<b, i>>>>

LEMMA ReturnFacts ==
    ASSUME AtWork, NEW b \in Branch, NEW i, NEW value, NEW saying, NEW written, NEW inBranch,
           NEW inDelta, Returning(b, i, value, saying, written, inBranch, inDelta)
    PROVE  ReturnedList(b, i, value, saying, written)
<1>0. /\ i = position[b] + 1 /\ i \in 1..Lengths[b] /\ <<b, i>> \in AnyItem
      /\ value = Returned(b, i)
      /\ saying \in Seq(AnyItem) /\ saying = Contribution(b, <<b, i>>)
      /\ written = [heap EXCEPT ![value] = saying]
      /\ position' = [position EXCEPT ![b] = i]
      /\ said' = [said EXCEPT ![b] = Append(said[b], <<b, i>>)]
  BY DEF Returning
<1>1. /\ heap \in [List -> Seq(AnyItem)] /\ position \in [Branch -> Nat]
      /\ said \in [Branch -> Seq(AnyItem)] /\ \A c \in Branch : position[c] <= Lengths[c]
      /\ state \in {Shared, Absent}
      /\ delta[b] \in {Absent, Built("delta", b)} \cup Past(b)
      /\ branchState[b] \in {state, Built("branch", b)} \cup Past(b)
  BY DEF AtWork, BranchesAtWork, DeltaTells
<1>2. value \in OwnLists(b) /\ value \in List /\ value \notin {Absent, Shared, Built("branch", b), Built("delta", b)}
  BY <1>0, ListsDiffer, ListsAreApart
<1>3. Past(b) \subseteq OwnLists(b)
  <2>1. \A j \in 1..position[b] : j \in 1..Lengths[b]
    BY <1>0, <1>1, BranchesAreNumbers
  <2> QED
    BY <2>1 DEF Past, OwnLists
<1>4. value \notin Past(b)
  <2> SUFFICES ASSUME NEW j \in 1..position[b], value = Returned(b, j) PROVE FALSE
    BY DEF Past
  <2>1. j \in Nat /\ Returned(b, i) = Returned(b, j)
    BY <1>0, <1>1
  <2>2. i = j
    BY <1>0, <2>1, ListsDiffer
  <2> QED
    BY <1>0, <1>1, <2>2
<1>5. Past(b)' = Past(b) \cup {value}
  <2>1. position'[b] = i
    BY <1>0, <1>1
  <2>2. 1..i = 1..position[b] \cup {i}
    BY <1>0, <1>1
  <2>3. Past(b)' = {Returned(b, j) : j \in 1..i}
    BY <2>1 DEF Past
  <2> QED
    BY <1>0, <2>2, <2>3 DEF Past
<1>6. /\ written \in [List -> Seq(AnyItem)] /\ written[value] = saying
      /\ \A l \in List \ {value} : written[l] = heap[l]
  BY <1>0, <1>1, <1>2
<1>7. PICK item \in AnyItem : item = <<b, i>>
  BY <1>0
<1>8. said'[b] = Append(said[b], item) /\ said[b] \in Seq(AnyItem)
  BY <1>0, <1>1, <1>7
<1>9. /\ Append(said[b], item) = said[b] \o <<item>> /\ Append(said[b], item) \in Seq(AnyItem)
      /\ Append(said[b], item) # <<>>
  BY <1>8, SequenceFacts
<1>10. said' \in [Branch -> Seq(AnyItem)]
  BY <1>0, <1>1, <1>7, <1>9
<1>11. position' \in [Branch -> Nat] /\ \A c \in Branch : position'[c] <= Lengths[c]
  BY <1>0, <1>1, BranchesAreNumbers
<1>12. case.reducer # "override" => saying = <<<<b, i>>>>
  BY <1>0 DEF Contribution
<1>13. value # delta[b] /\ value # branchState[b]
  BY <1>1, <1>2, <1>4
<1> QED
  BY <1>0, <1>2, <1>3, <1>4, <1>5, <1>6, <1>7, <1>8, <1>9, <1>10, <1>11, <1>12, <1>13
     DEF ReturnedList

(* What a branch writes, the other branches do not see.                     *)
WritesItsOwn(b) ==
    /\ heap' \in [List -> Seq(AnyItem)]
    /\ \A l \in List \ (OwnLists(b) \cup {Shared}) : heap'[l] = heap[l]
    /\ case.reducer # "append" => heap'[Shared] = heap[Shared]
    /\ ToSet(heap[Shared]) \subseteq ToSet(heap'[Shared])
    /\ branchState'[b] \in List \cup {Absent} /\ delta'[b] \in List

(* "keep": the first value stays.                                           *)
LEMMA KeepTells ==
    ASSUME AtWork, NEW b \in Branch, NEW i, NEW value, NEW saying, NEW written, NEW inBranch,
           NEW inDelta, Returning(b, i, value, saying, written, inBranch, inDelta),
           case.reducer = "keep"
    PROVE  DeltaTells(b)' /\ WritesItsOwn(b)
<1>0. /\ value \in OwnLists(b) /\ value \in List
      /\ value \notin {Absent, Shared} /\ value # delta[b]
      /\ Past(b)' = Past(b) \cup {value} /\ Past(b) \subseteq OwnLists(b)
      /\ written \in [List -> Seq(AnyItem)] /\ written[value] = saying
      /\ \A l \in List \ {value} : written[l] = heap[l]
      /\ said'[b] = Append(said[b], <<b, i>>)
      /\ said'[b] # <<>> /\ said[b] \in Seq(AnyItem)
      /\ saying = <<<<b, i>>>>
  <2>1. ReturnedList(b, i, value, saying, written)
    BY ReturnFacts
  <2> QED
    BY <2>1 DEF ReturnedList
<1>1. /\ inBranch = ApplyReducer(Memory(written, branchState[b]), value, Built("branch", b))
      /\ inDelta = ApplyReducer(Memory(inBranch.heap, delta[b]), value, Built("delta", b))
      /\ heap' = inDelta.heap /\ <<b, i>> \in AnyItem
      /\ branchState' = [branchState EXCEPT ![b] = inBranch.dict]
      /\ delta' = [delta EXCEPT ![b] = inDelta.dict]
      /\ UNCHANGED <<case, state, outcome>>
  BY DEF Returning
<1>2. /\ branchState \in [Branch -> List \cup {Absent}] /\ delta \in [Branch -> List \cup {Absent}]
      /\ DeltaTells(b)
  BY DEF AtWork, BranchesAtWork
<1>3. inBranch.heap = written /\ inBranch.dict = IF branchState[b] = Absent THEN value ELSE branchState[b]
  BY <1>1, ReducedToValue, ReducedToFirst
<1>4. inDelta.heap = written /\ inDelta.dict = IF delta[b] = Absent THEN value ELSE delta[b]
  BY <1>1, <1>3, ReducedToValue, ReducedToFirst
<1>5. heap' = written /\ delta'[b] = (IF delta[b] = Absent THEN value ELSE delta[b])
      /\ branchState'[b] = (IF branchState[b] = Absent THEN value ELSE branchState[b])
  BY <1>1, <1>2, <1>3, <1>4
<1>6. heap'[delta'[b]] = <<Head(said'[b])>>
  <2>1. PICK item \in AnyItem : item = <<b, i>>
    BY <1>1
  <2>2. CASE delta[b] = Absent
    <3>1. said[b] = <<>>
      BY <1>2, <2>2 DEF DeltaTells
    <3>2. said'[b] = <<item>> /\ Head(<<item>>) = item
      BY <1>0, <2>1, <3>1, SequenceFacts
    <3> QED
      BY <1>0, <1>5, <2>1, <2>2, <3>2
  <2>3. CASE delta[b] # Absent
    <3>1. said[b] # <<>> /\ heap[delta[b]] = <<Head(said[b])>>
      BY <1>2, <2>3 DEF DeltaTells
    <3>2. Head(said'[b]) = Head(said[b])
      BY <1>0, <2>1, <3>1, SequenceFacts
    <3>3. delta[b] \in List \ {value}
      BY <1>0, <1>2, <2>3
    <3> QED
      BY <1>0, <1>5, <2>3, <3>1, <3>2, <3>3
  <2> QED
    BY <2>2, <2>3
<1>7. WritesItsOwn(b)
  <2>1. heap'[Shared] = heap[Shared]
    BY <1>0, <1>5, ListsAreApart
  <2> QED
    BY <1>0, <1>2, <1>5, <2>1 DEF WritesItsOwn
<1>8. /\ delta'[b] \in {Absent, Built("delta", b)} \cup Past(b)'
      /\ branchState'[b] \in {state', Built("branch", b)} \cup Past(b)'
      /\ delta'[b] # Absent /\ case'.reducer = "keep"
  BY <1>0, <1>1, <1>2, <1>5 DEF DeltaTells
<1> QED
  BY <1>0, <1>6, <1>7, <1>8 DEF DeltaTells

(* "override": the last value, made of the one before it.                   *)
LEMMA OverrideTells ==
    ASSUME AtWork, NEW b \in Branch, NEW i, NEW value, NEW saying, NEW written, NEW inBranch,
           NEW inDelta, Returning(b, i, value, saying, written, inBranch, inDelta),
           case.reducer = "override"
    PROVE  DeltaTells(b)' /\ WritesItsOwn(b)
<1>0. /\ value \in OwnLists(b) /\ value \in List
      /\ value \notin {Absent, Shared} /\ value # delta[b]
      /\ Past(b)' = Past(b) \cup {value} /\ Past(b) \subseteq OwnLists(b)
      /\ written \in [List -> Seq(AnyItem)] /\ written[value] = saying
      /\ \A l \in List \ {value} : written[l] = heap[l]
      /\ said'[b] = said[b] \o <<<<b, i>>>>
      /\ said'[b] # <<>> /\ said[b] \in Seq(AnyItem)
  <2>1. ReturnedList(b, i, value, saying, written)
    BY ReturnFacts
  <2> QED
    BY <2>1 DEF ReturnedList
<1>1. /\ inBranch = ApplyReducer(Memory(written, branchState[b]), value, Built("branch", b))
      /\ inDelta = ApplyReducer(Memory(inBranch.heap, delta[b]), value, Built("delta", b))
      /\ heap' = inDelta.heap /\ <<b, i>> \in AnyItem
      /\ branchState' = [branchState EXCEPT ![b] = inBranch.dict]
      /\ delta' = [delta EXCEPT ![b] = inDelta.dict]
      /\ saying = Contribution(b, <<b, i>>)
      /\ UNCHANGED <<case, state, outcome>>
  BY DEF Returning
<1>2. /\ branchState \in [Branch -> List \cup {Absent}] /\ delta \in [Branch -> List \cup {Absent}]
      /\ DeltaTells(b) /\ heap[Shared] = Before /\ heap \in [List -> Seq(AnyItem)]
      /\ state = IF case.present THEN Shared ELSE Absent
  BY DEF AtWork, BranchesAtWork
<1>3. inBranch.heap = written /\ inBranch.dict = value
  BY <1>1, ReducedToValue
<1>4. inDelta.heap = written /\ inDelta.dict = value
  BY <1>1, <1>3, ReducedToValue
<1>5. heap' = written /\ delta'[b] = value /\ branchState'[b] = value
  BY <1>1, <1>2, <1>3, <1>4
<1>6. saying = Before \o said'[b]
  <2>1. PICK item \in AnyItem : item = <<b, i>>
    BY <1>1
  <2>2. branchState[b] = IF said[b] = <<>> THEN state ELSE delta[b]
    BY <1>2 DEF DeltaTells
  <2>3. Before \in Seq(AnyItem) /\ <<item>> \in Seq(AnyItem)
    <3>1. Old \in AnyItem
      BY DEF Old, AnyItem
    <3> QED
      BY <3>1 DEF Before
  <2>4. CASE said[b] = <<>>
    <3>1. said'[b] = <<item>>
      BY <1>0, <2>1, <2>3, <2>4
    <3>2. CASE case.present
      <4>1. Shared # Absent
        BY ListsAreApart
      <4>2. saying = Append(Before, item)
        BY <1>1, <1>2, <2>1, <2>2, <2>4, <3>2, <4>1 DEF Contribution
      <4> QED
        BY <2>3, <3>1, <4>2, SequenceFacts
    <3>3. CASE ~case.present
      <4>1. saying = <<item>>
        BY <1>1, <1>2, <2>1, <2>2, <2>4, <3>3 DEF Contribution
      <4>2. Before = <<>>
        BY <3>3 DEF Before
      <4> QED
        BY <2>3, <3>1, <4>1, <4>2
    <3> QED
      BY <3>2, <3>3
  <2>5. CASE said[b] # <<>>
    <3>1. delta[b] # Absent /\ branchState[b] = delta[b] /\ heap[delta[b]] = Before \o said[b]
      BY <1>2, <2>2, <2>5 DEF DeltaTells
    <3>2. saying = Append(Before \o said[b], item)
      BY <1>1, <2>1, <3>1 DEF Contribution
    <3>3. Append(Before \o said[b], item) = (Before \o said[b]) \o <<item>>
      <4>1. PICK text \in Seq(AnyItem) : text = Before \o said[b]
        BY <1>0, <2>3, ConcatProperties
      <4> QED
        BY <4>1, SequenceFacts
    <3>4. (Before \o said[b]) \o <<item>> = Before \o (said[b] \o <<item>>)
      <4>1. PICK old \in Seq(AnyItem), text \in Seq(AnyItem), last \in Seq(AnyItem) :
                old = Before /\ text = said[b] /\ last = <<item>>
        BY <1>0, <2>3
      <4>2. (old \o text) \o last = old \o (text \o last)
        BY ConcatAssociative, SMTT(30)
      <4> QED
        BY <4>1, <4>2, Zenon
    <3> QED
      BY <1>0, <2>1, <3>2, <3>3, <3>4
  <2> QED
    BY <2>4, <2>5
<1>7. WritesItsOwn(b)
  <2>1. heap'[Shared] = heap[Shared]
    BY <1>0, <1>5, ListsAreApart
  <2> QED
    BY <1>0, <1>2, <1>5, <2>1 DEF WritesItsOwn
<1>8. case'.reducer = "override" /\ Before' = Before
  BY <1>1 DEF Before
<1> QED
  BY <1>0, <1>5, <1>6, <1>7, <1>8 DEF DeltaTells

(* A callable: a new list for every item that joins the others.             *)
LEMMA CombineTells ==
    ASSUME AtWork, NEW b \in Branch, NEW i, NEW value, NEW saying, NEW written, NEW inBranch,
           NEW inDelta, Returning(b, i, value, saying, written, inBranch, inDelta),
           case.reducer = "combine"
    PROVE  DeltaTells(b)' /\ WritesItsOwn(b)
<1> DEFINE InCopy == Built("branch", b)
           InDelta == Built("delta", b)
<1>0. /\ value \in OwnLists(b) /\ value \in List
      /\ value \notin {Absent, Shared, InCopy, InDelta} /\ value # delta[b] /\ value # branchState[b]
      /\ Past(b)' = Past(b) \cup {value} /\ Past(b) \subseteq OwnLists(b)
      /\ written \in [List -> Seq(AnyItem)] /\ written[value] = saying
      /\ \A l \in List \ {value} : written[l] = heap[l]
      /\ said'[b] = said[b] \o <<<<b, i>>>> /\ said'[b] = Append(said[b], <<b, i>>)
      /\ said'[b] # <<>> /\ said[b] \in Seq(AnyItem)
      /\ saying = <<<<b, i>>>> /\ i \in 1..Lengths[b]
  <2>1. ReturnedList(b, i, value, saying, written)
    BY ReturnFacts
  <2> QED
    BY <2>1 DEF ReturnedList
<1>1. /\ inBranch = ApplyReducer(Memory(written, branchState[b]), value, InCopy)
      /\ inDelta = ApplyReducer(Memory(inBranch.heap, delta[b]), value, InDelta)
      /\ heap' = inDelta.heap /\ <<b, i>> \in AnyItem
      /\ branchState' = [branchState EXCEPT ![b] = inBranch.dict]
      /\ delta' = [delta EXCEPT ![b] = inDelta.dict]
      /\ UNCHANGED <<case, state, outcome>>
  BY DEF Returning
<1>2. /\ branchState \in [Branch -> List \cup {Absent}] /\ delta \in [Branch -> List \cup {Absent}]
      /\ DeltaTells(b) /\ heap \in [List -> Seq(AnyItem)]
      /\ delta[b] \in {Absent, InDelta} \cup Past(b)
      /\ branchState[b] \in {state, InCopy} \cup Past(b)
  BY DEF AtWork, BranchesAtWork, DeltaTells
<1>3. /\ {InCopy, InDelta} \subseteq OwnLists(b) /\ {InCopy, InDelta} \subseteq List
      /\ InCopy # InDelta /\ Shared \in List /\ Shared \notin OwnLists(b)
      /\ Absent \notin List /\ Past(b) \subseteq List /\ InCopy \notin Past(b) /\ InDelta \notin Past(b)
  <2>1. {InCopy, InDelta} \subseteq OwnLists(b) /\ InCopy # InDelta
    BY <1>0, ListsDiffer
  <2>2. InCopy \notin Past(b) /\ InDelta \notin Past(b)
    BY DEF Past, Built, Returned
  <2> QED
    BY <1>0, <2>1, <2>2, ListsAreApart
<1> HIDE DEF InCopy, InDelta
<1>4. /\ inBranch.heap \in [List -> Seq(AnyItem)]
      /\ \A l \in List \ {InCopy} : inBranch.heap[l] = written[l]
      /\ inBranch.dict \in {value, InCopy}
  <2>1. CASE branchState[b] = Absent
    <3>1. inBranch.heap = written /\ inBranch.dict = value
      BY <1>1, <2>1, ReducedToValue
    <3> QED
      BY <1>0, <3>1
  <2>2. CASE branchState[b] # Absent
    <3>1. branchState[b] \in List
      BY <1>2, <2>2
    <3>2. InCopy \in List
      BY <1>3
    <3>3. /\ inBranch.heap \in [List -> Seq(AnyItem)] /\ inBranch.dict = InCopy
          /\ \A l \in List \ {InCopy} : inBranch.heap[l] = written[l]
      <4>1. PICK dict \in List : dict = branchState[b]
        BY <3>1
      <4>2. inBranch = ApplyReducer(Memory(written, dict), value, InCopy)
        BY <1>1, <4>1
      <4>3. value \in List /\ written \in [List -> Seq(AnyItem)]
        BY <1>0
      <4> QED
        <5>1. Joins(written, dict, value, InCopy, inBranch)
          BY <3>2, <4>2, <4>3, ReducedToJoined
        <5> QED
          BY <5>1 DEF Joins
    <3> QED
      BY <1>0, <1>3, <3>3
  <2> QED
    BY <2>1, <2>2
<1>5. inBranch.heap[value] = saying /\ \A l \in List \ {InCopy, value} : inBranch.heap[l] = heap[l]
  BY <1>0, <1>4
<1>6. CASE delta[b] = Absent
  <2>1. inDelta.heap = inBranch.heap /\ inDelta.dict = value
    BY <1>1, <1>6, ReducedToValue
  <2>2. said[b] = <<>>
    BY <1>2, <1>6 DEF DeltaTells
  <2>3. said'[b] = <<<<b, i>>>>
    <3>1. PICK item \in AnyItem : item = <<b, i>>
      BY <1>1
    <3> QED
      BY <1>0, <2>2, <3>1, SequenceFacts
  <2>4. heap' = inBranch.heap /\ delta'[b] = value /\ branchState'[b] \in {value, InCopy}
    BY <1>1, <1>2, <1>4, <2>1
  <2>5. heap'[delta'[b]] = said'[b]
    BY <1>0, <1>5, <2>3, <2>4
  <2>6. WritesItsOwn(b)
    <3>1. \A l \in List \ OwnLists(b) : heap'[l] = heap[l]
      BY <1>0, <1>3, <1>5, <2>4
    <3>2. heap' \in [List -> Seq(AnyItem)]
      BY <1>4, <2>4
    <3> QED
      BY <1>0, <1>3, <2>4, <3>1, <3>2 DEF WritesItsOwn
  <2>7. case'.reducer = "combine" /\ value \in Past(b)'
    BY <1>0, <1>1
  <2> QED
    BY <1>0, <2>4, <2>5, <2>6, <2>7 DEF DeltaTells, InCopy, InDelta
<1>7. CASE delta[b] # Absent
  <2>1. delta[b] \in List \ {InCopy, value}
    BY <1>0, <1>2, <1>3, <1>7
  <2>2. said[b] # <<>> /\ heap[delta[b]] = said[b]
    BY <1>2, <1>7 DEF DeltaTells
  <2>3. inBranch.heap[delta[b]] \o inBranch.heap[value] = said'[b]
    BY <1>0, <1>5, <2>1, <2>2
  <2>4. delta[b] \in List /\ InDelta \in List
    BY <1>3, <2>1
  <2>5. /\ inDelta.heap \in [List -> Seq(AnyItem)] /\ inDelta.dict = InDelta
        /\ inDelta.heap[InDelta] = inBranch.heap[delta[b]] \o inBranch.heap[value]
        /\ \A l \in List \ {InDelta} : inDelta.heap[l] = inBranch.heap[l]
    <3>1. PICK dict \in List : dict = delta[b]
      BY <2>4
    <3>2. inDelta = ApplyReducer(Memory(inBranch.heap, dict), value, InDelta)
      BY <1>1, <3>1
    <3>3. PICK h \in [List -> Seq(AnyItem)] : h = inBranch.heap
      BY <1>4
    <3>4. value \in List
      BY <1>0
    <3>5. /\ inDelta.heap \in [List -> Seq(AnyItem)] /\ inDelta.dict = InDelta
          /\ inDelta.heap[InDelta] = h[dict] \o h[value]
          /\ \A l \in List \ {InDelta} : inDelta.heap[l] = h[l]
      <4>1. Joins(h, dict, value, InDelta, inDelta)
        BY <2>4, <3>2, <3>3, <3>4, ReducedToJoined
      <4> QED
        BY <4>1 DEF Joins
    <3> QED
      BY <3>1, <3>3, <3>5
  <2>6. /\ heap' \in [List -> Seq(AnyItem)] /\ heap'[InDelta] = said'[b]
        /\ \A l \in List \ {InDelta} : heap'[l] = inBranch.heap[l]
        /\ delta'[b] = InDelta /\ branchState'[b] \in {value, InCopy}
    BY <1>1, <1>2, <1>3, <1>4, <2>3, <2>5
  <2>7. heap'[delta'[b]] = said'[b]
    BY <2>6
  <2>8. WritesItsOwn(b)
    <3>1. \A l \in List \ OwnLists(b) : heap'[l] = heap[l]
      BY <1>0, <1>3, <1>5, <2>6
    <3> QED
      BY <1>0, <1>3, <2>6, <3>1 DEF WritesItsOwn
  <2>9. case'.reducer = "combine" /\ value \in Past(b)' /\ InDelta # Absent
    BY <1>0, <1>1, <1>3
  <2> QED
    BY <1>0, <2>6, <2>7, <2>8, <2>9 DEF DeltaTells, InCopy, InDelta
<1> QED
  BY <1>6, <1>7

(* "append": the list is extended where it lies.                            *)
LEMMA AppendTells ==
    ASSUME AtWork, NEW b \in Branch, NEW i, NEW value, NEW saying, NEW written, NEW inBranch,
           NEW inDelta, Returning(b, i, value, saying, written, inBranch, inDelta),
           case.reducer = "append"
    PROVE  DeltaTells(b)' /\ WritesItsOwn(b)
<1>0. /\ value \in OwnLists(b) /\ value \in List
      /\ value \notin {Absent, Shared} /\ value # delta[b] /\ value # branchState[b]
      /\ Past(b)' = Past(b) \cup {value} /\ Past(b) \subseteq OwnLists(b)
      /\ written \in [List -> Seq(AnyItem)] /\ written[value] = saying
      /\ \A l \in List \ {value} : written[l] = heap[l]
      /\ said'[b] = said[b] \o <<<<b, i>>>> /\ said'[b] = Append(said[b], <<b, i>>)
      /\ said'[b] # <<>> /\ said[b] \in Seq(AnyItem)
      /\ saying = <<<<b, i>>>> /\ i \in 1..Lengths[b]
  <2>1. ReturnedList(b, i, value, saying, written)
    BY ReturnFacts
  <2> QED
    BY <2>1 DEF ReturnedList
<1>1. /\ inBranch = ApplyReducer(Memory(written, branchState[b]), value, Built("branch", b))
      /\ inDelta = ApplyReducer(Memory(inBranch.heap, delta[b]), value, Built("delta", b))
      /\ heap' = inDelta.heap /\ <<b, i>> \in AnyItem
      /\ branchState' = [branchState EXCEPT ![b] = inBranch.dict]
      /\ delta' = [delta EXCEPT ![b] = inDelta.dict]
      /\ UNCHANGED <<case, state, outcome>>
  BY DEF Returning
<1>2. /\ branchState \in [Branch -> List \cup {Absent}] /\ delta \in [Branch -> List \cup {Absent}]
      /\ DeltaTells(b) /\ heap \in [List -> Seq(AnyItem)]
      /\ delta[b] \in {Absent} \cup Past(b)
      /\ branchState[b] \in {state} \cup Past(b) /\ state \in {Shared, Absent}
  BY DEF AtWork, BranchesAtWork, DeltaTells
<1>3. /\ Built("branch", b) \in List /\ Built("delta", b) \in List
      /\ Shared \in List /\ Shared \notin OwnLists(b)
      /\ Absent \notin List /\ Past(b) \subseteq List /\ OwnLists(b) \subseteq List
  BY <1>0, ListsAreApart, ListsDiffer
<1>4. /\ inBranch.heap \in [List -> Seq(AnyItem)] /\ inBranch.heap[value] = saying
      /\ \A l \in List \ (OwnLists(b) \cup {Shared}) : inBranch.heap[l] = heap[l]
      /\ \A l \in List \ {value} : ToSet(heap[l]) \subseteq ToSet(inBranch.heap[l])
      /\ inBranch.dict = IF branchState[b] = Absent THEN value ELSE branchState[b]
  <2>1. CASE branchState[b] = Absent
    <3>1. inBranch.heap = written /\ inBranch.dict = value
      BY <1>1, <2>1, ReducedToValue
    <3> QED
      BY <1>0, <2>1, <3>1
  <2>2. CASE branchState[b] # Absent
    <3>1. PICK dict \in List : dict = branchState[b] /\ dict # value /\ dict \in OwnLists(b) \cup {Shared}
      BY <1>0, <1>2, <2>2
    <3>2. inBranch = ApplyReducer(Memory(written, dict), value, Built("branch", b))
      BY <1>1, <3>1
    <3>3. value \in List /\ written \in [List -> Seq(AnyItem)] /\ Built("branch", b) \in List
      BY <1>0, <1>3
    <3>4. /\ inBranch.heap \in [List -> Seq(AnyItem)] /\ inBranch.dict = dict
          /\ inBranch.heap[dict] = written[dict] \o written[value]
          /\ \A l \in List \ {dict} : inBranch.heap[l] = written[l]
      <4>1. Joins(written, dict, value, dict, inBranch)
        BY <3>2, <3>3, ReducedToJoined
      <4> QED
        BY <4>1 DEF Joins
    <3>5. ToSet(heap[dict]) \subseteq ToSet(inBranch.heap[dict])
      <4>1. PICK s \in Seq(AnyItem), t \in Seq(AnyItem) : s = written[dict] /\ t = written[value]
        BY <3>3
      <4>2. ToSet(s) \subseteq ToSet(s \o t)
        BY SetsOfSequences
      <4>3. s = heap[dict]
        BY <1>0, <3>1, <4>1
      <4> QED
        BY <3>4, <4>1, <4>2, <4>3
    <3> QED
      BY <1>0, <2>2, <3>1, <3>4, <3>5
  <2> QED
    BY <2>1, <2>2
<1>5. CASE delta[b] = Absent
  <2>1. inDelta.heap = inBranch.heap /\ inDelta.dict = value
    BY <1>1, <1>5, ReducedToValue
  <2>2. said[b] = <<>>
    BY <1>2, <1>5 DEF DeltaTells
  <2>3. said'[b] = <<<<b, i>>>>
    <3>1. PICK item \in AnyItem : item = <<b, i>>
      BY <1>1
    <3> QED
      BY <1>0, <2>2, <3>1, SequenceFacts
  <2>4. /\ heap' = inBranch.heap /\ delta'[b] = value
        /\ branchState'[b] = IF branchState[b] = Absent THEN value ELSE branchState[b]
    BY <1>1, <1>2, <1>4, <2>1
  <2>5. heap'[delta'[b]] = said'[b]
    BY <1>0, <1>4, <2>3, <2>4
  <2>6. WritesItsOwn(b)
    <3>1. ToSet(heap[Shared]) \subseteq ToSet(heap'[Shared])
      BY <1>0, <1>3, <1>4, <2>4
    <3> QED
      BY <1>0, <1>2, <1>4, <2>4, <3>1 DEF WritesItsOwn
  <2>7. /\ case'.reducer = "append" /\ value \in Past(b)'
        /\ branchState'[b] \in {state'} \cup Past(b)'
    BY <1>0, <1>1, <1>2, <2>4
  <2>8. delta'[b] # Built("delta", b) /\ branchState'[b] # Built("branch", b)
    <3>1. Built("delta", b) \notin Past(b) \cup {value} /\ Built("branch", b) \notin Past(b) \cup {value}
      <4>1. value = Returned(b, i)
        BY DEF Returning
      <4> QED
        BY <4>1 DEF Past, Built, Returned
    <3>2. Built("branch", b) # branchState[b]
      BY <1>2 DEF DeltaTells
    <3> QED
      BY <2>4, <3>1, <3>2
  <2> QED
    BY <1>0, <2>4, <2>5, <2>6, <2>7, <2>8 DEF DeltaTells
<1>6. CASE delta[b] # Absent
  <2>1. PICK dict \in List : dict = delta[b] /\ dict # value /\ dict \in OwnLists(b) /\ dict \in Past(b)
    BY <1>0, <1>2, <1>3, <1>6
  <2>2. said[b] # <<>> /\ ToSet(said[b]) \subseteq ToSet(heap[dict])
    BY <1>2, <1>6, <2>1 DEF DeltaTells
  <2>3. PICK h \in [List -> Seq(AnyItem)] : h = inBranch.heap
    BY <1>4
  <2>4. inDelta = ApplyReducer(Memory(h, dict), value, Built("delta", b))
    BY <1>1, <2>1, <2>3
  <2>5. /\ inDelta.heap \in [List -> Seq(AnyItem)] /\ inDelta.dict = dict
        /\ inDelta.heap[dict] = h[dict] \o h[value]
        /\ \A l \in List \ {dict} : inDelta.heap[l] = h[l]
    <3>1. value \in List /\ Built("delta", b) \in List
      BY <1>0, <1>3
    <3> QED
      <4>1. Joins(h, dict, value, dict, inDelta)
        BY <2>4, <3>1, ReducedToJoined
      <4> QED
        BY <4>1 DEF Joins
  <2>6. /\ heap' \in [List -> Seq(AnyItem)] /\ heap'[dict] = h[dict] \o h[value]
        /\ \A l \in List \ {dict} : heap'[l] = h[l]
        /\ delta'[b] = dict /\ branchState'[b] = IF branchState[b] = Absent THEN value ELSE branchState[b]
    BY <1>1, <1>2, <1>4, <2>5
  <2>7. ToSet(said'[b]) \subseteq ToSet(heap'[dict])
    <3>1. PICK s \in Seq(AnyItem), t \in Seq(AnyItem), u \in Seq(AnyItem) :
             s = h[dict] /\ t = h[value] /\ u = said[b]
      BY <1>0
    <3>2. ToSet(s \o t) = ToSet(s) \cup ToSet(t) /\ ToSet(u \o t) = ToSet(u) \cup ToSet(t)
      BY SetsOfSequences
    <3>3. ToSet(u) \subseteq ToSet(s)
      BY <1>4, <2>1, <2>2, <2>3, <3>1
    <3>4. said'[b] = u \o t
      BY <1>0, <1>4, <2>3, <3>1
    <3> QED
      BY <2>6, <3>1, <3>2, <3>3, <3>4
  <2>8. Len(said'[b]) # 1
    <3>1. Len(said[b]) \in Nat /\ Len(said[b]) # 0 /\ Len(said'[b]) = Len(said[b]) + 1
      <4>1. PICK item \in AnyItem : item = <<b, i>>
        BY <1>1
      <4>2. Len(Append(said[b], item)) = Len(said[b]) + 1
        BY <1>0, SequenceFacts
      <4>3. Len(said[b]) # 0
        BY <1>0, <2>2
      <4> QED
        BY <1>0, <4>1, <4>2, <4>3
    <3> QED
      BY <3>1
  <2>9. WritesItsOwn(b)
    <3>1. ToSet(heap[Shared]) \subseteq ToSet(heap'[Shared])
      BY <1>0, <1>3, <1>4, <2>1, <2>3, <2>6
    <3>2. \A l \in List \ (OwnLists(b) \cup {Shared}) : heap'[l] = heap[l]
      BY <1>4, <2>1, <2>3, <2>6
    <3> QED
      BY <1>0, <1>2, <2>6, <3>1, <3>2 DEF WritesItsOwn
  <2>10. /\ case'.reducer = "append" /\ value \in Past(b)' /\ dict \in Past(b)' /\ dict # Absent
         /\ branchState'[b] \in {state'} \cup Past(b)'
    BY <1>0, <1>1, <1>2, <1>3, <2>1, <2>6
  <2>11. delta'[b] # Built("delta", b) /\ branchState'[b] # Built("branch", b)
    <3>1. Built("branch", b) # value
      <4>1. value = Returned(b, i)
        BY DEF Returning
      <4> QED
        BY <4>1 DEF Returned, Built
    <3>2. Built("branch", b) # branchState[b] /\ Built("delta", b) # delta[b]
      BY <1>2 DEF DeltaTells
    <3> QED
      BY <2>1, <2>6, <3>1, <3>2
  <2> QED
    BY <1>0, <2>6, <2>7, <2>8, <2>9, <2>10, <2>11 DEF DeltaTells
<1> QED
  BY <1>5, <1>6

(* A node that returns leaves what the others have as it was.               *)
LEMMA NodeReturnsTells ==
    ASSUME AtWork, NEW b \in Branch, NodeReturns(b)
    PROVE  AtWork'
<1>1. PICK i, value, saying, written, inBranch, inDelta :
         Returning(b, i, value, saying, written, inBranch, inDelta)
  BY ReturnsMake
<1>2. case.reducer \in {"append", "combine", "override", "keep"}
  BY CasesAssumption DEF AtWork, Reducer
<1>3. DeltaTells(b)' /\ WritesItsOwn(b)
  BY <1>1, <1>2, AppendTells, CombineTells, OverrideTells, KeepTells
<1>4. /\ branchState' = [branchState EXCEPT ![b] = branchState'[b]]
      /\ delta' = [delta EXCEPT ![b] = delta'[b]]
      /\ position' = [position EXCEPT ![b] = position'[b]]
      /\ said' = [said EXCEPT ![b] = said'[b]]
      /\ UNCHANGED <<case, state, outcome>>
  BY <1>1 DEF Returning, AtWork, BranchesAtWork
<1>5. said' \in [Branch -> Seq(AnyItem)] /\ position' \in [Branch -> Nat]
      /\ \A c \in Branch : position'[c] <= Lengths[c]
  <2>1. ReturnedList(b, i, value, saying, written)
    BY <1>1, ReturnFacts
  <2> QED
    BY <2>1 DEF ReturnedList
<1>6. /\ heap \in [List -> Seq(AnyItem)] /\ position \in [Branch -> Nat]
      /\ branchState \in [Branch -> List \cup {Absent}] /\ delta \in [Branch -> List \cup {Absent}]
      /\ said \in [Branch -> Seq(AnyItem)] /\ case \in Cases
      /\ state = IF case.present THEN Shared ELSE Absent
      /\ ToSet(Before) \subseteq ToSet(heap[Shared])
      /\ case.reducer # "append" => heap[Shared] = Before
      /\ \A c \in Branch : DeltaTells(c) /\ position[c] <= Lengths[c]
  BY DEF AtWork, BranchesAtWork
<1>7. BranchesAtWork'
  <2>1. /\ branchState' \in [Branch -> List \cup {Absent}]
        /\ delta' \in [Branch -> List \cup {Absent}]
    BY <1>3, <1>4, <1>6 DEF WritesItsOwn
  <2>2. /\ heap' \in [List -> Seq(AnyItem)] /\ ToSet(Before') \subseteq ToSet(heap'[Shared])
        /\ case'.reducer # "append" => heap'[Shared] = Before'
    BY <1>3, <1>4, <1>6 DEF WritesItsOwn, Before
  <2> QED
    BY <1>4, <1>5, <1>6, <2>1, <2>2 DEF BranchesAtWork
<1>8. ASSUME NEW c \in Branch \ {b} PROVE DeltaTells(c)'
  <2>1. /\ branchState'[c] = branchState[c] /\ delta'[c] = delta[c] /\ position'[c] = position[c]
        /\ said'[c] = said[c]
    BY <1>4, <1>6
  <2>2. Past(c)' = Past(c)
    BY <2>1 DEF Past
  <2>3. delta[c] # Absent => heap'[delta[c]] = heap[delta[c]]
    <3>1. Past(c) \subseteq OwnLists(c)
      <4>1. \A j \in 1..position[c] : j \in 1..Lengths[c]
        BY <1>6, BranchesAreNumbers
      <4> QED
        BY <4>1 DEF Past, OwnLists
    <3>2. delta[c] # Absent => delta[c] \in OwnLists(c)
      BY <1>6, <3>1 DEF DeltaTells, OwnLists
    <3>3. OwnLists(c) \subseteq List /\ Shared \notin OwnLists(c) /\ OwnLists(b) \cap OwnLists(c) = {}
      BY ListsAreApart
    <3> QED
      BY <1>3, <3>2, <3>3 DEF WritesItsOwn
  <2>4. said[c] # <<>> => delta[c] # Absent
    BY <1>6 DEF DeltaTells
  <2>5. Before' = Before /\ state' = state /\ case' = case
    BY <1>4 DEF Before
  <2>6. DeltaTells(c)
    BY <1>6
  <2>7. said[c] # <<>> =>
          CASE case.reducer = "combine"  -> heap'[delta[c]] = said[c]
            [] case.reducer = "override" -> heap'[delta[c]] = Before \o said[c]
            [] case.reducer = "keep"     -> heap'[delta[c]] = <<Head(said[c])>>
            [] case.reducer = "append"   ->
                 /\ Len(said[c]) = 1 => heap'[delta[c]] = said[c]
                 /\ ToSet(said[c]) \subseteq ToSet(heap'[delta[c]])
    BY <2>3, <2>4, <2>6 DEF DeltaTells
  <2>8. /\ delta[c] \in {Absent, Built("delta", c)} \cup Past(c)
        /\ branchState[c] \in {state, Built("branch", c)} \cup Past(c)
        /\ delta[c] = Absent <=> said[c] = <<>>
        /\ case.reducer = "append" =>
              delta[c] # Built("delta", c) /\ branchState[c] # Built("branch", c)
        /\ case.reducer = "override" =>
              branchState[c] = IF said[c] = <<>> THEN state ELSE delta[c]
    BY <2>6 DEF DeltaTells
  <2> QED
    BY <2>1, <2>2, <2>5, <2>7, <2>8 DEF DeltaTells
<1> QED
  BY <1>3, <1>4, <1>5, <1>6, <1>7, <1>8 DEF AtWork

-----------------------------------------------------------------------------
(* The update, delta after delta.                                           *)
Update == [heap : [List -> Seq(AnyItem)], dict : List \cup {Absent}]

LEMMA MemoriesAreUpdates ==
    ASSUME NEW h \in [List -> Seq(AnyItem)], NEW dict \in List \cup {Absent}
    PROVE  Memory(h, dict) \in Update /\ Memory(h, dict).heap = h /\ Memory(h, dict).dict = dict
BY DEF Update, Memory

LEMMA UpdatesReduce ==
    ASSUME case.reducer \in Reducer, NEW update \in Update, NEW value \in List, NEW built \in List
    PROVE  ApplyReducer(update, value, built) \in Update
<1>1. PICK h \in [List -> Seq(AnyItem)], dict \in List \cup {Absent} : update = Memory(h, dict)
  BY DEF Update, Memory
<1>2. PICK next : next = ApplyReducer(Memory(h, dict), value, built)
  OBVIOUS
<1>3. CASE dict = Absent \/ case.reducer = "override"
  <2>1. next = Memory(h, value)
    BY <1>2, <1>3 DEF ApplyReducer, Memory
  <2> QED
    BY <1>1, <1>2, <2>1, MemoriesAreUpdates
<1>4. CASE dict # Absent /\ case.reducer = "keep"
  <2>1. next = Memory(h, dict)
    BY <1>2, <1>4 DEF ApplyReducer, Memory
  <2> QED
    BY <1>1, <1>2, <2>1, MemoriesAreUpdates
<1>5. ASSUME dict # Absent, case.reducer \in {"append", "combine"} PROVE next \in Update
  <2>1. PICK joined \in Seq(AnyItem) : joined = h[dict] \o h[value]
    BY <1>5, SetsOfSequences
  <2>2. PICK at \in List : at = IF case.reducer = "append" THEN dict ELSE built
    BY <1>5
  <2>3. PICK w \in [List -> Seq(AnyItem)] : w = [h EXCEPT ![at] = joined]
    OBVIOUS
  <2>4. Memory(h, dict).heap = h /\ Memory(h, dict).dict = dict
    BY DEF Memory
  <2>5. next = Memory(w, at)
    <3>1. CASE case.reducer = "append"
      <4>1. at = dict
        BY <2>2, <3>1
      <4> QED
        BY <1>2, <1>5, <2>1, <2>3, <2>4, <3>1, <4>1 DEF ApplyReducer
    <3>2. CASE case.reducer = "combine"
      <4>1. at = built
        BY <2>2, <3>2
      <4> QED
        BY <1>2, <1>5, <2>1, <2>3, <2>4, <3>2, <4>1 DEF ApplyReducer
    <3> QED
      BY <1>5, <3>1, <3>2
  <2> QED
    BY <2>5, MemoriesAreUpdates
<1> QED
  BY <1>1, <1>2, <1>3, <1>4, <1>5 DEF Reducer

LEMMA UpdatesAreMerged ==
    ASSUME AtWork
    PROVE  /\ MergedUpTo[0] = Memory(heap, Absent)
           /\ \A b \in 0..Len(Lengths) : MergedUpTo[b] \in Update
           /\ \A b \in Branch :
                 MergedUpTo[b] = IF delta[b] = Absent THEN MergedUpTo[b - 1]
                                 ELSE ApplyReducer(MergedUpTo[b - 1], delta[b], Built("merged", 0))
<1>0. /\ case.reducer \in Reducer /\ heap \in [List -> Seq(AnyItem)]
      /\ delta \in [Branch -> List \cup {Absent}] /\ Built("merged", 0) \in List
  BY CasesAssumption DEF AtWork, BranchesAtWork, List
<1>1. Branch = 1..Len(Lengths) /\ Len(Lengths) \in Nat
  BY LengthsAssumption DEF Branch
<1>2. PICK step : step = [pair \in Update \X Nat |->
                            IF pair[2] + 1 \in Branch /\ delta[pair[2] + 1] # Absent
                              THEN ApplyReducer(pair[1], delta[pair[2] + 1], Built("merged", 0))
                              ELSE pair[1]]
  OBVIOUS
<1>3. Recurs(Update, Memory(heap, Absent), step)
  <2>1. Memory(heap, Absent) \in Update
    BY <1>0, MemoriesAreUpdates
  <2>2. ASSUME NEW pair \in Update \X Nat
        PROVE  (IF pair[2] + 1 \in Branch /\ delta[pair[2] + 1] # Absent
                  THEN ApplyReducer(pair[1], delta[pair[2] + 1], Built("merged", 0))
                  ELSE pair[1]) \in Update
    <3>1. pair[1] \in Update
      OBVIOUS
    <3>2. CASE pair[2] + 1 \in Branch /\ delta[pair[2] + 1] # Absent
      <4>1. delta[pair[2] + 1] \in List
        BY <1>0, <3>2
      <4>2. ApplyReducer(pair[1], delta[pair[2] + 1], Built("merged", 0)) \in Update
        BY <1>0, <3>1, <4>1, UpdatesReduce
      <4> QED
        BY <3>2, <4>2
    <3> QED
      BY <3>1, <3>2
  <2>3. step \in [Update \X Nat -> Update]
    BY <1>2, <2>2
  <2> QED
    BY <2>1, <2>3 DEF Recurs
<1>4. PICK f : Unrolls(f, Update, Memory(heap, Absent), step)
  BY <1>3, Recursion
<1>5. PICK g : g = [b \in 0..Len(Lengths) |-> f[b]]
  OBVIOUS
<1>6. ASSUME NEW b \in Branch
      PROVE  f[b] = IF delta[b] = Absent THEN g[b - 1]
                    ELSE ApplyReducer(g[b - 1], delta[b], Built("merged", 0))
  <2>1. b - 1 \in Nat /\ (b - 1) + 1 = b /\ b - 1 \in 0..Len(Lengths)
    BY <1>1
  <2>2. f[b] = step[<<f[b - 1], b - 1>>] /\ f[b - 1] \in Update
    BY <1>4, <2>1 DEF Unrolls
  <2>3. <<f[b - 1], b - 1>> \in Update \X Nat
    BY <2>1, <2>2
  <2>4. g[b - 1] = f[b - 1]
    BY <1>5, <2>1
  <2> QED
    BY <1>2, <2>1, <2>2, <2>3, <2>4
<1>7. g = [b \in 0..Len(Lengths) |->
             IF b = 0 THEN Memory(heap, Absent)
             ELSE IF delta[b] = Absent THEN g[b - 1]
             ELSE ApplyReducer(g[b - 1], delta[b], Built("merged", 0))]
  <2>1. ASSUME NEW b \in 0..Len(Lengths)
        PROVE  f[b] = IF b = 0 THEN Memory(heap, Absent)
                      ELSE IF delta[b] = Absent THEN g[b - 1]
                      ELSE ApplyReducer(g[b - 1], delta[b], Built("merged", 0))
    <3>1. CASE b = 0
      BY <1>4, <3>1 DEF Unrolls
    <3>2. CASE b # 0
      <4>1. b \in Branch
        BY <1>1, <3>2
      <4> QED
        BY <1>6, <3>2, <4>1
    <3> QED
      BY <3>1, <3>2
  <2> QED
    BY <1>5, <2>1
<1>8. MergedUpTo = [b \in 0..Len(Lengths) |->
             IF b = 0 THEN Memory(heap, Absent)
             ELSE IF delta[b] = Absent THEN MergedUpTo[b - 1]
             ELSE ApplyReducer(MergedUpTo[b - 1], delta[b], Built("merged", 0))]
  BY <1>7 DEF MergedUpTo
<1>9. MergedUpTo[0] = Memory(heap, Absent)
  BY <1>1, <1>8
<1>10. ASSUME NEW b \in Branch
       PROVE  MergedUpTo[b] = IF delta[b] = Absent THEN MergedUpTo[b - 1]
                              ELSE ApplyReducer(MergedUpTo[b - 1], delta[b], Built("merged", 0))
  <2>1. b # 0 /\ b \in 0..Len(Lengths)
    BY <1>1
  <2> QED
    BY <1>8, <2>1
<1>11. \A b \in 0..Len(Lengths) : MergedUpTo[b] \in Update
  <2>1. PICK S : S = {n \in Nat : n \in 0..Len(Lengths) => MergedUpTo[n] \in Update}
    OBVIOUS
  <2>2. 0 \in S
    BY <1>0, <1>9, <2>1, MemoriesAreUpdates
  <2>3. ASSUME NEW n \in S PROVE n + 1 \in S
    <3> SUFFICES ASSUME n + 1 \in 0..Len(Lengths) PROVE MergedUpTo[n + 1] \in Update
      BY <2>1
    <3>1. n \in Nat /\ n + 1 \in Branch /\ (n + 1) - 1 = n /\ MergedUpTo[n] \in Update
      BY <1>1, <2>1
    <3>2. PICK b \in Branch : b = n + 1
      BY <3>1
    <3>3. MergedUpTo[b] = IF delta[b] = Absent THEN MergedUpTo[n]
                          ELSE ApplyReducer(MergedUpTo[n], delta[b], Built("merged", 0))
      BY <1>10, <3>1, <3>2
    <3>4. delta[b] # Absent => delta[b] \in List
      BY <1>0
    <3>5. delta[b] # Absent => ApplyReducer(MergedUpTo[n], delta[b], Built("merged", 0)) \in Update
      BY <1>0, <3>1, <3>4, UpdatesReduce
    <3> QED
      BY <3>1, <3>2, <3>3, <3>5
  <2>4. S = Nat
    BY <2>1, <2>2, <2>3, NumbersByInduction
  <2> QED
    BY <1>1, <2>1, <2>4
<1> QED
  BY <1>9, <1>10, <1>11

FrameTells(b, update) ==
    /\ update \in Update
    /\ update.dict = Absent <=> \A c \in 1..b : said[c] = <<>>
    /\ \A c \in Branch \ (1..b) : delta[c] # Absent => update.heap[delta[c]] = heap[delta[c]]
    /\ update.heap[Shared] = heap[Shared]
    /\ update.dict \in {Absent, Built("merged", 0)} \cup {delta[c] : c \in 1..b}

ListTells(b, update, flat) ==
    /\ update.dict = Absent => flat[b] = <<>>
    /\ update.dict # Absent =>
          /\ ToSet(flat[b]) \subseteq ToSet(update.heap[update.dict])
          /\ (case.reducer = "combine" \/ \A c \in 1..b : Len(said[c]) <= 1) =>
                update.heap[update.dict] = flat[b]

ChoiceTells(b, update) ==
    /\ update.heap = heap
    /\ update.dict # Absent =>
          \E c \in 1..b : /\ said[c] # <<>> /\ update.dict = delta[c]
                          /\ \A d \in 1..b : said[d] # <<>> =>
                                /\ case.reducer = "override" => d <= c
                                /\ case.reducer = "keep" => c <= d

Flattens(flat) ==
    /\ flat \in [Nat -> Seq(AnyItem)] /\ flat[0] = <<>>
    /\ \A i \in 1..Len(said) : flat[i] = flat[i - 1] \o said[i]
    /\ FlattenSeq(said) = flat[Len(said)]

LEMMA DeltasAreOwn ==
    ASSUME AtWork, NEW b \in Branch
    PROVE  /\ delta[b] = Absent <=> said[b] = <<>>
           /\ delta[b] # Absent => delta[b] \in OwnLists(b) /\ delta[b] \in List
           /\ said[b] \in Seq(AnyItem) /\ heap \in [List -> Seq(AnyItem)]
           /\ case.reducer \in Reducer /\ case.present \in BOOLEAN
<1>1. Past(b) \subseteq OwnLists(b)
  <2>1. \A j \in 1..position[b] : j \in 1..Lengths[b]
    BY BranchesAreNumbers DEF AtWork, BranchesAtWork
  <2> QED
    BY <2>1 DEF Past, OwnLists
<1>2. delta[b] \in {Absent, Built("delta", b)} \cup Past(b) /\ (delta[b] = Absent <=> said[b] = <<>>)
  BY DEF AtWork, DeltaTells
<1>3. Built("delta", b) \in OwnLists(b) /\ OwnLists(b) \subseteq List
  BY ListsAreApart DEF OwnLists
<1>4. case.reducer \in Reducer /\ case.present \in BOOLEAN
  BY CasesAssumption DEF AtWork
<1> QED
  BY <1>1, <1>2, <1>3, <1>4 DEF AtWork, BranchesAtWork

LEMMA BranchSteps ==
    ASSUME NEW b \in Branch
    PROVE  /\ Branch = 1..Len(Lengths) /\ Len(Lengths) \in Nat
           /\ b \in Nat \ {0} /\ b - 1 \in Nat /\ b - 1 \in 0..Len(Lengths)
           /\ 1..b = (1..(b - 1)) \cup {b} /\ b \notin 1..(b - 1)
           /\ 1..b \subseteq Branch
<1>1. Branch = 1..Len(Lengths) /\ Len(Lengths) \in Nat
  BY LengthsAssumption DEF Branch
<1> QED
  BY <1>1

(* One more delta, under any reducer.                                       *)
LEMMA FrameStep ==
    ASSUME AtWork, NEW b \in Branch, NEW update, FrameTells(b - 1, update),
           NEW next, next = IF delta[b] = Absent THEN update
                            ELSE ApplyReducer(update, delta[b], Built("merged", 0))
    PROVE  FrameTells(b, next)
<1>0. /\ 1..b = (1..(b - 1)) \cup {b} /\ b \notin 1..(b - 1) /\ b \in 1..b /\ 1..b \subseteq Branch
  BY BranchSteps
<1>1. /\ delta[b] = Absent <=> said[b] = <<>>
      /\ delta[b] # Absent => delta[b] \in OwnLists(b) /\ delta[b] \in List
      /\ case.reducer \in Reducer
  BY DeltasAreOwn
<1>2. PICK h \in [List -> Seq(AnyItem)], dict \in List \cup {Absent} :
         update = Memory(h, dict) /\ update.heap = h /\ update.dict = dict
  BY DEF FrameTells, Update, Memory
<1>3. /\ dict = Absent <=> \A c \in 1..(b - 1) : said[c] = <<>>
      /\ \A c \in Branch \ (1..(b - 1)) : delta[c] # Absent => h[delta[c]] = heap[delta[c]]
      /\ h[Shared] = heap[Shared]
      /\ dict \in {Absent, Built("merged", 0)} \cup {delta[c] : c \in 1..(b - 1)}
  BY <1>2 DEF FrameTells
<1>4. CASE delta[b] = Absent
  <2>1. next = update
    BY <1>4
  <2>2. dict = Absent <=> \A c \in 1..b : said[c] = <<>>
    BY <1>0, <1>1, <1>3, <1>4
  <2>3. dict \in {Absent, Built("merged", 0)} \cup {delta[c] : c \in 1..b}
    BY <1>0, <1>3
  <2>4. update \in Update
    BY DEF FrameTells
  <2> QED
    BY <1>0, <1>2, <1>3, <2>1, <2>2, <2>3, <2>4 DEF FrameTells
<1>5. ASSUME delta[b] # Absent, NEW w \in [List -> Seq(AnyItem)], NEW at \in List, next = Memory(w, at),
             \A l \in List \ {dict, Built("merged", 0)} : w[l] = h[l],
             at \in {Built("merged", 0)} \cup {delta[c] : c \in 1..b},
             w # h => dict # Absent
      PROVE  FrameTells(b, next)
  <2>1. next \in Update /\ next.heap = w /\ next.dict = at
    <3>1. w \in [List -> Seq(AnyItem)] /\ at \in List \cup {Absent} /\ next = Memory(w, at)
      BY <1>5
    <3>2. Memory(w, at) \in Update /\ Memory(w, at).heap = w /\ Memory(w, at).dict = at
      BY <3>1, MemoriesAreUpdates
    <3> QED
      BY <3>1, <3>2
  <2>2. ~(\A c \in 1..b : said[c] = <<>>) /\ at # Absent
    BY <1>0, <1>1, <1>5, AbsentAssumption
  <2>3. Built("merged", 0) # Shared /\ Shared \in List
    BY ListsAreApart DEF Built, Shared
  <2>4. ASSUME NEW c \in Branch, delta[c] # Absent, c \notin 1..(b - 1), dict # Absent
        PROVE  delta[c] \in List \ {dict, Built("merged", 0)}
    <3>1. delta[c] \in OwnLists(c) /\ delta[c] \in List
      BY <2>4, DeltasAreOwn
    <3>2. Built("merged", 0) \notin OwnLists(c)
      <4>1. c # 0
        BY BranchesAreNumbers
      <4> QED
        BY <4>1 DEF OwnLists, Built, Returned
    <3>3. ASSUME NEW d \in 1..(b - 1), delta[d] # Absent PROVE delta[c] # delta[d]
      <4>1. d \in Branch /\ d # c
        BY <1>0, <2>4
      <4>2. delta[d] \in OwnLists(d)
        BY <3>3, <4>1, DeltasAreOwn
      <4>3. OwnLists(c) \cap OwnLists(d) = {}
        BY <4>1, ListsAreApart
      <4> QED
        BY <3>1, <4>2, <4>3
    <3> QED
      BY <1>3, <2>4, <3>1, <3>2, <3>3
  <2>5. \A c \in Branch \ (1..b) : delta[c] # Absent => w[delta[c]] = heap[delta[c]]
    <3> SUFFICES ASSUME NEW c \in Branch \ (1..b), delta[c] # Absent PROVE w[delta[c]] = heap[delta[c]]
      OBVIOUS
    <3>1. c \notin 1..(b - 1)
      BY <1>0
    <3> QED
      BY <1>3, <1>5, <2>4, <3>1
  <2>6. w[Shared] = heap[Shared]
    <3>1. dict # Shared
      <4>1. ASSUME NEW d \in 1..(b - 1), delta[d] # Absent PROVE delta[d] # Shared
        <5>1. d \in Branch
          BY <1>0
        <5>2. delta[d] \in OwnLists(d) /\ Shared \notin OwnLists(d)
          BY <4>1, <5>1, DeltasAreOwn, ListsAreApart
        <5> QED
          BY <5>2
      <4>2. Shared # Absent
        BY ListsAreApart
      <4> QED
        BY <1>3, <2>3, <4>1, <4>2
    <3> QED
      BY <1>3, <1>5, <2>3, <3>1
  <2> QED
    BY <1>5, <2>1, <2>2, <2>5, <2>6 DEF FrameTells
<1>6. CASE delta[b] # Absent
  <2>1. next = ApplyReducer(Memory(h, dict), delta[b], Built("merged", 0))
    BY <1>2, <1>6
  <2>2. delta[b] \in List /\ Built("merged", 0) \in List /\ Built("merged", 0) # Absent
    BY <1>1, <1>6, AbsentAssumption DEF List
  <2>3. CASE dict = Absent \/ case.reducer = "override"
    <3>1. next = Memory(h, delta[b])
      BY <2>1, <2>3 DEF ApplyReducer, Memory
    <3>2. delta[b] \in {delta[c] : c \in 1..b}
      BY <1>0
    <3> QED
      BY <1>5, <1>6, <2>2, <3>1, <3>2
  <2>4. CASE dict # Absent /\ case.reducer = "keep"
    <3>1. next = Memory(h, dict)
      BY <2>1, <2>4 DEF ApplyReducer, Memory
    <3>2. dict \in {Built("merged", 0)} \cup {delta[c] : c \in 1..b}
      BY <1>0, <1>3, <2>4
    <3> QED
      BY <1>5, <1>6, <2>4, <3>1, <3>2
  <2>5. CASE dict # Absent /\ case.reducer \in {"append", "combine"}
    <3>1. PICK at \in {dict, Built("merged", 0)} : Joins(h, dict, delta[b], at, next)
      BY <2>1, <2>2, <2>5, ReducedToJoined
    <3>2. /\ next.dict = at /\ next.heap \in [List -> Seq(AnyItem)]
          /\ \A l \in List \ {at} : next.heap[l] = h[l]
      BY <3>1 DEF Joins
    <3>3. next = Memory(next.heap, next.dict)
      <4>1. update \in Update
        BY DEF FrameTells
      <4>2. next \in Update
        BY <1>1, <1>2, <2>1, <2>2, <4>1, UpdatesReduce
      <4> QED
        BY <4>2 DEF Update, Memory
    <3>4. at \in List /\ at \in {Built("merged", 0)} \cup {delta[c] : c \in 1..b}
      BY <1>0, <1>3, <2>2, <2>5
    <3>5. \A l \in List \ {dict, Built("merged", 0)} : next.heap[l] = h[l]
      BY <3>1, <3>2
    <3> QED
      BY <1>5, <1>6, <2>5, <3>2, <3>3, <3>4, <3>5
  <2> QED
    BY <1>1, <2>3, <2>4, <2>5 DEF Reducer
<1> QED
  BY <1>4, <1>6

LEMMA ListStep ==
    ASSUME AtWork, NEW b \in Branch, NEW update, NEW flat, FrameTells(b - 1, update),
           ListTells(b - 1, update, flat), Flattens(flat), case.reducer \in {"append", "combine"},
           NEW next, next = IF delta[b] = Absent THEN update
                            ELSE ApplyReducer(update, delta[b], Built("merged", 0))
    PROVE  ListTells(b, next, flat)
<1>0. /\ 1..b = (1..(b - 1)) \cup {b} /\ b \in 1..b /\ 1..b \subseteq Branch
      /\ b \in Branch \ (1..(b - 1)) /\ b - 1 \in Nat
  BY BranchSteps
<1>1. /\ delta[b] = Absent <=> said[b] = <<>>
      /\ delta[b] # Absent => delta[b] \in List
      /\ said[b] \in Seq(AnyItem)
  BY DeltasAreOwn
<1>2. PICK h \in [List -> Seq(AnyItem)], dict \in List \cup {Absent} :
         update = Memory(h, dict) /\ update.heap = h /\ update.dict = dict
  BY DEF FrameTells, Update, Memory
<1>3. flat[b] = flat[b - 1] \o said[b] /\ flat[b - 1] \in Seq(AnyItem)
  <2>1. b \in 1..Len(said)
    <3>1. said \in [Branch -> Seq(AnyItem)] /\ Branch = 1..Len(Lengths) /\ Len(Lengths) \in Nat
      BY BranchSteps DEF AtWork
    <3>2. Len(said) = Len(Lengths)
      BY <3>1
    <3> QED
      BY <3>1, <3>2
  <2> QED
    BY <1>0, <2>1 DEF Flattens
<1>4. /\ dict = Absent => flat[b - 1] = <<>>
      /\ dict # Absent =>
            /\ ToSet(flat[b - 1]) \subseteq ToSet(h[dict])
            /\ (case.reducer = "combine" \/ \A c \in 1..(b - 1) : Len(said[c]) <= 1) => h[dict] = flat[b - 1]
  BY <1>2 DEF ListTells
<1>5. CASE delta[b] = Absent
  <2>1. next = update /\ flat[b] = flat[b - 1]
    BY <1>1, <1>3, <1>5, ConcatEmptySeq
  <2> QED
    BY <1>0, <1>2, <1>4, <2>1 DEF ListTells
<1>6. CASE delta[b] # Absent
  <2>1. PICK l \in List : l = delta[b]
    BY <1>1, <1>6
  <2>2. PICK value \in Seq(AnyItem) : value = heap[l] /\ value = h[l]
    BY <1>0, <1>2, <1>6, <2>1 DEF FrameTells
  <2>3. /\ ToSet(said[b]) \subseteq ToSet(value)
        /\ (case.reducer = "combine" \/ Len(said[b]) <= 1) => value = said[b]
    <3>1. said[b] # <<>> /\ DeltaTells(b)
      BY <1>1, <1>6 DEF AtWork
    <3>2. Len(said[b]) <= 1 => Len(said[b]) = 1
      <4>1. Len(said[b]) \in Nat /\ Len(said[b]) # 0
        BY <1>1, <3>1, EmptySeq
      <4>2. PICK n \in Nat : n = Len(said[b])
        BY <4>1
      <4>3. n <= 1 /\ n # 0 => n = 1
        OBVIOUS
      <4> QED
        BY <4>1, <4>2, <4>3
    <3>3. CASE case.reducer = "combine"
      BY <2>1, <2>2, <3>1, <3>3 DEF DeltaTells
    <3>4. CASE case.reducer = "append"
      <4>1. /\ Len(said[b]) = 1 => heap[delta[b]] = said[b]
            /\ ToSet(said[b]) \subseteq ToSet(heap[delta[b]])
        BY <3>1, <3>4 DEF DeltaTells
      <4>2. case.reducer # "combine"
        BY <3>4
      <4> QED
        BY <2>1, <2>2, <3>2, <4>1, <4>2
    <3> QED
      BY <3>3, <3>4
  <2>4. next = ApplyReducer(Memory(h, dict), l, Built("merged", 0))
    BY <1>2, <1>6, <2>1
  <2>5. CASE dict = Absent
    <3>1. next.heap = h /\ next.dict = l
      BY <2>4, <2>5, ReducedToValue
    <3>2. flat[b] = said[b]
      BY <1>1, <1>3, <1>4, <2>5, ConcatEmptySeq
    <3>3. l # Absent
      BY AbsentAssumption
    <3> QED
      BY <1>0, <2>2, <2>3, <3>1, <3>2, <3>3 DEF ListTells
  <2>6. CASE dict # Absent
    <3>1. PICK d \in List : d = dict
      BY <2>6
    <3>2. PICK at : Joins(h, d, l, at, next) /\ at \in {d, Built("merged", 0)}
      <4>1. Built("merged", 0) \in List
        BY DEF List
      <4> QED
        BY <2>4, <3>1, <4>1, ReducedToJoined
    <3>3. next.dict = at /\ next.heap[at] = h[d] \o value /\ at # Absent
      <4>1. next.dict = at /\ next.heap[at] = h[d] \o h[l]
        BY <3>2 DEF Joins
      <4>2. Built("merged", 0) \in List
        BY DEF List
      <4> QED
        BY <2>2, <3>2, <4>1, <4>2, AbsentAssumption
    <3>4. PICK s \in Seq(AnyItem), t \in Seq(AnyItem), u \in Seq(AnyItem) :
             s = h[d] /\ t = flat[b - 1] /\ u = said[b]
      BY <1>1, <1>3
    <3>5. ToSet(s \o value) = ToSet(s) \cup ToSet(value) /\ ToSet(t \o u) = ToSet(t) \cup ToSet(u)
      BY SetsOfSequences
    <3>6. ToSet(flat[b]) \subseteq ToSet(next.heap[next.dict])
      BY <1>3, <1>4, <2>3, <2>6, <3>1, <3>3, <3>4, <3>5
    <3>7. ASSUME case.reducer = "combine" \/ \A c \in 1..b : Len(said[c]) <= 1
          PROVE  next.heap[next.dict] = flat[b]
      <4>1. h[dict] = flat[b - 1]
        BY <1>0, <1>4, <2>6, <3>7
      <4>2. value = said[b]
        BY <1>0, <2>3, <3>7
      <4> QED
        BY <1>3, <3>1, <3>3, <4>1, <4>2
    <3> QED
      BY <3>3, <3>6, <3>7 DEF ListTells
  <2> QED
    BY <2>5, <2>6
<1> QED
  BY <1>5, <1>6

LEMMA ChoiceStep ==
    ASSUME AtWork, NEW b \in Branch, NEW update, FrameTells(b - 1, update),
           ChoiceTells(b - 1, update), case.reducer \in {"override", "keep"},
           NEW next, next = IF delta[b] = Absent THEN update
                            ELSE ApplyReducer(update, delta[b], Built("merged", 0))
    PROVE  ChoiceTells(b, next)
<1>0. /\ 1..b = (1..(b - 1)) \cup {b} /\ b \in 1..b /\ 1..b \subseteq Branch
      /\ b - 1 \in Nat /\ b \in Nat /\ \A d \in 1..(b - 1) : d <= b
  BY BranchSteps
<1>1. delta[b] = Absent <=> said[b] = <<>>
  BY DeltasAreOwn
<1>2. PICK h \in [List -> Seq(AnyItem)], dict \in List \cup {Absent} :
         update = Memory(h, dict) /\ update.heap = h /\ update.dict = dict
  BY DEF FrameTells, Update, Memory
<1>3. h = heap /\ (dict # Absent =>
          \E c \in 1..(b - 1) : /\ said[c] # <<>> /\ dict = delta[c]
                                /\ \A d \in 1..(b - 1) : said[d] # <<>> =>
                                      /\ case.reducer = "override" => d <= c
                                      /\ case.reducer = "keep" => c <= d)
  BY <1>2 DEF ChoiceTells
<1>4. dict = Absent => \A c \in 1..(b - 1) : said[c] = <<>>
  BY <1>2 DEF FrameTells
<1>5. CASE delta[b] = Absent
  <2>1. next = update
    BY <1>5
  <2> QED
    BY <1>0, <1>1, <1>2, <1>3, <1>5, <2>1 DEF ChoiceTells
<1>6. CASE delta[b] # Absent
  <2>1. next = ApplyReducer(Memory(h, dict), delta[b], Built("merged", 0))
    BY <1>2, <1>6
  <2>2. said[b] # <<>> /\ b <= b
    BY <1>0, <1>1, <1>6
  <2>3. CASE dict = Absent \/ case.reducer = "override"
    <3>1. next.heap = h /\ next.dict = delta[b]
      BY <2>1, <2>3, ReducedToValue
    <3>2. ASSUME NEW d \in 1..b, said[d] # <<>>
          PROVE  (case.reducer = "override" => d <= b) /\ (case.reducer = "keep" => b <= d)
      <4>1. CASE case.reducer = "override"
        BY <1>0, <4>1
      <4>2. CASE dict = Absent
        BY <1>0, <1>4, <2>2, <3>2, <4>2
      <4> QED
        BY <2>3, <4>1, <4>2
    <3> QED
      BY <1>0, <1>3, <2>2, <3>1, <3>2 DEF ChoiceTells
  <2>4. CASE dict # Absent /\ case.reducer = "keep"
    <3>1. next.heap = h /\ next.dict = dict
      BY <2>1, <2>4, ReducedToFirst
    <3>2. PICK c \in 1..(b - 1) : /\ said[c] # <<>> /\ dict = delta[c]
                                  /\ \A d \in 1..(b - 1) : said[d] # <<>> => c <= d
      BY <1>3, <2>4
    <3>3. c \in 1..b /\ c <= b
      BY <1>0
    <3>4. \A d \in 1..b : said[d] # <<>> => c <= d
      BY <1>0, <3>2, <3>3
    <3>5. case.reducer # "override"
      BY <2>4
    <3> QED
      BY <1>3, <3>1, <3>2, <3>3, <3>4, <3>5 DEF ChoiceTells
  <2> QED
    BY <2>3, <2>4
<1> QED
  BY <1>5, <1>6

LEMMA UpdateTells ==
    ASSUME AtWork, NEW flat, Flattens(flat)
    PROVE  /\ FrameTells(Len(Lengths), MergedUpTo[Len(Lengths)])
           /\ case.reducer \in {"append", "combine"} =>
                 ListTells(Len(Lengths), MergedUpTo[Len(Lengths)], flat)
           /\ case.reducer \in {"override", "keep"} =>
                 ChoiceTells(Len(Lengths), MergedUpTo[Len(Lengths)])
<1> DEFINE Tells(b) ==
      /\ FrameTells(b, MergedUpTo[b])
      /\ case.reducer \in {"append", "combine"} => ListTells(b, MergedUpTo[b], flat)
      /\ case.reducer \in {"override", "keep"} => ChoiceTells(b, MergedUpTo[b])
<1>1. Branch = 1..Len(Lengths) /\ Len(Lengths) \in Nat
  BY LengthsAssumption DEF Branch
<1>2. /\ MergedUpTo[0] = Memory(heap, Absent)
      /\ \A b \in 0..Len(Lengths) : MergedUpTo[b] \in Update
      /\ \A b \in Branch :
            MergedUpTo[b] = IF delta[b] = Absent THEN MergedUpTo[b - 1]
                            ELSE ApplyReducer(MergedUpTo[b - 1], delta[b], Built("merged", 0))
  BY UpdatesAreMerged
<1>3. Tells(0)
  <2>1. heap \in [List -> Seq(AnyItem)]
    BY DEF AtWork, BranchesAtWork
  <2>2. PICK update \in Update : update = MergedUpTo[0] /\ update.heap = heap /\ update.dict = Absent
    BY <1>2, <2>1, MemoriesAreUpdates
  <2>3. 1..0 = {}
    OBVIOUS
  <2>4. FrameTells(0, update)
    BY <2>2, <2>3 DEF FrameTells
  <2>5. ListTells(0, update, flat)
    BY <2>2 DEF ListTells, Flattens
  <2>6. ChoiceTells(0, update)
    BY <2>2 DEF ChoiceTells
  <2> QED
    BY <2>2, <2>4, <2>5, <2>6
<1>4. ASSUME NEW b \in Branch, Tells(b - 1) PROVE Tells(b)
  <2>1. PICK update : update = MergedUpTo[b - 1]
    OBVIOUS
  <2>2. PICK next : next = MergedUpTo[b]
    OBVIOUS
  <2>3. next = IF delta[b] = Absent THEN update
               ELSE ApplyReducer(update, delta[b], Built("merged", 0))
    BY <1>2, <2>1, <2>2
  <2>4. FrameTells(b - 1, update)
    BY <1>4, <2>1
  <2>5. FrameTells(b, next)
    BY <2>3, <2>4, FrameStep
  <2>6. ASSUME case.reducer \in {"append", "combine"} PROVE ListTells(b, next, flat)
    <3>1. ListTells(b - 1, update, flat)
      BY <1>4, <2>1, <2>6
    <3> QED
      BY <2>3, <2>4, <2>6, <3>1, ListStep
  <2>7. ASSUME case.reducer \in {"override", "keep"} PROVE ChoiceTells(b, next)
    <3>1. ChoiceTells(b - 1, update)
      BY <1>4, <2>1, <2>7
    <3> QED
      BY <2>3, <2>4, <2>7, <3>1, ChoiceStep
  <2> QED
    BY <2>2, <2>5, <2>6, <2>7
<1> HIDE DEF Tells
<1>5. PICK S : S = {n \in Nat : n \in 0..Len(Lengths) => Tells(n)}
  OBVIOUS
<1>6. 0 \in S
  BY <1>3, <1>5
<1>7. ASSUME NEW n \in S PROVE n + 1 \in S
  <2> SUFFICES ASSUME n + 1 \in 0..Len(Lengths) PROVE Tells(n + 1)
    BY <1>5
  <2>1. n \in Nat /\ n + 1 \in Branch /\ (n + 1) - 1 = n /\ Tells(n)
    BY <1>1, <1>5
  <2>2. PICK b \in Branch : b = n + 1 /\ b - 1 = n
    BY <2>1
  <2>3. Tells(b)
    BY <1>4, <2>1, <2>2
  <2> QED
    BY <2>2, <2>3
<1>8. S = Nat
  BY <1>5, <1>6, <1>7, NumbersByInduction
<1>9. Tells(Len(Lengths))
  <2>1. Len(Lengths) \in 0..Len(Lengths)
    BY <1>1
  <2> QED
    BY <1>1, <1>5, <1>8, <2>1
<1> QED
  BY <1>9 DEF Tells

(* The update and the state.                                                *)
LEMMA MergeTells ==
    ASSUME AtWork, MergeDeltas
    PROVE  (MergedOnceInBranchOrder /\ NothingIsLost)'
<1> DEFINE N == Len(Lengths)
<1>0. /\ Branch = 1..N /\ N \in Nat /\ N = Len(said) /\ said \in Seq(Seq(AnyItem))
      /\ said \in [Branch -> Seq(AnyItem)]
  <2>1. Branch = 1..N /\ N \in Nat
    BY LengthsAssumption DEF Branch
  <2>2. said \in [Branch -> Seq(AnyItem)]
    BY DEF AtWork
  <2>3. said \in Seq(Seq(AnyItem))
    BY <2>1, <2>2
  <2>4. Len(said) = N
    BY <2>1, <2>2, <2>3
  <2> QED
    BY <2>1, <2>2, <2>3, <2>4
<1>1. PICK flat : Flattens(flat)
  BY <1>0, FlattenSteps DEF Flattens
<1>2. PICK merged : merged = MergedUpTo[N]
  OBVIOUS
<1>3. /\ FrameTells(N, merged)
      /\ case.reducer \in {"append", "combine"} => ListTells(N, merged, flat)
      /\ case.reducer \in {"override", "keep"} => ChoiceTells(N, merged)
  BY <1>1, <1>2, UpdateTells
<1>4. /\ case.reducer \in Reducer /\ case.present \in BOOLEAN
      /\ heap \in [List -> Seq(AnyItem)]
      /\ state = IF case.present THEN Shared ELSE Absent
      /\ ToSet(Before) \subseteq ToSet(heap[Shared])
      /\ case.reducer # "append" => heap[Shared] = Before
      /\ \A b \in Branch : DeltaTells(b)
  BY CasesAssumption DEF AtWork, BranchesAtWork
<1>5. Shared \in List /\ Built("final", 0) \in List /\ Absent \notin List
  BY AbsentAssumption DEF List
<1>6. PICK h \in [List -> Seq(AnyItem)], dict \in List \cup {Absent} :
         merged = Memory(h, dict) /\ merged.heap = h /\ merged.dict = dict
  BY <1>3 DEF FrameTells, Update, Memory
<1>7. PICK final : /\ final = IF dict = Absent THEN Memory(heap, state)
                              ELSE ApplyReducer(Memory(h, state), dict, Built("final", 0))
                   /\ heap' = final.heap /\ state' = final.dict
  BY <1>2, <1>6 DEF MergeDeltas
<1>8. /\ UNCHANGED <<case, said>> /\ Before' = Before /\ Speakers' = Speakers
      /\ ExtendsShared' = ExtendsShared /\ Expected' = Expected
  <2>1. UNCHANGED <<case, said>>
    BY DEF MergeDeltas
  <2> QED
    BY <2>1 DEF Before, Speakers, ExtendsShared, Expected
<1>9. h[Shared] = heap[Shared] /\ (dict = Absent <=> Speakers = {})
  <2>1. h[Shared] = heap[Shared] /\ (dict = Absent <=> \A c \in 1..N : said[c] = <<>>)
    BY <1>3, <1>6 DEF FrameTells
  <2> QED
    BY <1>0, <2>1 DEF Speakers
<1>10. PICK base \in Seq(AnyItem) : base = Contents(state)
  BY <1>4, <1>5, EmptySeq DEF Contents
<1>11. ToSet(Before) \subseteq ToSet(base) /\ (~(case.reducer = "append" /\ case.present) => base = Before)
       /\ Before \in Seq(AnyItem)
  <2>1. Before \in Seq(AnyItem)
    <3>1. Old \in AnyItem
      BY DEF Old, AnyItem
    <3> QED
      BY <3>1 DEF Before
  <2>2. CASE case.present
    BY <1>4, <1>5, <1>10, <2>1, <2>2 DEF Contents
  <2>3. CASE ~case.present
    BY <1>4, <1>10, <2>1, <2>3 DEF Contents, Before
  <2> QED
    BY <2>2, <2>3
<1>12. Flattens(flat) /\ FlattenSeq(said) = flat[N] /\ flat[N] \in Seq(AnyItem)
  BY <1>0, <1>1 DEF Flattens
<1> HIDE DEF N
<1>13. CASE dict = Absent
  <2>1. heap' = heap /\ state' = state
    BY <1>7, <1>13 DEF Memory
  <2>2. Contents(state)' = base
    BY <1>10, <2>1 DEF Contents
  <2>3. case.reducer \in {"append", "combine"} => flat[N] = <<>>
    BY <1>3, <1>6, <1>13 DEF ListTells
  <2>4. Speakers = {}
    BY <1>9, <1>13
  <2>5. Before \o <<>> = Before
    BY <1>11, ConcatEmptySeq
  <2>6. ~(case.reducer = "append" /\ case.present) => Expected = Before
    <3>1. CASE case.reducer \in {"append", "combine"}
      BY <1>12, <2>3, <2>5, <3>1 DEF Expected
    <3>2. CASE case.reducer \notin {"append", "combine"}
      BY <2>4, <3>2 DEF Expected
    <3> QED
      BY <3>1, <3>2
  <2>7. MergedOnceInBranchOrder'
    BY <1>8, <1>11, <2>2, <2>6 DEF MergedOnceInBranchOrder, ExtendsShared
  <2>8. NothingIsLost'
    BY <1>8, <1>11, <1>12, <2>2, <2>3, <2>5 DEF NothingIsLost
  <2> QED
    BY <2>7, <2>8
<1>14. CASE dict # Absent /\ case.reducer \in {"append", "combine"}
  <2>1. PICK d \in List : d = dict
    BY <1>14
  <2>2. final = ApplyReducer(Memory(h, state), d, Built("final", 0))
    BY <1>7, <1>14, <2>1
  <2>3. PICK merge \in Seq(AnyItem) : merge = h[d]
    OBVIOUS
  <2>4. Contents(state)' = base \o merge
    <3>1. CASE case.present
      <4>1. state = Shared /\ base = h[Shared]
        BY <1>4, <1>5, <1>9, <1>10, <3>1 DEF Contents
      <4>2. final = ApplyReducer(Memory(h, Shared), d, Built("final", 0))
        BY <2>2, <4>1
      <4>3. PICK at \in List : Joins(h, Shared, d, at, final)
        BY <1>5, <1>14, <4>2, ReducedToJoined
      <4>4. state' = at /\ heap'[at] = h[Shared] \o h[d] /\ at # Absent
        BY <1>5, <1>7, <4>3 DEF Joins
      <4> QED
        BY <2>3, <4>1, <4>4 DEF Contents
    <3>2. CASE ~case.present
      <4>1. state = Absent /\ base = <<>>
        BY <1>4, <1>10, <3>2 DEF Contents
      <4>2. final.heap = h /\ final.dict = d
        BY <2>2, <4>1, ReducedToValue
      <4>3. Contents(state)' = merge
        BY <1>5, <1>7, <2>3, <4>2 DEF Contents
      <4> QED
        BY <4>1, <4>3, ConcatEmptySeq
    <3> QED
      BY <3>1, <3>2
  <2>5. /\ ToSet(flat[N]) \subseteq ToSet(merge)
        /\ (case.reducer = "combine" \/ \A c \in 1..N : Len(said[c]) <= 1) => merge = flat[N]
    BY <1>3, <1>6, <1>14, <2>1, <2>3 DEF ListTells
  <2>6. PICK all \in Seq(AnyItem), before \in Seq(AnyItem) : all = flat[N] /\ before = Before
    BY <1>11, <1>12
  <2>7. ToSet(base \o merge) = ToSet(base) \cup ToSet(merge)
        /\ ToSet(before \o all) = ToSet(before) \cup ToSet(all)
    BY SetsOfSequences
  <2>8. NothingIsLost'
    BY <1>8, <1>11, <1>12, <2>4, <2>5, <2>6, <2>7 DEF NothingIsLost
  <2>9. MergedOnceInBranchOrder'
    <3> SUFFICES ASSUME ~ExtendsShared PROVE Contents(state)' = Expected
      BY <1>8 DEF MergedOnceInBranchOrder
    <3>1. ~(case.reducer = "append" /\ case.present)
      BY DEF ExtendsShared
    <3>2. case.reducer = "combine" \/ \A c \in 1..N : Len(said[c]) <= 1
      <4>1. CASE case.reducer = "append"
        <5>1. \A c \in Branch : ~(Len(said[c]) > 1) /\ Len(said[c]) \in Nat
          BY <1>0, <4>1 DEF ExtendsShared
        <5>2. \A c \in Branch : Len(said[c]) <= 1
          BY <5>1
        <5> QED
          BY <1>0, <5>2
      <4> QED
        BY <1>14, <4>1
    <3>3. Contents(state)' = Before \o flat[N]
      BY <1>11, <2>4, <2>5, <3>1, <3>2
    <3>4. Expected = Before \o FlattenSeq(said)
      BY <1>14 DEF Expected
    <3> QED
      BY <1>12, <3>3, <3>4
  <2> QED
    BY <2>8, <2>9
<1>15. CASE dict # Absent /\ case.reducer \in {"override", "keep"}
  <2>1. PICK c \in Branch : /\ said[c] # <<>> /\ dict = delta[c] /\ h = heap
                            /\ \A d \in Branch : said[d] # <<>> =>
                                  /\ case.reducer = "override" => d <= c
                                  /\ case.reducer = "keep" => c <= d
    <3>1. /\ h = heap
          /\ \E c \in 1..N : /\ said[c] # <<>> /\ dict = delta[c]
                             /\ \A d \in 1..N : said[d] # <<>> =>
                                   /\ case.reducer = "override" => d <= c
                                   /\ case.reducer = "keep" => c <= d
      BY <1>3, <1>6, <1>15 DEF ChoiceTells
    <3> QED
      BY <1>0, <3>1
  <2>2. c \in Speakers /\ Speakers \subseteq Nat /\ Speakers # {}
    BY <2>1, BranchesAreNumbers DEF Speakers
  <2>3. final = ApplyReducer(Memory(h, state), dict, Built("final", 0))
    BY <1>7, <1>15
  <2>4. DeltaTells(c)
    BY <1>4
  <2>5. NothingIsLost'
    BY <1>8, <1>15 DEF NothingIsLost
  <2>6. Contents(state)' = Expected
    <3>1. CASE case.reducer = "override"
      <4>1. final.heap = h /\ final.dict = dict
        BY <2>3, <3>1, ReducedToValue
      <4>2. heap[delta[c]] = Before \o said[c]
        BY <2>1, <2>4, <3>1 DEF DeltaTells
      <4>3. Contents(state)' = Before \o said[c]
        BY <1>7, <1>15, <2>1, <4>1, <4>2 DEF Contents
      <4>4. \A b \in Speakers : (\A d \in Speakers : d <= b) <=> b = c
        BY <2>1, <2>2, <3>1 DEF Speakers
      <4>5. (CHOOSE b \in Speakers : \A d \in Speakers : d <= b) = c
        BY <2>2, <4>4
      <4>6. Expected = Before \o said[CHOOSE b \in Speakers : \A d \in Speakers : d <= b]
        BY <2>2, <3>1 DEF Expected
      <4> QED
        BY <4>3, <4>5, <4>6
    <3>2. CASE case.reducer = "keep" /\ ~case.present
      <4>1. final.heap = h /\ final.dict = dict
        <5>1. state = Absent
          BY <1>4, <3>2
        <5> QED
          BY <2>3, <5>1, ReducedToValue
      <4>2. heap[delta[c]] = <<Head(said[c])>>
        BY <2>1, <2>4, <3>2 DEF DeltaTells
      <4>3. Contents(state)' = <<Head(said[c])>>
        BY <1>7, <1>15, <2>1, <4>1, <4>2 DEF Contents
      <4>4. \A b \in Speakers : (\A d \in Speakers : b <= d) <=> b = c
        BY <2>1, <2>2, <3>2 DEF Speakers
      <4>5. (CHOOSE b \in Speakers : \A d \in Speakers : b <= d) = c
        BY <2>2, <4>4
      <4>6. Expected = <<Head(said[CHOOSE b \in Speakers : \A d \in Speakers : b <= d])>>
        BY <2>2, <3>2 DEF Expected
      <4> QED
        BY <4>3, <4>5, <4>6
    <3>3. CASE case.reducer = "keep" /\ case.present
      <4>1. state = Shared /\ Shared # Absent
        BY <1>4, <1>5, <3>3
      <4>2. final.heap = h /\ final.dict = Shared
        BY <2>3, <3>3, <4>1, ReducedToFirst
      <4>3. Contents(state)' = base
        BY <1>7, <1>10, <2>1, <4>1, <4>2 DEF Contents
      <4>4. Expected = Before
        BY <3>3 DEF Expected
      <4> QED
        BY <1>11, <3>3, <4>3, <4>4
    <3> QED
      BY <1>15, <3>1, <3>2, <3>3
  <2>7. MergedOnceInBranchOrder'
    BY <1>8, <2>6 DEF MergedOnceInBranchOrder
  <2> QED
    BY <2>5, <2>7
<1> QED
  BY <1>4, <1>13, <1>14, <1>15 DEF Reducer

-----------------------------------------------------------------------------
LEMMA MergeInitInv == BranchesInit => MergeInv
<1> SUFFICES ASSUME BranchesInit PROVE MergeInv
  OBVIOUS
<1>1. /\ case \in Cases /\ outcome = "running"
      /\ heap = [l \in List |-> IF l = Shared THEN Before ELSE <<>>]
      /\ state = IF case.present THEN Shared ELSE Absent
      /\ branchState = [b \in Branch |-> state]
      /\ delta = [b \in Branch |-> Absent]
      /\ position = [b \in Branch |-> 0]
      /\ said = [b \in Branch |-> <<>>]
  BY DEF BranchesInit
<1>2. Shared \in List
  BY DEF List
<1>3. Before \in Seq(AnyItem) /\ <<>> \in Seq(AnyItem)
  <2>1. Old \in AnyItem
    BY DEF Old, AnyItem
  <2> QED
    BY <2>1 DEF Before
<1>4. heap \in [List -> Seq(AnyItem)] /\ heap[Shared] = Before
  BY <1>1, <1>2, <1>3
<1>5. BranchesAtWork
  <2>1. \A b \in Branch : position[b] = 0 /\ 0 <= Lengths[b]
    BY <1>1, BranchesAreNumbers
  <2> QED
    BY <1>1, <1>2, <1>4, <2>1 DEF BranchesAtWork
<1>6. said \in [Branch -> Seq(AnyItem)]
  BY <1>1, <1>3
<1>7. ASSUME NEW b \in Branch PROVE DeltaTells(b)
  <2>1. state \notin {Built("branch", b)} /\ Absent # Built("delta", b)
    <3>1. Shared # Built("branch", b)
      BY DEF Shared, Built
    <3>2. Absent \notin {Built("delta", b), Built("branch", b)}
      BY AbsentAssumption DEF List
    <3> QED
      BY <1>1, <3>1, <3>2
  <2> QED
    BY <1>1, <2>1 DEF DeltaTells
<1> QED
  BY <1>1, <1>5, <1>6, <1>7 DEF MergeInv

LEMMA MergeNextInv == MergeInv /\ [BranchesNext]_branchesVars => MergeInv'
<1> SUFFICES ASSUME MergeInv, [BranchesNext]_branchesVars PROVE MergeInv'
  OBVIOUS
<1>0. outcome # "merged" => AtWork
  BY DEF MergeInv, AtWork
<1>1. CASE UNCHANGED branchesVars
  <2>1. UNCHANGED <<case, heap, state, branchState, delta, position, said, outcome>>
    BY <1>1 DEF branchesVars
  <2>2. Before' = Before /\ Contents(state)' = Contents(state) /\ Expected' = Expected
        /\ ExtendsShared' = ExtendsShared
    BY <2>1 DEF Before, Contents, Expected, Speakers, ExtendsShared
  <2>3. /\ MergedOnceInBranchOrder => MergedOnceInBranchOrder'
        /\ NothingIsLost => NothingIsLost'
    BY <2>1, <2>2 DEF MergedOnceInBranchOrder, NothingIsLost
  <2>4. BranchesAtWork => BranchesAtWork'
    BY <2>1, <2>2 DEF BranchesAtWork
  <2>5. ASSUME NEW b \in Branch, DeltaTells(b) PROVE DeltaTells(b)'
    <3>1. Past(b)' = Past(b)
      BY <2>1 DEF Past
    <3> QED
      BY <2>1, <2>2, <2>5, <3>1 DEF DeltaTells
  <2> QED
    BY <2>1, <2>3, <2>4, <2>5 DEF MergeInv
<1>2. ASSUME UNCHANGED <<case, heap, state, branchState, delta, said>>, outcome # "merged",
             outcome' # "merged", position' \in [Branch -> Nat],
             \A b \in Branch : position[b] <= position'[b] /\ position'[b] <= Lengths[b]
      PROVE  MergeInv'
  <2>1. AtWork
    BY <1>0, <1>2
  <2>2. Before' = Before
    BY <1>2 DEF Before
  <2>3. BranchesAtWork'
    BY <1>2, <2>1, <2>2 DEF AtWork, BranchesAtWork
  <2>4. ASSUME NEW b \in Branch PROVE DeltaTells(b)'
    <3>1. Past(b) \subseteq Past(b)'
      <4>1. position \in [Branch -> Nat]
        BY <2>1 DEF AtWork, BranchesAtWork
      <4>2. 1..position[b] \subseteq 1..position'[b]
        BY <1>2, <4>1
      <4> QED
        BY <4>2 DEF Past
    <3>2. DeltaTells(b)
      BY <2>1 DEF AtWork
    <3> QED
      BY <1>2, <2>2, <3>1, <3>2 DEF DeltaTells
  <2> QED
    BY <1>2, <2>1, <2>3, <2>4 DEF AtWork, MergeInv
<1>3. ASSUME NEW b \in Branch, NodeReturns(b) PROVE MergeInv'
  <2>1. outcome # "merged" /\ outcome' = outcome
    BY <1>3 DEF NodeReturns, CanRun
  <2>2. AtWork'
    BY <1>0, <1>3, <2>1, NodeReturnsTells
  <2> QED
    BY <2>1, <2>2 DEF MergeInv, AtWork
<1>4. ASSUME NEW b \in Branch, NodeReturnsNothing(b) PROVE MergeInv'
  <2>1. /\ outcome # "merged" /\ outcome' = outcome /\ position[b] < Lengths[b]
        /\ position' = [position EXCEPT ![b] = position[b] + 1]
        /\ UNCHANGED <<case, heap, state, branchState, delta, said>>
    BY <1>4 DEF NodeReturnsNothing, CanRun
  <2>2. position \in [Branch -> Nat] /\ \A c \in Branch : position[c] <= Lengths[c]
    BY <1>0, <2>1 DEF AtWork, BranchesAtWork
  <2>3. \A c \in Branch : Lengths[c] \in Nat
    BY BranchesAreNumbers
  <2>4. position' \in [Branch -> Nat]
        /\ \A c \in Branch : position[c] <= position'[c] /\ position'[c] <= Lengths[c]
    BY <2>1, <2>2, <2>3
  <2> QED
    BY <1>2, <2>1, <2>4
<1>5. ASSUME UNCHANGED <<case, heap, state, branchState, delta, said, position>>, outcome # "merged",
             outcome' # "merged"
      PROVE  MergeInv'
  <2>1. position \in [Branch -> Nat] /\ \A c \in Branch : position[c] <= Lengths[c]
    BY <1>0, <1>5 DEF AtWork, BranchesAtWork
  <2>2. \A c \in Branch : position[c] <= position'[c] /\ position'[c] <= Lengths[c]
    BY <1>5, <2>1
  <2> QED
    BY <1>2, <1>5, <2>1, <2>2
<1>6. ASSUME NEW b \in Branch, NodeRaises(b) PROVE MergeInv'
  BY <1>5, <1>6 DEF NodeRaises
<1>7. CASE CancelSiblings \/ Timeout
  BY <1>5, <1>7 DEF CancelSiblings, Timeout
<1>8. CASE MergeDeltas
  <2>1. outcome = "running" /\ outcome' = "merged" /\ UNCHANGED <<case, said>>
    BY <1>8 DEF MergeDeltas
  <2>2. AtWork /\ (MergedOnceInBranchOrder /\ NothingIsLost)'
    BY <1>0, <1>8, <2>1, MergeTells
  <2> QED
    BY <2>1, <2>2 DEF MergeInv, AtWork
<1>9. CASE Done
  BY <1>1, <1>9 DEF Done
<1> QED
  BY <1>1, <1>3, <1>4, <1>6, <1>7, <1>8, <1>9 DEF BranchesNext

THEOREM BranchesMergeOnce == BranchesSpec => []MergedOrUntouched
<1>1. MergeInv => MergedOnceInBranchOrder /\ NothingIsLost
  BY DEF MergeInv, MergedOnceInBranchOrder, NothingIsLost
<1>2. BranchesSpec => []MergeInv
  BY MergeInitInv, MergeNextInv, PTL DEF BranchesSpec
<1>3. (FailureLeavesStateAlone /\ BranchesAreIsolated) /\ MergeInv => MergedOrUntouched
  BY <1>1 DEF MergedOrUntouched
<1> QED
  BY <1>2, <1>3, BranchesStayApart, PTL
===============================================================================
