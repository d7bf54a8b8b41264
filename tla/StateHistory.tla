----------------------------- MODULE StateHistory -----------------------------
(***************************************************************************)
(* Time travel: a store that keeps, beside the current checkpoint of a     *)
(* run, a row of checkpoint_history for every iteration                    *)
(* (checkpoint/history.py, over sqlite.py or pg.py); the calls that read   *)
(* and edit what is stored (graph/graph.py, get_state and update_state);   *)
(* and a rewind, as examples/time_travel does it: load_at an iteration,    *)
(* edit the state, save it under another id, run that id.                  *)
(*                                                                         *)
(* The graph is a line of steps, one of which may ask the operator.  A     *)
(* step leaves an entry: its place and the value it read from the state.   *)
(* A save is two transactions; the process may die between them.           *)
(***************************************************************************)
EXTENDS Naturals, Sequences, SequencesExt

CONSTANTS
    Steps,              \* number of nodes
    AskingStep,         \* the one that interrupts, 0: none
    MaxTurns,           \* bound: turns of the story
    MaxEdits,           \* bound: edits of a state, a rewind's included
    MaxCrashes          \* bound: deaths of the process

ASSUME HistoryAssumption ==
    /\ Steps \in Nat \ {0}
    /\ AskingStep \in 0..Steps
    /\ {MaxTurns, MaxEdits, MaxCrashes} \subseteq Nat

RunId == {"story", "branch"}

NoRow == [done |-> <<>>, value |-> 0, next |-> 0, iteration |-> 0, kind |-> "none"]

VARIABLES
    current,        \* id |-> its row of checkpoints
    timeline,       \* id |-> iteration |-> its row of checkpoint_history
    runner,         \* the process: what it runs, or saves
    turns, edits, crashes,
    torn,           \* history: the last save of an id was cut in two
    rewound         \* history: the snapshot the branch was made from

histVars == <<current, timeline, runner, turns, edits, crashes, torn, rewound>>

AtRest == [pc |-> "idle", id |-> "story", row |-> NoRow]

HistInit ==
    /\ current = [id \in RunId |-> NoRow]
    /\ timeline = [id \in RunId |-> [i \in {} |-> NoRow]]
    /\ runner = AtRest
    /\ turns = 1
    /\ edits = 0
    /\ crashes = 0
    /\ torn = [id \in RunId |-> FALSE]
    /\ rewound = NoRow

(* next is the node to run, 0: None.  kind: what the row says besides.      *)
Row(done, value, next, iteration, kind) ==
    [done |-> done, value |-> value, next |-> next, iteration |-> iteration, kind |-> kind]

FollowingStep(step) == IF step < Steps THEN step + 1 ELSE 0

(* save: the plain checkpointer's row first. *)
Saving(id, row, then) ==
    /\ current' = [current EXCEPT ![id] = row]
    /\ runner' = [pc |-> then, id |-> id, row |-> row]
    /\ torn' = [torn EXCEPT ![id] = TRUE]

(* ... then the row of its iteration, in place of the one it may have.      *)
HistoryInsert(then) ==
    LET id == runner.id
        row == runner.row
        old == timeline[id]
    IN  /\ timeline' = [timeline EXCEPT ![id] =
                          [i \in DOMAIN old \cup {row.iteration} |->
                             IF i = row.iteration THEN row ELSE old[i]]]
        /\ torn' = [torn EXCEPT ![id] = FALSE]
        /\ runner' = [runner EXCEPT !.pc = then]

FinishSave ==
    /\ \/ runner.pc = "saving" /\ HistoryInsert("executing")
       \/ runner.pc = "stopping" /\ HistoryInsert("idle")
    /\ UNCHANGED <<current, turns, edits, crashes, rewound>>

-----------------------------------------------------------------------------
(* The run of an id. *)

(* The top of the executor's loop, or its end.  A row says next and         *)
(* iteration; a paused one is answered, with whatever value it is left at.  *)
ContinueWith(id, row) ==
    IF row.next = 0 THEN Saving(id, [row EXCEPT !.kind = "end"], "stopping")
    ELSE Saving(id, row, "saving")

RunFrom(id) ==
    LET row == current[id]
    IN  /\ runner.pc = "idle"
        /\ id = "branch" => row # NoRow
        /\ ContinueWith(id,
             CASE row.kind = "none" -> Row(<<>>, 0, 1, 0, "top")
               [] row.kind = "paused" -> Row(Append(row.done, <<AskingStep, row.value>>), row.value,
                                             FollowingStep(AskingStep), row.iteration, "top")
               [] OTHER -> row)
        /\ UNCHANGED <<timeline, turns, edits, crashes, rewound>>

StepEnds ==
    LET row == runner.row
    IN  /\ runner.pc = "executing"
        /\ row.next # AskingStep
        /\ ContinueWith(runner.id, Row(Append(row.done, <<row.next, row.value>>), row.value,
                                       FollowingStep(row.next), row.iteration + 1, "top"))
        /\ UNCHANGED <<timeline, turns, edits, crashes, rewound>>

StepAsks ==
    LET row == runner.row
    IN  /\ runner.pc = "executing"
        /\ row.next = AskingStep
        /\ Saving(runner.id, Row(row.done, row.value, 0, row.iteration + 1, "paused"), "stopping")
        /\ UNCHANGED <<timeline, turns, edits, crashes, rewound>>

(* A new message for a run that is over: _load_or_seed starts it again with *)
(* iteration 0.                                                             *)
NewTurn ==
    /\ runner.pc = "idle"
    /\ turns < MaxTurns
    /\ current["story"].kind = "end"
    /\ turns' = turns + 1
    /\ Saving("story", [current["story"] EXCEPT !.next = 1, !.iteration = 0, !.kind = "top"],
              "stopping")
    /\ UNCHANGED <<timeline, edits, crashes, rewound>>

-----------------------------------------------------------------------------
(* Edits. *)

(* Mutant: the edited state is saved without the place it was saved at. *)
UpdateStateFromStart(id) ==
    /\ runner.pc = "idle"
    /\ edits < MaxEdits
    /\ current[id] # NoRow
    /\ edits' = edits + 1
    /\ Saving(id, [current[id] EXCEPT !.value = edits', !.next = 1, !.iteration = 0], "stopping")
    /\ UNCHANGED <<timeline, turns, crashes, rewound>>

(* update_state: the rest of the checkpoint is kept, a pause included.      *)
UpdateState(id) ==
    /\ runner.pc = "idle"
    /\ edits < MaxEdits
    /\ current[id] # NoRow
    /\ edits' = edits + 1
    /\ Saving(id, [current[id] EXCEPT !.value = edits'], "stopping")
    /\ UNCHANGED <<timeline, turns, crashes, rewound>>

Rewind(i) ==
    /\ runner.pc = "idle"
    /\ edits < MaxEdits
    /\ turns = 1
    /\ rewound = NoRow
    /\ i \in DOMAIN timeline["story"]
    /\ edits' = edits + 1
    /\ rewound' = timeline["story"][i]
    /\ Saving("branch", [rewound' EXCEPT !.value = edits'], "stopping")
    /\ UNCHANGED <<timeline, turns, crashes>>

(* delete, and cleanup, know the current checkpoint only. *)
DeleteRun ==
    /\ runner.pc = "idle"
    /\ turns < MaxTurns
    /\ turns' = turns + 1
    /\ current["story"] # NoRow
    /\ current' = [current EXCEPT !["story"] = NoRow]
    /\ UNCHANGED <<timeline, runner, edits, crashes, torn, rewound>>

HistoryCrash ==
    /\ crashes < MaxCrashes
    /\ runner.pc # "idle"
    /\ crashes' = crashes + 1
    /\ runner' = AtRest
    /\ UNCHANGED <<current, timeline, turns, edits, torn, rewound>>

HistNext ==
    \/ FinishSave \/ StepEnds \/ StepAsks \/ NewTurn \/ DeleteRun \/ HistoryCrash
    \/ \E id \in RunId : RunFrom(id) \/ UpdateState(id)
    \/ \E i \in 0..Steps + 1 : Rewind(i)

HistSpec == HistInit /\ [][HistNext]_histVars

-----------------------------------------------------------------------------
(* Properties. *)

(* Whatever is edited, paused, answered or run again, the timeline has the  *)
(* current checkpoint at its iteration; a crash between the two             *)
(* transactions is made good by the next save.                              *)
TimelineHasTheCheckpoint ==
    \A id \in RunId : (current[id] # NoRow /\ ~torn[id]) =>
        /\ current[id].iteration \in DOMAIN timeline[id]
        /\ timeline[id][current[id].iteration] = current[id]

(* examples/time_travel: "the past (chapters 1-2) stays identical, the      *)
(* future (chapters 3-4) is rewritten".  Every row of the branch begins     *)
(* with what the story had done by then and goes on from there, step by     *)
(* step, with values no older than the rewind's edit.                       *)
RewindKeepsThePast ==
    \A i \in DOMAIN timeline["branch"] :
        LET done == timeline["branch"][i].done
            past == Len(rewound.done)
        IN  /\ IsPrefix(rewound.done, done)
            /\ \A k \in DOMAIN done : done[k][1] = k
            /\ \A k \in past + 1 .. Len(done) : done[k][2] > 0

(* In a story of one turn the row of iteration i is the state after i       *)
(* steps, also behind a pause that was saved under the number of the step   *)
(* that comes after it.                                                     *)
RowsCountTheirSteps ==
    turns = 1 => \A i \in DOMAIN timeline["story"] :
        LET row == timeline["story"][i]
        IN  Len(row.done) = IF row.kind = "paused" THEN i - 1 ELSE i

\* So the history of an id tells what the id did, behind a rewind too.
HistoryTellsTheStory ==
  TimelineHasTheCheckpoint /\ RewindKeepsThePast /\ RowsCountTheirSteps
===============================================================================
