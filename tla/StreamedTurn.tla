------------------------------ MODULE StreamedTurn ------------------------------
(***************************************************************************)
(* A turn streamed to a client: Graph.stream(message=...) (graph/graph.py) *)
(* under a chat endpoint that relays its events (channels/http.py, the     *)
(* routers of the scaffold and of the example applications).  The graph    *)
(* runs in a task of its own, which hands its events to the endpoint in an *)
(* unbounded queue.  When the client goes away, the task is cancelled once *)
(* the generators the endpoint left behind are finalised; a save it waits  *)
(* for is in a worker thread (asyncio.to_thread), and that is not          *)
(* cancelled once it has started.                                          *)
(*                                                                         *)
(* One client talks to one session: it sends its next message when a       *)
(* stream has ended, or when it has given up on it.  The graph is that of  *)
(* Conversation: an agent that may ask, and a node that replies.  Of the   *)
(* events, those are left out that only report progress on the way.        *)
(***************************************************************************)
EXTENDS Naturals, Sequences, SequencesExt

CONSTANTS
    Endpoints,      \* the kinds of endpoint: "stops" at an interrupt,
                    \* "relays" every event, "server" of examples/fastapi_server
    MaxPosts,       \* bound: messages of the client
    MaxLeaves       \* bound: streams it gives up

Post == 1..MaxPosts

ASSUME StreamedTurnAssumption ==
    /\ Endpoints \subseteq {"stops", "relays", "server"}
    /\ {MaxPosts, MaxLeaves} \subseteq Nat

VARIABLES
    endpoint,       \* which kind it is
    session,        \* the checkpoint of the session
    stream,         \* the locals of every turn
    posted, leaves,
    disturbed       \* history: a turn given up has saved during a later one

strVars == <<endpoint, session, stream, posted, leaves, disturbed>>

(* next is the node to run, "none" when the run is over or paused.          *)
NoSession == [exists |-> FALSE, messages |-> <<>>, paused |-> FALSE, next |-> "none"]

Session(messages, paused, next) ==
    [exists |-> TRUE, messages |-> messages, paused |-> paused, next |-> next]

(* save: what the worker thread is to write, and how far it is; of:         *)
(* whose turn.  client: what the client has been sent, and whether it is    *)
(* still there.                                                             *)
NoSave == [stage |-> "none", row |-> NoSession]

NewStream == [pc |-> "unsent", resume |-> FALSE, row |-> NoSession, save |-> NoSave,
              queue |-> <<>>, seen |-> <<>>, client |-> "none", reply |-> 0]

StrInit ==
    /\ endpoint \in Endpoints
    /\ session = NoSession
    /\ stream = [t \in Post |-> NewStream]
    /\ posted = 0
    /\ leaves = 0
    /\ disturbed = FALSE

(* The tasks between two awaits: a turn moves to another place, perhaps     *)
(* with a save for a worker to do, or with events for its queue.            *)
Moves(t, local) ==
    /\ stream' = [stream EXCEPT ![t] = local]
    /\ UNCHANGED <<endpoint, session, posted, leaves, disturbed>>

AwaitSave(local, pc, row) ==
    [local EXCEPT !.pc = pc, !.row = row, !.save = [stage |-> "queued", row |-> row]]

(* A queue nobody reads any more is left out. *)
Emit(local, events) ==
    IF local.client = "gone" THEN local ELSE [local EXCEPT !.queue = @ \o events]

(* Mutant: the None is put when the run ended well or was interrupted. *)
EndedSilently(local, events) ==
    [Emit(local, IF "error" \in ToSet(events) THEN events ELSE events \o <<"none">>)
       EXCEPT !.pc = "over", !.save = NoSave, !.row = NoSession, !.resume = FALSE]

(* The end of the runner: its last events, and the None behind them.        *)
Ended(local, events) ==
    [Emit(local, events \o <<"none">>) EXCEPT !.pc = "over", !.save = NoSave,
                                               !.row = NoSession, !.resume = FALSE]

SaveDone(t) == stream[t].save.stage = "done"

-----------------------------------------------------------------------------
(* The client. *)

Attached(t) == stream[t].client \in {"listening", "replying"}

PostMessage ==
    /\ posted < MaxPosts
    /\ posted > 0 => ~Attached(posted)
    /\ posted' = posted + 1
    /\ \E resume \in {FALSE} \cup IF endpoint = "server" /\ posted > 0
                                     /\ "interrupt" \in ToSet(stream[posted].seen)
                                   THEN {TRUE} ELSE {} :
          stream' = [stream EXCEPT ![posted'] =
                       [NewStream EXCEPT !.pc = "preparing", !.resume = resume,
                                         !.client = "listening"]]
    /\ UNCHANGED <<endpoint, session, leaves, disturbed>>

LeaveStream(t) ==
    /\ Attached(t)
    /\ leaves < MaxLeaves
    /\ leaves' = leaves + 1
    /\ stream' = [stream EXCEPT ![t].client = "gone", ![t].queue = <<>>]
    /\ UNCHANGED <<endpoint, session, posted, disturbed>>

(* The generators are finalised: stream's finally cancels the task, and a   *)
(* turn that is still being prepared is cancelled itself.                   *)
CancelRunner(t) ==
    /\ stream[t].client = "gone"
    /\ stream[t].pc # "over"
    /\ Moves(t, [stream[t] EXCEPT !.pc = "over", !.row = NoSession, !.resume = FALSE,
                                  !.save = IF @.stage = "started" THEN @ ELSE NoSave])

(* An event reaches the client.  At the end of the queue most endpoints     *)
(* read the last reply back from the session and send that.                 *)
TakeEvent(t) ==
    LET event == Head(stream[t].queue)
        local == [stream[t] EXCEPT !.queue = Tail(@)]
    IN  /\ stream[t].client = "listening"
        /\ stream[t].queue # <<>>
        /\ Moves(t,
             IF event = "none"
               THEN [local EXCEPT !.client = IF endpoint = "server" THEN "done" ELSE "replying"]
             ELSE [local EXCEPT !.seen = Append(@, event),
                                !.client = IF endpoint = "stops" /\ event = "interrupt"
                                             THEN "done" ELSE @])

LastReplyOf(row) ==
    LET replies == {i \in DOMAIN row.messages : row.messages[i].role = "assistant"}
    IN  IF replies = {} THEN 0 ELSE row.messages[Max(replies)].turn

SendReply(t) ==
    /\ stream[t].client = "replying"
    /\ Moves(t, [stream[t] EXCEPT !.client = "done", !.reply = LastReplyOf(session)])

-----------------------------------------------------------------------------
(* A worker thread. *)

WorkerStarts(t) ==
    /\ stream[t].save.stage = "queued"
    /\ Moves(t, [stream[t] EXCEPT !.save.stage = "started"])

WorkerSaves(t) ==
    /\ stream[t].save.stage = "started"
    /\ session' = stream[t].save.row
    /\ stream' = [stream EXCEPT ![t].save = IF stream[t].pc = "over" THEN NoSave
                                            ELSE [@ EXCEPT !.stage = "done"]]
    /\ disturbed' = (disturbed \/ t < posted)
    /\ UNCHANGED <<endpoint, posted, leaves>>

-----------------------------------------------------------------------------
(* The turn: before the task. *)

(* pending: an Assistant finds out whether the message is an answer; the    *)
(* server of the example is told.                                           *)
ReadPending(t) ==
    LET resume == IF endpoint = "server" THEN stream[t].resume ELSE session.paused
    IN  /\ stream[t].pc = "preparing"
        /\ Moves(t, [stream[t] EXCEPT !.resume = resume,
                                      !.pc = IF resume THEN "begin" ELSE "seeding"])

SaidIn(role, t) == [role |-> role, turn |-> t]

(* Mutant: the durable state is only read when the run starts. *)
SeedOrExtendUnsaved(t) ==
    /\ stream[t].pc = "seeding"
    /\ Moves(t, [stream[t] EXCEPT !.pc = "begin",
                   !.row = Session(Append(session.messages, SaidIn("user", t)), FALSE, "agent")])

(* _load_or_seed and _prepare_turn: a session that exists is extended and   *)
(* saved, at the entry point; the server keeps a pause that is in it.       *)
SeedOrExtend(t) ==
    LET messages == Append(session.messages, SaidIn("user", t))
    IN  /\ stream[t].pc = "seeding"
        /\ Moves(t,
             IF session.exists
               THEN AwaitSave(stream[t], "extending",
                              Session(messages, endpoint = "server" /\ session.paused, "agent"))
               ELSE [stream[t] EXCEPT !.pc = "begin", !.row = Session(messages, FALSE, "agent")])

SaveSeeded(t) ==
    /\ stream[t].pc = "extending"
    /\ SaveDone(t)
    /\ Moves(t, [stream[t] EXCEPT !.pc = "begin", !.save = NoSave])

-----------------------------------------------------------------------------
(* The task: execute, and what _runner makes of its end. *)

(* The top of the loop: the row is saved before its node runs. *)
TopOf(local, row) ==
    IF row.next = "none" THEN AwaitSave(local, "saveEnd", row)
    ELSE AwaitSave(local, "saveTop", row)

(* A pause that is not answered is raised again, without another event. *)
RunBegins(t) ==
    LET row == IF session.exists THEN session ELSE stream[t].row
    IN  /\ stream[t].pc = "begin"
        /\ Moves(t,
             CASE row.paused /\ ~stream[t].resume -> Ended(stream[t], <<"interrupted">>)
               [] row.paused /\ stream[t].resume ->
                    TopOf(stream[t], Session(row.messages, FALSE, "finish"))
               [] OTHER -> TopOf(stream[t], row))

NodeStarts(t) ==
    /\ stream[t].pc = "saveTop"
    /\ SaveDone(t)
    /\ Moves(t, [stream[t] EXCEPT !.pc = "running", !.save = NoSave])

AgentEnds(t) ==
    /\ stream[t].pc = "running"
    /\ stream[t].row.next = "agent"
    /\ Moves(t, TopOf(stream[t], [stream[t].row EXCEPT !.next = "finish"]))

FinishEnds(t) ==
    /\ stream[t].pc = "running"
    /\ stream[t].row.next = "finish"
    /\ Moves(t, TopOf(Emit(stream[t], <<"node_end">>),
                      Session(Append(stream[t].row.messages, SaidIn("assistant", t)), FALSE, "none")))

(* Mutant: the question is put to the client, and then saved. *)
AgentAsksFirst(t) ==
    /\ stream[t].pc = "running"
    /\ stream[t].row.next = "agent"
    /\ Moves(t, AwaitSave(Emit(stream[t], <<"interrupt">>), "savePause",
                          Session(stream[t].row.messages, TRUE, "none")))

AgentAsks(t) ==
    /\ stream[t].pc = "running"
    /\ stream[t].row.next = "agent"
    /\ Moves(t, AwaitSave(stream[t], "savePause", Session(stream[t].row.messages, TRUE, "none")))

NodeFails(t) ==
    /\ stream[t].pc = "running"
    /\ Moves(t, Ended(stream[t], <<"error">>))

RunPauses(t) ==
    /\ stream[t].pc = "savePause"
    /\ SaveDone(t)
    /\ Moves(t, Ended(stream[t], <<"interrupt", "interrupted">>))

RunEnds(t) ==
    /\ stream[t].pc = "saveEnd"
    /\ SaveDone(t)
    /\ Moves(t, Ended(stream[t], <<"ok">>))

StrWork(t) ==
    \/ CancelRunner(t) \/ TakeEvent(t) \/ SendReply(t) \/ WorkerStarts(t) \/ WorkerSaves(t)
    \/ ReadPending(t) \/ SeedOrExtend(t) \/ SaveSeeded(t)
    \/ RunBegins(t) \/ NodeStarts(t) \/ AgentEnds(t) \/ FinishEnds(t)
    \/ AgentAsks(t) \/ NodeFails(t) \/ RunPauses(t) \/ RunEnds(t)

StrNext ==
    \/ PostMessage
    \/ \E t \in Post : LeaveStream(t) \/ StrWork(t)

(* Tasks are scheduled, threads run, and generators that nobody holds any   *)
(* more are finalised.                                                      *)
StrFairness == \A t \in Post : WF_strVars(StrWork(t))

-----------------------------------------------------------------------------
(* Properties. *)

(* The question is durable before the client sees it: when a stream has     *)
(* told the client that it is waiting, the session waits for the answer to  *)
(* that question, so the next message is taken as one.  (An earlier turn    *)
(* that saves meanwhile, because its client gave up on it, may undo this.)  *)
WaitingIsDurable ==
    \A t \in Post : (t = posted /\ ~disturbed /\ "interrupt" \in ToSet(stream[t].seen)) =>
        /\ session.paused
        /\ Last(session.messages) = SaidIn("user", t)

(* The message event at the end of a stream is the reply of this turn, when *)
(* the run ended well; and the events came in order, the end of the run     *)
(* last.                                                                    *)
StreamTellsItsTurn ==
    \A t \in Post : (stream[t].client = "done" /\ "ok" \in ToSet(stream[t].seen)) =>
        /\ Last(stream[t].seen) = "ok"
        /\ (endpoint # "server" /\ ~disturbed) => stream[t].reply = t

(* Every turn ends, its task and its save included, whether its client      *)
(* stays or goes.                                                           *)
StreamsEnd ==
    \A t \in Post : stream[t].pc = "preparing" ~>
        /\ stream[t].pc = "over"
        /\ stream[t].save = NoSave
        /\ ~Attached(t)
===============================================================================
