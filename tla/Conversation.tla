----------------------------- MODULE Conversation -----------------------------
(***************************************************************************)
(* A conversation turn: Graph.run(message=...) on a session                *)
(* (graph/graph.py, _conversation_turn and what it calls).  Every turn     *)
(* reads from the checkpoint whether the session is paused, seeds or       *)
(* extends the recorded conversation, runs the graph, and reads the reply  *)
(* back from the checkpoint.  Each of these is a call of the checkpointer  *)
(* of its own, and nothing serialises the turns of a session: callers may  *)
(* overlap, and may die in between.                                        *)
(*                                                                         *)
(* The graph has an entry node that may ask the operator, and a node that  *)
(* finishes the turn with a reply in the messages or under an output key.  *)
(* The executor is GraphExecution; here its saves carry the conversation.  *)
(***************************************************************************)
EXTENDS Naturals, Sequences, SequencesExt

CONSTANTS
    Caller,         \* whoever runs turns of the session
    MaxTurns,       \* bound: messages sent
    Replies,        \* how the last node replies: "message", "output" or both
    Transient,      \* the output key is one of transient_keys
    NoNode, NoCheckpoint, NoTurn

Turn == 1..MaxTurns

ASSUME ConversationAssumption ==
    /\ MaxTurns \in Nat
    /\ Replies \subseteq {"message", "output"}
    /\ Transient \in BOOLEAN
    /\ NoTurn \notin Turn
    /\ NoNode \notin {"agent", "finish"}

Entry == "agent"

(* What the checkpoint of a session holds. *)
Message == [role : {"user", "assistant"}, turn : Turn]
SessionState == [messages : Seq(Message), output : Turn \cup {NoTurn},
                 answer : Turn \cup {NoTurn}, interrupt : BOOLEAN]
SessionRecord == [state : SessionState, next : {"agent", "finish", NoNode}]

ASSUME NoCheckpointAssumption == NoCheckpoint \notin SessionRecord

(* A message is who speaks and in which turn.  interrupt is the key         *)
(* __interrupt__, output the output key; answer is written by a resume.     *)
InitialState == [messages |-> <<>>, output |-> NoTurn, answer |-> NoTurn,
                 interrupt |-> FALSE]

VARIABLES
    checkpoint,     \* of the session
    call,           \* the locals of the turn each caller has in progress
    sent,           \* messages sent so far
    result,         \* history: the TurnResult of every turn
    overlapped      \* history: two turns were in progress at once

conversationVars == <<checkpoint, call, sent, result, overlapped>>

Idle == [pc |-> "idle", turn |-> NoTurn, resume |-> FALSE, state |-> InitialState,
         node |-> NoNode, output |-> FALSE]

ConversationInit ==
    /\ checkpoint = NoCheckpoint
    /\ call = [c \in Caller |-> Idle]
    /\ sent = 0
    /\ result = [t \in Turn |-> [kind |-> "open", text |-> NoTurn, output |-> FALSE]]
    /\ overlapped = FALSE

Saved(state, next) == [state |-> state, next |-> next]

Paused == checkpoint # NoCheckpoint /\ checkpoint.state.interrupt

Said(role, t) == [role |-> role, turn |-> t]

Extended(state, t) == [state EXCEPT !.messages = Append(@, Said("user", t))]

(* reply_text: the last assistant message, else the output key. *)
ReplyText(state) ==
    LET replies == {i \in DOMAIN state.messages : state.messages[i].role = "assistant"}
    IN  IF replies # {} THEN state.messages[Max(replies)].turn ELSE state.output

-----------------------------------------------------------------------------
(* The start of a turn: pending() decides what the message is. *)
Send(c) ==
    /\ call[c] = Idle
    /\ sent < MaxTurns
    /\ sent' = sent + 1
    /\ call' = [call EXCEPT ![c] =
                  [Idle EXCEPT !.pc = IF Paused THEN "starting" ELSE "seeding",
                               !.turn = sent', !.resume = Paused]]
    /\ overlapped' = (overlapped \/ \E d \in Caller : call[d] # Idle)
    /\ UNCHANGED <<checkpoint, result>>

LoadOrSeed(c) ==
    /\ call[c].pc = "seeding"
    /\ IF checkpoint = NoCheckpoint
         THEN call' = [call EXCEPT ![c].pc = "starting",
                                   ![c].state = Extended(InitialState, call[c].turn)]
         ELSE LET kept == IF Transient THEN [checkpoint.state EXCEPT !.output = NoTurn]
                          ELSE checkpoint.state
              IN  call' = [call EXCEPT ![c].pc = "extending",
                                       ![c].state = Extended(kept, call[c].turn)]
    /\ UNCHANGED <<checkpoint, sent, result, overlapped>>

(* Mutant: the extended state is only handed to run. *)
SaveExtendedSkipped(c) ==
    /\ call[c].pc = "extending"
    /\ call' = [call EXCEPT ![c].pc = "starting"]
    /\ UNCHANGED <<checkpoint, sent, result, overlapped>>

SaveExtended(c) ==
    /\ call[c].pc = "extending"
    /\ checkpoint' = Saved(call[c].state, Entry)
    /\ call' = [call EXCEPT ![c].pc = "starting", ![c].state = InitialState]
    /\ UNCHANGED <<sent, result, overlapped>>

-----------------------------------------------------------------------------
(* The run. *)

Walk(c, node, state) ==
    [call EXCEPT ![c].pc = IF node = NoNode THEN "end" ELSE "top",
                 ![c].node = node, ![c].state = state]

(* run loads the checkpoint itself: what it finds replaces the seeded       *)
(* state, and an answer to a question that is gone is dropped.              *)
Start(c) ==
    /\ call[c].pc = "starting"
    /\ call' =
        IF checkpoint = NoCheckpoint THEN Walk(c, Entry, call[c].state)
        ELSE IF ~checkpoint.state.interrupt THEN Walk(c, checkpoint.next, checkpoint.state)
        ELSE IF call[c].resume
          THEN Walk(c, "finish", [checkpoint.state EXCEPT !.interrupt = FALSE,
                                                          !.answer = call[c].turn])
          ELSE [call EXCEPT ![c].pc = "interrupted"]
    /\ UNCHANGED <<checkpoint, sent, result, overlapped>>

SaveBeforeNode(c) ==
    /\ call[c].pc = "top"
    /\ checkpoint' = Saved(call[c].state, call[c].node)
    /\ call' = [call EXCEPT ![c].pc = "executing"]
    /\ UNCHANGED <<sent, result, overlapped>>

AgentReturns(c) ==
    /\ call[c].pc = "executing"
    /\ call[c].node = "agent"
    /\ call' = Walk(c, "finish", call[c].state)
    /\ UNCHANGED <<checkpoint, sent, result, overlapped>>

AgentInterrupts(c) ==
    /\ call[c].pc = "executing"
    /\ call[c].node = "agent"
    /\ checkpoint' = Saved([call[c].state EXCEPT !.interrupt = TRUE], NoNode)
    /\ call' = [call EXCEPT ![c].pc = "interrupted"]
    /\ UNCHANGED <<sent, result, overlapped>>

FinishReplies(c) ==
    /\ call[c].pc = "executing"
    /\ call[c].node = "finish"
    /\ \/ /\ "message" \in Replies
          /\ call' = Walk(c, NoNode, [call[c].state EXCEPT
                        !.messages = Append(@, Said("assistant", call[c].turn))])
       \/ /\ "output" \in Replies
          /\ call' = [Walk(c, NoNode, [call[c].state EXCEPT !.output = call[c].turn])
                        EXCEPT ![c].output = TRUE]
    /\ UNCHANGED <<checkpoint, sent, result, overlapped>>

SaveAtEnd(c) ==
    /\ call[c].pc = "end"
    /\ checkpoint' = Saved(call[c].state, NoNode)
    /\ call' = [call EXCEPT ![c].pc = "replying"]
    /\ UNCHANGED <<sent, result, overlapped>>

-----------------------------------------------------------------------------
(* The end of a turn. *)
EndTurn(c, kind, text) ==
    /\ result' = [result EXCEPT ![call[c].turn] = 
                  [kind |-> kind, text |-> text, output |-> call[c].output]]
    /\ call' = [call EXCEPT ![c] = Idle]
    /\ UNCHANGED <<checkpoint, sent, overlapped>>

(* last_reply reads the checkpoint again; the channel falls back to the     *)
(* output key of the state the run returned.                                *)
Reply(c) ==
    /\ call[c].pc = "replying"
    /\ EndTurn(c, "replied",
               ReplyText([call[c].state EXCEPT !.messages = checkpoint.state.messages]))

Wait(c) ==
    /\ call[c].pc = "interrupted"
    /\ EndTurn(c, "waiting", NoTurn)

(* A node raises: the caller gets the exception. *)
Fail(c) ==
    /\ call[c].pc = "executing"
    /\ EndTurn(c, "failed", NoTurn)

Die(c) ==
    /\ call[c] # Idle
    /\ EndTurn(c, "died", NoTurn)

ConversationNext == \E c \in Caller :
    \/ Send(c) \/ LoadOrSeed(c) \/ SaveExtended(c) \/ Start(c)
    \/ SaveBeforeNode(c) \/ AgentReturns(c) \/ AgentInterrupts(c) \/ FinishReplies(c)
    \/ SaveAtEnd(c) \/ Reply(c) \/ Wait(c) \/ Fail(c) \/ Die(c)

-----------------------------------------------------------------------------
(* Properties. *)

Messages == IF checkpoint = NoCheckpoint THEN <<>> ELSE checkpoint.state.messages

Recorded(t) == {i \in DOMAIN Messages : Messages[i] = Said("user", t)}

(* When a turn is about to return its reply, its message is part of the     *)
(* record, either as a message or as the answer to the question that was    *)
(* open, and never as both: pending() and the checkpoint run finds agree.   *)
TheTurnWasHeard ==
    \A c \in Caller : (call[c].pc = "replying" /\ ~overlapped) =>
        LET t == call[c].turn
        IN  (Recorded(t) # {}) # (checkpoint.state.answer = t)

(* ... and is never in it twice, although the save of the extended state    *)
(* and the run that loads it again may be separated by a death or by other  *)
(* turns: what is sent again afterwards is another message.                 *)
NoMessageTwice == \A t \in Turn : Cardinality(Recorded(t)) <= 1

(* A turn whose reply is a message returns this reply, and not one that an  *)
(* earlier turn left in the session (channels/reply.py: the last assistant  *)
(* message is looked up in a checkpoint that is loaded again).              *)
RepliesAreOfTheTurn ==
    \A t \in Turn : (result[t].kind = "replied" /\ ~result[t].output /\ ~overlapped) =>
        result[t].text = t

\* A turn is one exchange of the session: a message heard, and its reply.
TurnsAreExchanges == TheTurnWasHeard /\ NoMessageTwice /\ RepliesAreOfTheTurn
===============================================================================
