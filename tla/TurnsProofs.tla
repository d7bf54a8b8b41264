------------------------------ MODULE TurnsProofs ------------------------------
(***************************************************************************)
(* Proofs about the turns of a session, for every number of callers and of *)
(* messages: what Conversation promises of a turn, what AgentLoop promises *)
(* of the rounds of tool calls the turns are made of, what StreamedTurn    *)
(* promises of a turn whose events are streamed to a client, and what      *)
(* ReviewLoop promises of an answer.                                       *)
(***************************************************************************)
EXTENDS Conversation, AgentLoop, StreamedTurn, ReviewLoop, FiniteSetTheorems, WellFoundedInduction, TLAPS

ConversationSpec == ConversationInit /\ [][ConversationNext]_conversationVars

(* The types of the record, of the turns in progress and of the results. *)
PcOfTurn == {"idle", "seeding", "extending", "starting", "interrupted",
             "top", "executing", "end", "replying"}

TurnInProgress ==
    [pc : PcOfTurn, turn : Turn \cup {NoTurn}, resume : BOOLEAN,
     state : SessionState, node : {"agent", "finish", NoNode}, output : BOOLEAN]

TurnResult ==
    [kind : {"open", "replied", "waiting", "failed", "died"},
     text : Turn \cup {NoTurn}, output : BOOLEAN]

ConversationTypeOK ==
    /\ checkpoint \in SessionRecord \cup {NoCheckpoint}
    /\ call \in [Caller -> TurnInProgress]
    /\ sent \in 0..MaxTurns
    /\ result \in [Turn -> TurnResult]
    /\ overlapped \in BOOLEAN

(* A state has heard a turn; it holds no message twice, and none from the   *)
(* future.                                                                  *)
Heard(state, t) == \E i \in DOMAIN state.messages : state.messages[i] = Said("user", t)

Sound(state, last) ==
    /\ \A i, j \in DOMAIN state.messages :
          ( /\ state.messages[i].role = "user"
            /\ state.messages[j] = state.messages[i] ) => i = j
    /\ \A i \in DOMAIN state.messages : state.messages[i].turn <= last
    /\ state.answer # NoTurn => state.answer <= last

StatesAreSound ==
    /\ checkpoint # NoCheckpoint => Sound(checkpoint.state, sent)
    /\ \A c \in Caller : Sound(call[c].state, sent)

(* Each turn is one caller's, and what is still to be added is nowhere yet. *)
TurnsAreApart ==
    /\ \A c \in Caller : call[c].pc = "idle" <=> call[c] = Idle
    /\ \A c \in Caller : call[c].pc # "idle" => call[c].turn \in 1..sent
    /\ \A c, d \in Caller :
          (call[c].pc # "idle" /\ call[d].pc # "idle" /\ c # d) => call[c].turn # call[d].turn

SeedingIsUnheard ==
    \A c \in Caller : call[c].pc = "seeding" =>
        /\ checkpoint # NoCheckpoint => ~Heard(checkpoint.state, call[c].turn)
        /\ \A d \in Caller : ~Heard(call[d].state, call[c].turn)

(* What is known of a turn that no other turn has overlapped, from where it *)
(* stands.                                                                  *)
HeardOnce(state, t) == Heard(state, t) <=> state.answer # t

RepliedBy(state, t) ==
    LET replies == {i \in DOMAIN state.messages : state.messages[i].role = "assistant"}
    IN  replies # {} /\ state.messages[Max(replies)].turn = t

Progress(c) ==
    LET t == call[c].turn
        state == call[c].state
    IN  /\ call[c].pc = "seeding" =>
              /\ ~Paused /\ ~call[c].resume
              /\ checkpoint # NoCheckpoint => checkpoint.state.answer # t
        /\ call[c].pc = "extending" =>
              /\ ~Paused /\ ~call[c].resume
              /\ Heard(state, t) /\ state.answer # t /\ ~state.interrupt
        /\ (call[c].pc = "starting" /\ call[c].resume) =>
              /\ Paused
              /\ ~Heard(checkpoint.state, t) /\ checkpoint.state.answer # t
        /\ (call[c].pc = "starting" /\ ~call[c].resume /\ checkpoint = NoCheckpoint) =>
              Heard(state, t) /\ state.answer # t
        /\ (call[c].pc = "starting" /\ ~call[c].resume /\ checkpoint # NoCheckpoint) =>
              /\ ~Paused /\ checkpoint.next = Entry
              /\ Heard(checkpoint.state, t) /\ checkpoint.state.answer # t
        /\ call[c].pc \in {"top", "executing", "end", "replying"} => HeardOnce(state, t)
        /\ (call[c].pc \in {"end", "replying"} /\ ~call[c].output) => RepliedBy(state, t)
        /\ call[c].pc = "replying" =>
              checkpoint # NoCheckpoint /\ checkpoint.state = state

RepliesHaveARecord ==
    \A c \in Caller : call[c].pc = "replying" => checkpoint # NoCheckpoint

TurnsAlone ==
    ~overlapped =>
        /\ \A c, d \in Caller : (call[c].pc # "idle" /\ call[d].pc # "idle") => c = d
        /\ \A c \in Caller : Progress(c)
        /\ RepliesAreOfTheTurn

ConversationInv ==
    /\ ConversationTypeOK
    /\ StatesAreSound
    /\ TurnsAreApart
    /\ SeedingIsUnheard
    /\ RepliesHaveARecord
    /\ TurnsAlone
-----------------------------------------------------------------------------
(* A non-empty set of numbers has a least one. *)
LEMMA FirstExists ==
    ASSUME NEW numbers \in SUBSET Nat, numbers # {}
    PROVE  \E i \in numbers : \A j \in numbers : i <= j
<1> DEFINE less == {pair \in Nat \X Nat : pair[1] < pair[2]}
<1>1. IsWellFoundedOn(less, Nat)
  <2>1. less = OpToRel(<, Nat)
    BY DEF OpToRel
  <2> QED
    BY <2>1, NatLessThanWellFounded
<1> HIDE DEF less
<1>2. PICK i \in numbers : \A j \in numbers : <<j, i>> \notin less
  BY <1>1, WFMin
<1>3. ASSUME NEW j \in numbers PROVE i <= j
  <2>1. i \in Nat /\ j \in Nat
    OBVIOUS
  <2>2. <<j, i>> \in Nat \X Nat /\ <<j, i>>[1] = j /\ <<j, i>>[2] = i
    BY <2>1
  <2>3. ~ (j < i)
    BY <1>2, <2>2 DEF less
  <2> QED
    BY <2>1, <2>3
<1> QED
  BY <1>3

-----------------------------------------------------------------------------
(* What the updates of a state do to it. *)

LEMMA InitialStateSound ==
    /\ InitialState \in SessionState
    /\ Idle \in TurnInProgress
    /\ \A last \in Nat : Sound(InitialState, last)
    /\ \A t \in Turn : ~Heard(InitialState, t)
BY DEF InitialState, SessionState, Idle, TurnInProgress, PcOfTurn, Sound, Heard

LEMMA IdleReads == Idle.pc = "idle" /\ Idle.state = InitialState
BY DEF Idle

LEMMA TurnsInRange ==
    ASSUME ConversationTypeOK
    PROVE  sent \in Nat /\ MaxTurns \in Nat /\ 1..sent \subseteq Turn /\ Turn \subseteq Nat
BY ConversationAssumption DEF ConversationTypeOK, Turn

LEMMA SoundLater ==
    ASSUME NEW state \in SessionState, NEW last \in Nat, NEW later \in Nat, last <= later,
           Sound(state, last)
    PROVE  Sound(state, later)
<1>1. \A i \in DOMAIN state.messages : state.messages[i].turn \in Nat
  <2>1. \A i \in DOMAIN state.messages : state.messages[i] \in Message
    BY DEF SessionState
  <2> QED
    BY <2>1 DEF Message, Turn
<1>2. state.answer # NoTurn => state.answer \in Nat
  BY DEF SessionState, Turn
<1> QED
  BY <1>1, <1>2 DEF Sound

(* Appending a message. *)
LEMMA AppendMessage ==
    ASSUME NEW messages \in Seq(Message), NEW m \in Message
    PROVE  /\ Append(messages, m) \in Seq(Message)
           /\ DOMAIN Append(messages, m) = DOMAIN messages \cup {Len(messages) + 1}
           /\ Len(messages) + 1 \notin DOMAIN messages
           /\ Append(messages, m)[Len(messages) + 1] = m
           /\ \A i \in DOMAIN messages : Append(messages, m)[i] = messages[i]
BY DEF Message

LEMMA ExtendedSound ==
    ASSUME NEW state \in SessionState, NEW t \in Turn, NEW last \in Nat,
           Sound(state, last), t <= last, ~Heard(state, t)
    PROVE  /\ Extended(state, t) \in SessionState
           /\ Sound(Extended(state, t), last)
           /\ \A u \in Turn : Heard(Extended(state, t), u) <=> (Heard(state, u) \/ u = t)
<1> DEFINE longer == Append(state.messages, Said("user", t))
<1>1. /\ state.messages \in Seq(Message)
      /\ Said("user", t) \in Message
  BY DEF SessionState, Message, Said
<1>2. Extended(state, t) = [state EXCEPT !.messages = longer]
  BY DEF Extended
<1>3. /\ Extended(state, t) \in SessionState
      /\ Extended(state, t).messages = longer
      /\ Extended(state, t).answer = state.answer
  BY SMTT(40), <1>1, <1>2, AppendMessage DEF SessionState
<1>4. \A u \in Turn : Heard(Extended(state, t), u) <=> (Heard(state, u) \/ u = t)
  BY <1>1, <1>3, AppendMessage DEF Heard, Said
<1>5. ASSUME NEW i \in DOMAIN longer, NEW j \in DOMAIN longer,
             longer[i].role = "user", longer[j] = longer[i]
      PROVE  i = j
  <2>1. longer[i] # Said("user", t) => i \in DOMAIN state.messages /\ j \in DOMAIN state.messages
    BY <1>1, <1>5, AppendMessage
  <2>2. \A k \in DOMAIN state.messages : longer[k] = state.messages[k] /\ longer[k] # Said("user", t)
    BY <1>1, AppendMessage DEF Heard
  <2> QED
    BY <1>1, <1>5, <2>1, <2>2, AppendMessage DEF Sound
<1>6. \A i \in DOMAIN longer : longer[i].turn <= last
  BY <1>1, AppendMessage DEF Sound, Said
<1> QED
  BY <1>3, <1>4, <1>5, <1>6 DEF Sound

LEMMA RepliedSound ==
    ASSUME NEW state \in SessionState, NEW t \in Turn, NEW last \in Nat,
           Sound(state, last), t <= last,
           NEW replied,
           replied = [state EXCEPT !.messages = Append(@, Said("assistant", t))]
    PROVE  /\ replied \in SessionState
           /\ Sound(replied, last)
           /\ \A u \in Turn : Heard(replied, u) <=> Heard(state, u)
           /\ replied.answer = state.answer
           /\ RepliedBy(replied, t)
<1> DEFINE longer == Append(state.messages, Said("assistant", t))
<1>1. /\ state.messages \in Seq(Message)
      /\ Said("assistant", t) \in Message
  BY DEF SessionState, Message, Said
<1>2. /\ replied \in SessionState
      /\ replied.messages = longer
      /\ replied.answer = state.answer
  BY <1>1, AppendMessage DEF SessionState
<1>3. \A u \in Turn : Heard(replied, u) <=> Heard(state, u)
  BY <1>1, <1>2, AppendMessage DEF Heard, Said
<1>4. \A i, j \in DOMAIN longer :
        (longer[i].role = "user" /\ longer[j] = longer[i]) => i = j
  <2>1. longer[Len(state.messages) + 1].role = "assistant"
    BY <1>1, AppendMessage DEF Said
  <2> QED
    BY <1>1, <2>1, AppendMessage DEF Sound
<1>5. \A i \in DOMAIN longer : longer[i].turn <= last
  BY <1>1, AppendMessage DEF Sound, Said
<1>6. RepliedBy(replied, t)
  <2> DEFINE replies == {i \in DOMAIN longer : longer[i].role = "assistant"}
             end == Len(state.messages) + 1
  <2>1. end \in replies /\ longer[end].turn = t
    BY <1>1, AppendMessage DEF Said
  <2>2. \A i \in replies : i \in Nat /\ i <= end
    BY <1>1, AppendMessage
  <2>3. Max(replies) = end
    BY <2>1, <2>2 DEF Max
  <2> QED
    BY <1>2, <2>1, <2>3 DEF RepliedBy
<1> QED
  BY <1>2, <1>3, <1>4, <1>5, <1>6 DEF Sound

-----------------------------------------------------------------------------
(* What a step of one caller leaves to the others. *)

HeardSomewhere(t) ==
    \/ checkpoint # NoCheckpoint /\ Heard(checkpoint.state, t)
    \/ \E d \in Caller : Heard(call[d].state, t)

LEMMA CallerStep ==
    ASSUME ConversationInv,
           NEW c \in Caller, call[c].pc # "idle",
           NEW new \in TurnInProgress, call' = [call EXCEPT ![c] = new],
           \/ new = Idle
           \/ new.pc \notin {"idle", "seeding"} /\ new.turn = call[c].turn,
           Sound(new.state, sent),
           checkpoint' \in SessionRecord \cup {NoCheckpoint},
           checkpoint' # NoCheckpoint => Sound(checkpoint'.state, sent),
           \A t \in Turn : (t # call[c].turn /\ Heard(new.state, t)) => HeardSomewhere(t),
           \A t \in Turn : ( /\ t # call[c].turn /\ checkpoint' # NoCheckpoint
                            /\ Heard(checkpoint'.state, t) ) => HeardSomewhere(t),
           checkpoint' # NoCheckpoint \/ (checkpoint' = checkpoint /\ new.pc # "replying"),
           result' \in [Turn -> TurnResult],
           UNCHANGED <<sent, overlapped>>
    PROVE  /\ ConversationTypeOK'
           /\ StatesAreSound'
           /\ TurnsAreApart'
           /\ SeedingIsUnheard'
           /\ RepliesHaveARecord'
<1> USE DEF ConversationInv
<1>1. /\ call'[c] = new
      /\ \A d \in Caller : d # c => call'[d] = call[d]
      /\ call \in [Caller -> TurnInProgress]
      /\ call' \in [Caller -> TurnInProgress]
  BY DEF ConversationTypeOK
<1>2. ConversationTypeOK'
  BY <1>1 DEF ConversationTypeOK
<1>3. StatesAreSound'
  BY <1>1 DEF StatesAreSound
<1>4. TurnsAreApart'
  BY <1>1, IdleReads DEF TurnsAreApart
<1>5. SeedingIsUnheard'
  <2> SUFFICES ASSUME NEW d \in Caller, call'[d].pc = "seeding"
               PROVE  /\ checkpoint' # NoCheckpoint => ~Heard(checkpoint'.state, call[d].turn)
                      /\ \A e \in Caller : ~Heard(call'[e].state, call[d].turn)
                      /\ call'[d].turn = call[d].turn
    BY DEF SeedingIsUnheard
  <2>1. d # c /\ call[d].pc = "seeding"
    BY <1>1 DEF Idle
  <2>2. call[d].turn # call[c].turn /\ call[d].turn \in Turn
    BY <2>1, TurnsInRange DEF TurnsAreApart
  <2>3. ~HeardSomewhere(call[d].turn)
    BY <2>1 DEF SeedingIsUnheard, HeardSomewhere
  <2>4. checkpoint' # NoCheckpoint => ~Heard(checkpoint'.state, call[d].turn)
    BY <2>2, <2>3
  <2>5. ~Heard(new.state, call[d].turn)
    BY <2>2, <2>3
  <2>6. ASSUME NEW e \in Caller, e # c PROVE ~Heard(call'[e].state, call[d].turn)
    BY <1>1, <2>3, <2>6 DEF HeardSomewhere
  <2> QED
    BY <1>1, <2>1, <2>4, <2>5, <2>6
<1>6. RepliesHaveARecord'
  BY <1>1 DEF RepliesHaveARecord
<1> QED
  BY <1>2, <1>3, <1>4, <1>5, <1>6

LEMMA AloneStep ==
    ASSUME ConversationInv,
           NEW c \in Caller, call[c].pc # "idle",
           NEW new \in TurnInProgress, call' = [call EXCEPT ![c] = new],
           UNCHANGED overlapped,
           ~overlapped => Progress(c)' /\ RepliesAreOfTheTurn'
    PROVE  TurnsAlone'
<1> SUFFICES ASSUME ~overlapped
             PROVE  /\ \A d, e \in Caller :
                          (call'[d].pc # "idle" /\ call'[e].pc # "idle") => d = e
                    /\ \A d \in Caller : Progress(d)'
  BY DEF TurnsAlone
<1>1. /\ call'[c] = new
      /\ \A d \in Caller : d # c => call'[d] = call[d]
      /\ \A d \in Caller : d # c => call[d].pc = "idle"
  BY DEF ConversationInv, TurnsAlone, ConversationTypeOK
<1>2. ASSUME NEW d \in Caller, d # c PROVE Progress(d)'
  BY <1>1, <1>2 DEF Progress
<1> QED
  BY <1>1, <1>2

-----------------------------------------------------------------------------
(* One lemma per action. *)

LEMMA InitConversationInv == ConversationInit => ConversationInv
<1> SUFFICES ASSUME ConversationInit PROVE ConversationInv
  OBVIOUS
<1>1. \A c \in Caller : call[c] = Idle
  BY DEF ConversationInit
<1>2. ConversationTypeOK
  <2>1. result \in [Turn -> TurnResult]
    BY DEF ConversationInit, TurnResult
  <2>2. sent \in 0..MaxTurns
    BY ConversationAssumption DEF ConversationInit
  <2> QED
    BY <2>1, <2>2, InitialStateSound DEF ConversationInit, ConversationTypeOK
<1>3. StatesAreSound
  BY <1>1, InitialStateSound DEF ConversationInit, StatesAreSound, Idle
<1>4. TurnsAreApart /\ SeedingIsUnheard /\ RepliesHaveARecord
  BY <1>1, IdleReads DEF TurnsAreApart, SeedingIsUnheard, RepliesHaveARecord
<1>5. TurnsAlone
  BY <1>1 DEF TurnsAlone, Progress, Idle, RepliesAreOfTheTurn, ConversationInit
<1> QED
  BY <1>2, <1>3, <1>4, <1>5 DEF ConversationInv

LEMMA SendInv ==
    ASSUME ConversationInv, NEW c \in Caller, Send(c)
    PROVE  ConversationInv'
<1> USE DEF ConversationInv
<1> DEFINE t == sent + 1
           new == [Idle EXCEPT !.pc = IF Paused THEN "starting" ELSE "seeding",
                               !.turn = t, !.resume = Paused]
<1>1. /\ call' = [call EXCEPT ![c] = new]
      /\ call[c] = Idle /\ sent < MaxTurns /\ sent' = t
      /\ UNCHANGED <<checkpoint, result>>
      /\ overlapped' = (overlapped \/ \E d \in Caller : call[d] # Idle)
  BY DEF Send
<1>2. /\ sent \in Nat /\ t \in Nat /\ sent <= t /\ t \in Turn /\ t \in 1..t /\ t <= MaxTurns
      /\ Paused \in BOOLEAN
      /\ checkpoint # NoCheckpoint => checkpoint.state \in SessionState
      /\ \A d \in Caller : call[d].state \in SessionState
  BY <1>1, ConversationAssumption
  DEF ConversationTypeOK, Turn, Paused, SessionRecord, SessionState, TurnInProgress
<1>3. /\ new \in TurnInProgress
      /\ new.pc = IF Paused THEN "starting" ELSE "seeding"
      /\ new.turn = t /\ new.resume = Paused /\ new.state = InitialState
  BY <1>2, InitialStateSound DEF TurnInProgress, Idle, PcOfTurn
<1> HIDE DEF new
<1>4. /\ call'[c] = new
      /\ \A d \in Caller : d # c => call'[d] = call[d]
      /\ call' \in [Caller -> TurnInProgress]
  BY <1>1, <1>3 DEF ConversationTypeOK
<1>5. ConversationTypeOK'
  BY <1>1, <1>2, <1>4 DEF ConversationTypeOK
<1>6. StatesAreSound'
  BY <1>1, <1>2, <1>3, <1>4, SoundLater, InitialStateSound DEF StatesAreSound
<1>7. TurnsAreApart'
  <2>1. \A d \in Caller : (d # c /\ call[d].pc # "idle") => call[d].turn \in 1..t /\ call[d].turn # t
    BY <1>2 DEF TurnsAreApart
  <2>2. new.pc # "idle" /\ new # Idle
    BY <1>3, IdleReads
  <2> QED
    BY <1>1, <1>2, <1>3, <1>4, <2>1, <2>2 DEF TurnsAreApart
<1>8. /\ checkpoint # NoCheckpoint => ~Heard(checkpoint.state, t) /\ checkpoint.state.answer # t
      /\ \A d \in Caller : ~Heard(call[d].state, t)
  <2>1. ASSUME NEW state \in SessionState, Sound(state, sent)
        PROVE  ~Heard(state, t) /\ state.answer # t
    BY <1>2, <2>1, ConversationAssumption DEF Sound, Heard, Said
  <2> QED
    BY <1>2, <2>1 DEF StatesAreSound
<1>9. SeedingIsUnheard'
  <2>1. ASSUME NEW d \in Caller, call[d].pc = "seeding"
        PROVE  d # c /\ call[d].turn \in Turn
    BY <1>1, <2>1, IdleReads, TurnsInRange DEF TurnsAreApart
  <2>2. \A u \in Turn : ~Heard(new.state, u)
    BY <1>3, InitialStateSound
  <2>3. ASSUME NEW d \in Caller, d # c, call'[d].pc = "seeding"
        PROVE  /\ checkpoint' # NoCheckpoint => ~Heard(checkpoint'.state, call'[d].turn)
               /\ \A e \in Caller : ~Heard(call'[e].state, call'[d].turn)
    BY <1>1, <1>4, <2>1, <2>2, <2>3 DEF SeedingIsUnheard
  <2>4. /\ checkpoint' # NoCheckpoint => ~Heard(checkpoint'.state, call'[c].turn)
        /\ \A e \in Caller : ~Heard(call'[e].state, call'[c].turn)
    BY <1>1, <1>2, <1>3, <1>4, <1>8, <2>2
  <2> QED
    BY <2>3, <2>4 DEF SeedingIsUnheard
<1>10. TurnsAlone'
  <2> SUFFICES ASSUME ~overlapped, \A d \in Caller : call[d] = Idle
               PROVE  /\ \A d, e \in Caller :
                          (call'[d].pc # "idle" /\ call'[e].pc # "idle") => d = e
                      /\ \A d \in Caller : Progress(d)'
                      /\ RepliesAreOfTheTurn'
    BY <1>1 DEF TurnsAlone
  <2>1. \A d \in Caller : d # c => call'[d].pc = "idle"
    BY <1>4 DEF Idle
  <2>2. Progress(c)'
    BY <1>1, <1>3, <1>4, <1>8 DEF Progress, Paused
  <2>3. \A d \in Caller : d # c => Progress(d)'
    BY <2>1 DEF Progress
  <2>4. RepliesAreOfTheTurn'
    BY <1>1 DEF TurnsAlone, RepliesAreOfTheTurn
  <2> QED
    BY <2>1, <2>2, <2>3, <2>4
<1>11. RepliesHaveARecord'
  BY <1>1, <1>3, <1>4 DEF RepliesHaveARecord
<1> QED
  BY <1>5, <1>6, <1>7, <1>9, <1>10, <1>11

(* A non-empty set of positions has a last one. *)
LEMMA MaxOfIndices ==
    ASSUME NEW S, NEW messages \in Seq(S), NEW indices \in SUBSET DOMAIN messages,
           indices # {}
    PROVE  /\ Max(indices) \in indices
           /\ \A i \in indices : i <= Max(indices)
<1> DEFINE Behind == {n \in Nat : \A i \in indices : i <= n}
<1>1. Len(messages) \in Behind
  OBVIOUS
<1>2. PICK n \in Behind : \A m \in Behind : n <= m
  BY <1>1, FirstExists
<1>3. n \in indices
  <2>1. SUFFICES ASSUME n \notin indices PROVE FALSE
    OBVIOUS
  <2>2. n # 0
    BY <1>2
  <2>3. n - 1 \in Behind
    BY <1>2, <2>1, <2>2
  <2> QED
    BY <1>2, <2>3
<1>4. \E i \in indices : \A j \in indices : i >= j
  BY <1>2, <1>3
<1> QED
  BY <1>4 DEF Max

(* What is known of a turn in progress and of the record. *)
LEMMA InTurn ==
    ASSUME ConversationInv, NEW c \in Caller, call[c].pc # "idle"
    PROVE  /\ call[c] \in TurnInProgress
           /\ call[c].state \in SessionState /\ Sound(call[c].state, sent)
           /\ call[c].turn \in Turn /\ sent \in Nat /\ call[c].turn <= sent
           /\ call[c] # Idle
           /\ checkpoint # NoCheckpoint =>
                 /\ checkpoint \in SessionRecord
                 /\ checkpoint.state \in SessionState /\ Sound(checkpoint.state, sent)
                 /\ checkpoint.next \in {"agent", "finish", NoNode}
           /\ ~overlapped => Progress(c) /\ RepliesAreOfTheTurn
<1>1. /\ call[c] \in TurnInProgress
      /\ checkpoint # NoCheckpoint => checkpoint \in SessionRecord
  BY DEF ConversationInv, ConversationTypeOK
<1>2. call[c].turn \in Turn /\ sent \in Nat /\ call[c].turn <= sent /\ call[c] # Idle
  BY TurnsInRange DEF ConversationInv, TurnsAreApart
<1> QED
  BY <1>1, <1>2
  DEF ConversationInv, StatesAreSound, TurnsAlone, TurnInProgress, SessionRecord

(* The type of an updated call. *)
LEMMA CallType ==
    ASSUME NEW old \in TurnInProgress, NEW pc \in PcOfTurn, NEW state \in SessionState,
           NEW node \in {"agent", "finish", NoNode}, NEW output \in BOOLEAN,
           NEW new,
           new = [pc |-> pc, turn |-> old.turn, resume |-> old.resume, state |-> state,
                  node |-> node, output |-> output]
    PROVE  new \in TurnInProgress
BY DEF TurnInProgress

LEMMA LoadOrSeedInv ==
    ASSUME ConversationInv, NEW c \in Caller, LoadOrSeed(c)
    PROVE  ConversationInv'
<1> DEFINE t == call[c].turn
           kept == IF Transient THEN [checkpoint.state EXCEPT !.output = NoTurn]
                   ELSE checkpoint.state
           base == IF checkpoint = NoCheckpoint THEN InitialState ELSE kept
           new == [call[c] EXCEPT !.pc = IF checkpoint = NoCheckpoint THEN "starting"
                                         ELSE "extending",
                                  !.state = Extended(base, t)]
<1>1. /\ call[c].pc = "seeding"
      /\ UNCHANGED <<checkpoint, sent, result, overlapped>>
  BY DEF LoadOrSeed
<1>2. call' = [call EXCEPT ![c] = new]
  BY <1>1 DEF LoadOrSeed, ConversationInv, ConversationTypeOK
<1>3. checkpoint # NoCheckpoint =>
        /\ kept \in SessionState
        /\ kept.messages = checkpoint.state.messages /\ kept.answer = checkpoint.state.answer
        /\ kept.interrupt = checkpoint.state.interrupt
  BY <1>1, InTurn DEF SessionState
<1>4. /\ base \in SessionState /\ Sound(base, sent) /\ ~Heard(base, t)
      /\ \A u \in Turn : Heard(base, u) => HeardSomewhere(u)
      /\ base.answer # t => Extended(base, t).answer # t
      /\ Extended(base, t).interrupt = base.interrupt
  <2>1. CASE checkpoint = NoCheckpoint
    BY <1>1, <2>1, InTurn, InitialStateSound DEF Extended, SessionState
  <2>2. CASE checkpoint # NoCheckpoint
    <3>1. /\ base = kept /\ Sound(base, sent)
          /\ \A u \in Turn : Heard(base, u) <=> Heard(checkpoint.state, u)
      BY <1>1, <1>3, <2>2, InTurn DEF Sound, Heard
    <3>2. ~Heard(checkpoint.state, t)
      BY <1>1, <2>2 DEF ConversationInv, SeedingIsUnheard
    <3> QED
      BY <1>1, <1>3, <2>2, <3>1, <3>2, InTurn DEF HeardSomewhere, Extended, SessionState
  <2> QED
    BY <2>1, <2>2
<1>5. /\ Extended(base, t) \in SessionState /\ Sound(Extended(base, t), sent)
      /\ \A u \in Turn : Heard(Extended(base, t), u) <=> (Heard(base, u) \/ u = t)
  BY <1>1, <1>4, InTurn, ExtendedSound
<1> HIDE DEF base, kept
<1>6. /\ new \in TurnInProgress
      /\ new.pc = (IF checkpoint = NoCheckpoint THEN "starting" ELSE "extending")
      /\ new.state = Extended(base, t) /\ new.turn = t /\ new.resume = call[c].resume
  BY <1>1, <1>5, InTurn DEF TurnInProgress, PcOfTurn
<1> HIDE DEF new
<1>7. /\ ConversationTypeOK' /\ StatesAreSound' /\ TurnsAreApart'
      /\ SeedingIsUnheard' /\ RepliesHaveARecord'
  <2>1. /\ checkpoint' \in SessionRecord \cup {NoCheckpoint}
        /\ checkpoint' # NoCheckpoint => Sound(checkpoint'.state, sent)
        /\ result' \in [Turn -> TurnResult]
    BY <1>1 DEF ConversationInv, ConversationTypeOK, StatesAreSound
  <2>2. \A u \in Turn : (u # t /\ Heard(new.state, u)) => HeardSomewhere(u)
    BY <1>4, <1>5, <1>6
  <2>3. \A u \in Turn : (u # t /\ checkpoint' # NoCheckpoint /\ Heard(checkpoint'.state, u))
                            => HeardSomewhere(u)
    BY <1>1 DEF HeardSomewhere
  <2> QED
    BY <1>1, <1>2, <1>5, <1>6, <2>1, <2>2, <2>3, CallerStep
<1>8. TurnsAlone'
  <2>1. ASSUME ~overlapped PROVE Progress(c)' /\ RepliesAreOfTheTurn'
    <3>1. Progress(c) /\ RepliesAreOfTheTurn
      BY <1>1, <2>1, InTurn
    <3>2. call'[c] = new
      BY <1>2 DEF ConversationInv, ConversationTypeOK
    <3>3. base.answer # t /\ (checkpoint # NoCheckpoint => ~base.interrupt)
      <4>1. InitialState.answer = NoTurn /\ t # NoTurn
        BY <1>1, InTurn, ConversationAssumption DEF InitialState
      <4> QED
        BY <1>1, <1>3, <3>1, <4>1 DEF Progress, base, Paused
    <3>4. ~call[c].resume /\ ~Paused
      BY <1>1, <3>1 DEF Progress
    <3>5. Progress(c)'
      BY <1>1, <1>4, <1>5, <1>6, <3>2, <3>3, <3>4, InTurn DEF Progress, Paused
    <3> QED
      BY <1>1, <2>1, <3>1, <3>5 DEF RepliesAreOfTheTurn
  <2> QED
    BY <1>1, <1>2, <1>6, <2>1, AloneStep
<1> QED
  BY <1>7, <1>8 DEF ConversationInv

(* A step that saves nothing. *)
LEMMA LocalStep ==
    ASSUME ConversationInv,
           NEW c \in Caller, call[c].pc # "idle",
           NEW new \in TurnInProgress, call' = [call EXCEPT ![c] = new],
           new.pc \notin {"idle", "seeding", "replying"}, new.turn = call[c].turn,
           Sound(new.state, sent),
           \A t \in Turn : (t # call[c].turn /\ Heard(new.state, t)) => HeardSomewhere(t),
           UNCHANGED <<checkpoint, sent, result, overlapped>>,
           ~overlapped => Progress(c)'
    PROVE  ConversationInv'
<1>1. /\ checkpoint' \in SessionRecord \cup {NoCheckpoint}
      /\ checkpoint' # NoCheckpoint => Sound(checkpoint'.state, sent)
      /\ result' \in [Turn -> TurnResult]
  BY DEF ConversationInv, ConversationTypeOK, StatesAreSound
<1>2. \A t \in Turn : ( /\ t # call[c].turn /\ checkpoint' # NoCheckpoint
                        /\ Heard(checkpoint'.state, t) ) => HeardSomewhere(t)
  BY DEF HeardSomewhere
<1>3. /\ ConversationTypeOK' /\ StatesAreSound' /\ TurnsAreApart'
      /\ SeedingIsUnheard' /\ RepliesHaveARecord'
  BY <1>1, <1>2, CallerStep
<1>4. ~overlapped => Progress(c)' /\ RepliesAreOfTheTurn'
  BY InTurn DEF RepliesAreOfTheTurn
<1>5. TurnsAlone'
  BY <1>4, AloneStep
<1> QED
  BY <1>3, <1>5 DEF ConversationInv

(* A step that saves the state of the run, or what is heard in it. *)
LEMMA SavingStep ==
    ASSUME ConversationInv,
           NEW c \in Caller, call[c].pc # "idle",
           NEW new \in TurnInProgress, call' = [call EXCEPT ![c] = new],
           new.pc \notin {"idle", "seeding"}, new.turn = call[c].turn,
           NEW state \in SessionState, NEW next \in {"agent", "finish", NoNode},
           checkpoint' = Saved(state, next),
           state.messages = call[c].state.messages, state.answer = call[c].state.answer,
           new.state \in {call[c].state, InitialState},
           UNCHANGED <<sent, result, overlapped>>,
           ~overlapped => Progress(c)'
    PROVE  ConversationInv'
<1>1. /\ checkpoint' \in SessionRecord /\ checkpoint'.state = state
      /\ checkpoint' # NoCheckpoint
      /\ result' \in [Turn -> TurnResult]
  BY NoCheckpointAssumption DEF ConversationInv, ConversationTypeOK, Saved, SessionRecord
<1>2. Sound(state, sent) /\ Sound(new.state, sent)
  BY InTurn, InitialStateSound DEF Sound
<1>3. \A t \in Turn : Heard(state, t) => HeardSomewhere(t)
  BY DEF Heard, HeardSomewhere
<1>4. \A t \in Turn : Heard(new.state, t) => HeardSomewhere(t)
  BY InitialStateSound DEF HeardSomewhere
<1>5. /\ ConversationTypeOK' /\ StatesAreSound' /\ TurnsAreApart'
      /\ SeedingIsUnheard' /\ RepliesHaveARecord'
  BY <1>1, <1>2, <1>3, <1>4, CallerStep
<1>6. ~overlapped => Progress(c)' /\ RepliesAreOfTheTurn'
  BY InTurn DEF RepliesAreOfTheTurn
<1>7. TurnsAlone'
  BY <1>6, AloneStep
<1> QED
  BY <1>5, <1>7 DEF ConversationInv

(* A record is not "no checkpoint". *)
LEMMA SavedIs ==
    ASSUME NEW state \in SessionState, NEW next \in {"agent", "finish", NoNode}
    PROVE  /\ Saved(state, next) # NoCheckpoint
           /\ Saved(state, next).state = state /\ Saved(state, next).next = next
BY NoCheckpointAssumption DEF Saved, SessionRecord

LEMMA SaveExtendedInv ==
    ASSUME ConversationInv, NEW c \in Caller, SaveExtended(c)
    PROVE  ConversationInv'
<1> DEFINE new == [call[c] EXCEPT !.pc = "starting", !.state = InitialState]
           state == call[c].state
<1>1. /\ call[c].pc = "extending"
      /\ checkpoint' = Saved(state, Entry)
      /\ UNCHANGED <<sent, result, overlapped>>
  BY DEF SaveExtended
<1>2. call' = [call EXCEPT ![c] = new] /\ call'[c] = new
  BY <1>1 DEF SaveExtended, ConversationInv, ConversationTypeOK
<1>3. /\ new \in TurnInProgress /\ new.pc = "starting" /\ new.turn = call[c].turn
      /\ new.state = InitialState /\ new.resume = call[c].resume
  BY <1>1, InTurn, InitialStateSound DEF TurnInProgress, PcOfTurn
<1> HIDE DEF new
<1>4. /\ state \in SessionState
      /\ checkpoint' # NoCheckpoint /\ checkpoint'.state = state /\ checkpoint'.next = Entry
  BY <1>1, InTurn, SavedIs DEF Entry
<1>5. ~overlapped => Progress(c)'
  BY <1>1, <1>2, <1>3, <1>4, InTurn DEF Progress, Paused
<1> QED
  BY <1>1, <1>2, <1>3, <1>4, <1>5, SavingStep DEF Entry

LEMMA SaveBeforeNodeInv ==
    ASSUME ConversationInv, NEW c \in Caller, SaveBeforeNode(c)
    PROVE  ConversationInv'
<1> DEFINE new == [call[c] EXCEPT !.pc = "executing"]
<1>1. /\ call[c].pc = "top"
      /\ checkpoint' = Saved(call[c].state, call[c].node)
      /\ UNCHANGED <<sent, result, overlapped>>
  BY DEF SaveBeforeNode
<1>2. call' = [call EXCEPT ![c] = new] /\ call'[c] = new
  BY <1>1 DEF SaveBeforeNode, ConversationInv, ConversationTypeOK
<1>3. /\ new \in TurnInProgress /\ new.pc = "executing" /\ new.turn = call[c].turn
      /\ new.state = call[c].state /\ new.output = call[c].output
      /\ call[c].state \in SessionState /\ call[c].node \in {"agent", "finish", NoNode}
  BY <1>1, InTurn DEF TurnInProgress, PcOfTurn
<1> HIDE DEF new
<1>4. ~overlapped => Progress(c)'
  BY <1>1, <1>2, <1>3, InTurn DEF Progress
<1> QED
  BY <1>1, <1>2, <1>3, <1>4, SavingStep

LEMMA SaveAtEndInv ==
    ASSUME ConversationInv, NEW c \in Caller, SaveAtEnd(c)
    PROVE  ConversationInv'
<1> DEFINE new == [call[c] EXCEPT !.pc = "replying"]
<1>1. /\ call[c].pc = "end"
      /\ checkpoint' = Saved(call[c].state, NoNode)
      /\ UNCHANGED <<sent, result, overlapped>>
  BY DEF SaveAtEnd
<1>2. call' = [call EXCEPT ![c] = new] /\ call'[c] = new
  BY <1>1 DEF SaveAtEnd, ConversationInv, ConversationTypeOK
<1>3. /\ new \in TurnInProgress /\ new.pc = "replying" /\ new.turn = call[c].turn
      /\ new.state = call[c].state /\ new.output = call[c].output
      /\ call[c].state \in SessionState
  BY <1>1, InTurn DEF TurnInProgress, PcOfTurn
<1> HIDE DEF new
<1>4. checkpoint' # NoCheckpoint /\ checkpoint'.state = call[c].state
  BY <1>1, <1>3, SavedIs
<1>5. ~overlapped => Progress(c)'
  BY <1>1, <1>2, <1>3, <1>4, InTurn DEF Progress
<1> QED
  BY <1>1, <1>2, <1>3, <1>5, SavingStep

LEMMA AgentInterruptsInv ==
    ASSUME ConversationInv, NEW c \in Caller, AgentInterrupts(c)
    PROVE  ConversationInv'
<1> DEFINE new == [call[c] EXCEPT !.pc = "interrupted"]
           asking == [call[c].state EXCEPT !.interrupt = TRUE]
<1>1. /\ call[c].pc = "executing"
      /\ checkpoint' = Saved(asking, NoNode)
      /\ UNCHANGED <<sent, result, overlapped>>
  BY DEF AgentInterrupts
<1>2. call' = [call EXCEPT ![c] = new] /\ call'[c] = new
  BY <1>1 DEF AgentInterrupts, ConversationInv, ConversationTypeOK
<1>3. /\ new \in TurnInProgress /\ new.pc = "interrupted" /\ new.turn = call[c].turn
      /\ new.state = call[c].state
      /\ asking \in SessionState
      /\ asking.messages = call[c].state.messages /\ asking.answer = call[c].state.answer
  BY ZenonT(60), <1>1, InTurn DEF TurnInProgress, PcOfTurn, SessionState
<1> HIDE DEF new, asking
<1>4. Progress(c)'
  BY <1>2, <1>3 DEF Progress
<1> QED
  BY <1>1, <1>2, <1>3, <1>4, SavingStep

(* What Walk makes of a turn. *)
Walked(c, node, state) ==
    [call[c] EXCEPT !.pc = IF node = NoNode THEN "end" ELSE "top",
                    !.node = node, !.state = state]

LEMMA WalkIs ==
    ASSUME ConversationInv, NEW c \in Caller, call[c].pc # "idle",
           NEW node \in {"agent", "finish", NoNode}, NEW state \in SessionState
    PROVE  /\ Walk(c, node, state) = [call EXCEPT ![c] = Walked(c, node, state)]
           /\ Walked(c, node, state) \in TurnInProgress
           /\ Walked(c, node, state).pc = IF node = NoNode THEN "end" ELSE "top"
           /\ Walked(c, node, state).turn = call[c].turn
           /\ Walked(c, node, state).state = state
           /\ Walked(c, node, state).output = call[c].output
           /\ [call EXCEPT ![c] = Walked(c, node, state)][c] = Walked(c, node, state)
<1>1. call[c] \in TurnInProgress /\ call \in [Caller -> TurnInProgress]
  BY DEF ConversationInv, ConversationTypeOK
<1> QED
  BY <1>1 DEF Walk, Walked, TurnInProgress, PcOfTurn

LEMMA AgentReturnsInv ==
    ASSUME ConversationInv, NEW c \in Caller, AgentReturns(c)
    PROVE  ConversationInv'
<1> DEFINE new == Walked(c, "finish", call[c].state)
<1>1. /\ call[c].pc = "executing"
      /\ call' = Walk(c, "finish", call[c].state)
      /\ UNCHANGED <<checkpoint, sent, result, overlapped>>
  BY DEF AgentReturns
<1>2. /\ call' = [call EXCEPT ![c] = new] /\ call'[c] = new /\ new \in TurnInProgress
      /\ new.pc = "top" /\ new.turn = call[c].turn /\ new.state = call[c].state
      /\ new.output = call[c].output
  BY <1>1, InTurn, WalkIs, ConversationAssumption
<1>3. ~overlapped => Progress(c)'
  BY <1>1, <1>2, InTurn DEF Progress
<1>4. \A t \in Turn : Heard(new.state, t) => HeardSomewhere(t)
  BY <1>2 DEF HeardSomewhere
<1> QED
  BY <1>1, <1>2, <1>3, <1>4, InTurn, LocalStep

LEMMA FinishRepliesInv ==
    ASSUME ConversationInv, NEW c \in Caller, FinishReplies(c)
    PROVE  ConversationInv'
<1> DEFINE t == call[c].turn
           told == [call[c].state EXCEPT !.messages = Append(@, Said("assistant", t))]
           put == [call[c].state EXCEPT !.output = t]
<1>1. /\ call[c].pc = "executing"
      /\ UNCHANGED <<checkpoint, sent, result, overlapped>>
  BY DEF FinishReplies
<1>2. CASE call' = Walk(c, NoNode, told)
  <2> DEFINE new == Walked(c, NoNode, told)
  <2>1. /\ told \in SessionState /\ Sound(told, sent)
        /\ \A u \in Turn : Heard(told, u) <=> Heard(call[c].state, u)
        /\ told.answer = call[c].state.answer
        /\ RepliedBy(told, t)
    BY <1>1, InTurn, RepliedSound
  <2> HIDE DEF told
  <2>2. /\ call' = [call EXCEPT ![c] = new] /\ call'[c] = new /\ new \in TurnInProgress
        /\ new.pc = "end" /\ new.turn = t /\ new.state = told
    BY <1>1, <1>2, <2>1, InTurn, WalkIs
  <2>3. ~overlapped => Progress(c)'
    <3>1. ~overlapped => HeardOnce(call[c].state, t)
      BY <1>1, InTurn DEF Progress
    <3>2. ~overlapped => HeardOnce(told, t)
      BY <1>1, <2>1, <3>1, InTurn DEF HeardOnce
    <3> QED
      BY <2>1, <2>2, <3>2 DEF Progress
  <2>4. \A u \in Turn : Heard(new.state, u) => HeardSomewhere(u)
    BY <2>1, <2>2 DEF HeardSomewhere
  <2> QED
    BY <1>1, <2>1, <2>2, <2>3, <2>4, LocalStep
<1>3. CASE call' = [Walk(c, NoNode, put) EXCEPT ![c].output = TRUE]
  <2> DEFINE old == Walked(c, NoNode, put)
             new == [old EXCEPT !.output = TRUE]
  <2>1. /\ put \in SessionState
        /\ put.messages = call[c].state.messages /\ put.answer = call[c].state.answer
    BY <1>1, InTurn DEF SessionState
  <2>2. /\ Walk(c, NoNode, put) = [call EXCEPT ![c] = old] /\ old \in TurnInProgress
        /\ [call EXCEPT ![c] = old][c] = old
        /\ old.pc = "end" /\ old.turn = t /\ old.state = put
    BY <1>1, <2>1, InTurn, WalkIs
  <2>3. /\ new \in TurnInProgress
        /\ new.pc = "end" /\ new.turn = t /\ new.state = put /\ new.output = TRUE
    BY <2>2 DEF TurnInProgress
  <2> HIDE DEF old, put
  <2>4. call' = [call EXCEPT ![c] = new] /\ call'[c] = new
    BY <1>3, <2>2 DEF ConversationInv, ConversationTypeOK
  <2>5. \A u \in Turn : Heard(put, u) <=> Heard(call[c].state, u)
    BY <2>1 DEF Heard
  <2> HIDE DEF new
  <2>6. ~overlapped => Progress(c)'
    <3>1. ~overlapped => HeardOnce(call[c].state, t)
      BY <1>1, InTurn DEF Progress
    <3>2. ~overlapped => HeardOnce(put, t)
      BY <1>1, <2>1, <2>5, <3>1, InTurn DEF HeardOnce
    <3> QED
      BY <2>3, <2>4, <3>2 DEF Progress
  <2>7. Sound(new.state, sent)
    BY <1>1, <2>1, <2>3, InTurn DEF Sound
  <2>8. \A u \in Turn : Heard(new.state, u) => HeardSomewhere(u)
    BY <2>3, <2>5 DEF HeardSomewhere
  <2> QED
    BY <1>1, <2>3, <2>4, <2>6, <2>7, <2>8, LocalStep
<1> QED
  BY <1>2, <1>3 DEF FinishReplies

LEMMA StartInv ==
    ASSUME ConversationInv, NEW c \in Caller, Start(c)
    PROVE  ConversationInv'
<1> DEFINE t == call[c].turn
<1>1. /\ call[c].pc = "starting"
      /\ UNCHANGED <<checkpoint, sent, result, overlapped>>
  BY DEF Start
<1>2. ASSUME NEW state \in SessionState, NEW node \in {"agent", "finish", NoNode},
             call' = Walk(c, node, state), Sound(state, sent),
             \A u \in Turn : Heard(state, u) => HeardSomewhere(u),
             ~overlapped => node # NoNode /\ HeardOnce(state, t)
      PROVE  ConversationInv'
  <2> DEFINE new == Walked(c, node, state)
  <2>1. /\ call' = [call EXCEPT ![c] = new] /\ call'[c] = new /\ new \in TurnInProgress
        /\ new.pc = (IF node = NoNode THEN "end" ELSE "top") /\ new.turn = t
        /\ new.state = state
    BY <1>1, <1>2, WalkIs
  <2> HIDE DEF new
  <2>2. ~overlapped => Progress(c)'
    BY <1>2, <2>1 DEF Progress
  <2> QED
    BY <1>1, <1>2, <2>1, <2>2, LocalStep
<1>3. CASE checkpoint = NoCheckpoint
  <2>1. call' = Walk(c, "agent", call[c].state)
    BY <1>3 DEF Start, Entry
  <2>2. ~overlapped => HeardOnce(call[c].state, t)
    <3>1. ~overlapped => ~call[c].resume
      BY <1>1, <1>3, InTurn DEF Progress, Paused
    <3> QED
      BY <1>1, <1>3, <3>1, InTurn DEF Progress, HeardOnce
  <2> QED
    BY <1>1, <1>2, <2>1, <2>2, InTurn, ConversationAssumption DEF HeardSomewhere
<1>4. CASE checkpoint # NoCheckpoint /\ ~checkpoint.state.interrupt
  <2>1. call' = Walk(c, checkpoint.next, checkpoint.state)
    BY <1>4 DEF Start
  <2>2. ~overlapped => checkpoint.next # NoNode /\ HeardOnce(checkpoint.state, t)
    <3>1. ~overlapped => ~call[c].resume
      BY <1>1, <1>4, InTurn DEF Progress, Paused
    <3> QED
      BY <1>1, <1>4, <3>1, InTurn, ConversationAssumption DEF Progress, HeardOnce, Entry
  <2> QED
    BY <1>1, <1>2, <1>4, <2>1, <2>2, InTurn DEF HeardSomewhere
<1>5. CASE /\ checkpoint # NoCheckpoint /\ checkpoint.state.interrupt
           /\ call[c].resume
  <2> DEFINE answered == [checkpoint.state EXCEPT !.interrupt = FALSE, !.answer = t]
  <2>1. call' = Walk(c, "finish", answered)
    BY <1>5 DEF Start
  <2>2. /\ answered \in SessionState
        /\ answered.messages = checkpoint.state.messages /\ answered.answer = t
    BY <1>1, <1>5, InTurn DEF SessionState
  <2> HIDE DEF answered
  <2>3. /\ Sound(answered, sent)
        /\ \A u \in Turn : Heard(answered, u) <=> Heard(checkpoint.state, u)
    BY <1>1, <1>5, <2>2, InTurn DEF Sound, Heard
  <2>4. ~overlapped => HeardOnce(answered, t)
    BY <1>1, <1>5, <2>2, <2>3, InTurn DEF Progress, HeardOnce
  <2> QED
    BY <1>1, <1>2, <1>5, <2>1, <2>2, <2>3, <2>4, ConversationAssumption DEF HeardSomewhere
<1>6. CASE /\ checkpoint # NoCheckpoint /\ checkpoint.state.interrupt
           /\ ~call[c].resume
  <2> DEFINE new == [call[c] EXCEPT !.pc = "interrupted"]
  <2>1. call' = [call EXCEPT ![c] = new] /\ call'[c] = new
    BY <1>6 DEF Start, ConversationInv, ConversationTypeOK
  <2>2. /\ new \in TurnInProgress /\ new.pc = "interrupted" /\ new.turn = t
        /\ new.state = call[c].state
    BY <1>1, InTurn DEF TurnInProgress, PcOfTurn
  <2> HIDE DEF new
  <2>3. Progress(c)'
    BY <2>1, <2>2 DEF Progress
  <2> QED
    BY <1>1, <2>1, <2>2, <2>3, InTurn, LocalStep DEF HeardSomewhere
<1> QED
  BY <1>3, <1>4, <1>5, <1>6, InTurn, <1>1 DEF SessionState

(* The end of a turn: it leaves what it has saved. *)
LEMMA EndTurnInv ==
    ASSUME ConversationInv, NEW c \in Caller, call[c].pc # "idle",
           NEW kind \in {"replied", "waiting", "failed", "died"},
           NEW text \in Turn \cup {NoTurn},
           EndTurn(c, kind, text),
           (~overlapped /\ kind = "replied" /\ ~call[c].output) => text = call[c].turn
    PROVE  ConversationInv'
<1> DEFINE t == call[c].turn
           told == [kind |-> kind, text |-> text, output |-> call[c].output]
<1>1. /\ call' = [call EXCEPT ![c] = Idle]
      /\ result' = [result EXCEPT ![t] = told]
      /\ UNCHANGED <<checkpoint, sent, overlapped>>
  BY DEF EndTurn
<1>2. /\ told \in TurnResult /\ t \in Turn
      /\ result \in [Turn -> TurnResult]
      /\ result' \in [Turn -> TurnResult]
      /\ result'[t] = told /\ \A u \in Turn : u # t => result'[u] = result[u]
  BY <1>1, InTurn DEF ConversationInv, ConversationTypeOK, TurnResult, TurnInProgress
<1>3. /\ checkpoint' \in SessionRecord \cup {NoCheckpoint}
      /\ checkpoint' # NoCheckpoint => Sound(checkpoint'.state, sent)
      /\ Sound(Idle.state, sent)
      /\ Idle \in TurnInProgress
  BY <1>1, InTurn, InitialStateSound, IdleReads
  DEF ConversationInv, ConversationTypeOK, StatesAreSound
<1>4. /\ \A u \in Turn : (u # t /\ Heard(Idle.state, u)) => HeardSomewhere(u)
      /\ \A u \in Turn : (u # t /\ checkpoint' # NoCheckpoint /\ Heard(checkpoint'.state, u))
                            => HeardSomewhere(u)
  BY <1>1, InitialStateSound, IdleReads DEF HeardSomewhere
<1>5. /\ ConversationTypeOK' /\ StatesAreSound' /\ TurnsAreApart'
      /\ SeedingIsUnheard' /\ RepliesHaveARecord'
  BY <1>1, <1>2, <1>3, <1>4, IdleReads, CallerStep
<1>6. Progress(c)'
  <2>1. call'[c].pc = "idle"
    BY <1>1, IdleReads DEF ConversationInv, ConversationTypeOK
  <2> QED
    BY <2>1 DEF Progress
<1>7. ~overlapped => RepliesAreOfTheTurn'
  BY <1>1, <1>2, InTurn DEF RepliesAreOfTheTurn
<1>8. TurnsAlone'
  BY <1>1, <1>3, <1>6, <1>7, AloneStep
<1> QED
  BY <1>5, <1>8 DEF ConversationInv

LEMMA ReplyInv ==
    ASSUME ConversationInv, NEW c \in Caller, Reply(c)
    PROVE  ConversationInv'
<1> DEFINE read == [call[c].state EXCEPT !.messages = checkpoint.state.messages]
           replies == {i \in DOMAIN read.messages : read.messages[i].role = "assistant"}
<1>1. call[c].pc = "replying" /\ EndTurn(c, "replied", ReplyText(read))
  BY DEF Reply
<1>2. /\ checkpoint # NoCheckpoint
      /\ checkpoint.state \in SessionState /\ call[c].state \in SessionState
  BY <1>1, InTurn DEF ConversationInv, RepliesHaveARecord
<1>3. /\ read.messages = checkpoint.state.messages
      /\ read.messages \in Seq(Message)
      /\ read.output \in Turn \cup {NoTurn}
  BY <1>2 DEF SessionState
<1> HIDE DEF read
<1>4. ReplyText(read) \in Turn \cup {NoTurn}
  <2>1. CASE replies = {}
    BY <1>3, <2>1 DEF ReplyText
  <2>2. CASE replies # {}
    <3>1. Max(replies) \in replies
      BY <1>3, <2>2, MaxOfIndices
    <3>2. \A i \in DOMAIN read.messages : read.messages[i] \in Message
      BY <1>3
    <3>3. read.messages[Max(replies)] \in Message
      BY <3>1, <3>2
    <3> QED
      BY <2>2, <3>3 DEF ReplyText, Message
  <2> QED
    BY <2>1, <2>2
<1>5. ASSUME ~overlapped, ~call[c].output
      PROVE  ReplyText(read) = call[c].turn
  <2>1. checkpoint.state = call[c].state /\ RepliedBy(call[c].state, call[c].turn)
    BY <1>1, <1>5, InTurn DEF Progress
  <2> QED
    BY <1>3, <2>1 DEF RepliedBy, ReplyText
<1> HIDE DEF replies
<1> QED
  BY <1>1, <1>4, <1>5, EndTurnInv

LEMMA ConversationNextInv ==
    ConversationInv /\ [ConversationNext]_conversationVars => ConversationInv'
<1> SUFFICES ASSUME ConversationInv, [ConversationNext]_conversationVars
             PROVE  ConversationInv'
  OBVIOUS
<1>1. CASE UNCHANGED conversationVars
  BY <1>1 DEF conversationVars, ConversationInv, ConversationTypeOK, StatesAreSound,
              TurnsAreApart, SeedingIsUnheard, RepliesHaveARecord, TurnsAlone, Progress,
              Paused, RepliesAreOfTheTurn
<1>2. ASSUME NEW c \in Caller,
             \/ Wait(c)
             \/ Fail(c)
             \/ Die(c)
      PROVE  ConversationInv'
  <2>1. call[c].pc # "idle" /\ \E kind \in {"waiting", "failed", "died"} : EndTurn(c, kind, NoTurn)
    BY <1>2 DEF Wait, Fail, Die, ConversationInv, TurnsAreApart
  <2> QED
    BY <2>1, EndTurnInv
<1> QED
  BY <1>1, <1>2, SendInv, LoadOrSeedInv, SaveExtendedInv, StartInv, SaveBeforeNodeInv,
     AgentReturnsInv, AgentInterruptsInv, FinishRepliesInv, SaveAtEndInv, ReplyInv
  DEF ConversationNext

(* The exchange of a turn, for every number of callers, messages and deaths: *)
(* its message is in the record once, heard as a message or as an answer,    *)
(* and the reply it returns is its own (graph/graph.py, channels/reply.py).  *)
THEOREM TurnsStayExchanges == ConversationSpec => []TurnsAreExchanges
<1>1. ConversationInv => TurnsAreExchanges
  <2> SUFFICES ASSUME ConversationInv PROVE TurnsAreExchanges
    OBVIOUS
  <2>1. \A t \in Turn : Recorded(t) # {} <=>
           (checkpoint # NoCheckpoint /\ Heard(checkpoint.state, t))
    BY DEF Recorded, Messages, Heard
  <2>2. TheTurnWasHeard
    <3> SUFFICES ASSUME NEW c \in Caller, call[c].pc = "replying", ~overlapped
                 PROVE  (Recorded(call[c].turn) # {}) # (checkpoint.state.answer = call[c].turn)
      BY DEF TheTurnWasHeard
    <3>1. /\ HeardOnce(checkpoint.state, call[c].turn) /\ checkpoint # NoCheckpoint
          /\ call[c].turn \in Turn
      BY InTurn DEF Progress
    <3> QED
      BY <2>1, <3>1 DEF HeardOnce
  <2>3. NoMessageTwice
    <3> SUFFICES ASSUME NEW t \in Turn PROVE Cardinality(Recorded(t)) <= 1
      BY DEF NoMessageTwice
    <3>1. CASE checkpoint = NoCheckpoint
      BY <2>1, <3>1, FS_EmptySet
    <3>2. CASE checkpoint # NoCheckpoint
      <4>1. \A i, j \in Recorded(t) : i = j
        <5>1. \A i \in Recorded(t) :
                i \in DOMAIN checkpoint.state.messages
                  /\ checkpoint.state.messages[i] = Said("user", t)
          BY <3>2 DEF Recorded, Messages
        <5>2. Sound(checkpoint.state, sent)
          BY <3>2 DEF ConversationInv, StatesAreSound
        <5>3. Said("user", t).role = "user"
          BY DEF Said
        <5>4. ASSUME NEW i \in Recorded(t), NEW j \in Recorded(t) PROVE i = j
          <6>1. /\ i \in DOMAIN checkpoint.state.messages /\ j \in DOMAIN checkpoint.state.messages
                /\ checkpoint.state.messages[i] = Said("user", t)
                /\ checkpoint.state.messages[j] = Said("user", t)
            BY <5>1
          <6> QED
            BY <5>2, <5>3, <6>1 DEF Sound
        <5> QED
          BY <5>4
      <4>2. Recorded(t) = {} \/ \E i : Recorded(t) = {i}
        BY <4>1
      <4>3. CASE Recorded(t) = {}
        BY <4>3, FS_EmptySet
      <4>4. ASSUME NEW i, Recorded(t) = {i} PROVE Cardinality(Recorded(t)) <= 1
        <5>1. Cardinality(Recorded(t)) = 1
          BY <4>4, FS_Singleton
        <5> QED
          BY <5>1
      <4> QED
        BY <4>2, <4>3, <4>4
    <3> QED
      BY <3>1, <3>2
  <2>4. RepliesAreOfTheTurn
    BY DEF ConversationInv, TurnsAlone, RepliesAreOfTheTurn
  <2> QED
    BY <2>2, <2>3, <2>4 DEF TurnsAreExchanges
<1> QED
  BY <1>1, InitConversationInv, ConversationNextInv, PTL DEF ConversationSpec
-----------------------------------------------------------------------------
(* The tool-calling agent: the types of its messages, of its state, of the  *)
(* record and of the run.                                                   *)
AgentSpec == AgentInit /\ [][AgentNext]_agentVars

AgentPlace == {"agent", "tool", "handler", Nowhere}

AgentRuns == [pc : {"idle", "top", "executing", "tools"}, node : AgentPlace,
              state : AgentState, jobs : Seq(JobStatus), reply : MaybeCall]

AgentTypeOK ==
    /\ recorded \in AgentRecords \cup {Unrecorded}
    /\ run \in AgentRuns
    /\ turns \in Nat
    /\ paused \in SUBSET Nat
    /\ abandoned \in SUBSET Nat
    /\ ran \in SUBSET [round : Nat, what : Tool]
    /\ signed \in SUBSET {"approve", "deny", "unclear"}
    /\ reasked \in BOOLEAN

(* A round is settled when nobody waits for its results any more. *)
Settled == paused \cup abandoned

ResultsFollow(messages, i) ==
    LET calls == messages[i].calls
        places == i + 1 .. i + Len(calls)
    IN  /\ i + Len(calls) <= Len(messages)
        /\ \A j \in places : messages[j].role = "tool"
        /\ {messages[j].call : j \in places} = ToSet(calls)

MakesCalls(message) == message.role = "assistant" /\ message.calls # <<>>

(* In a list of messages every call but those of the last message has its   *)
(* results, or its round is settled.                                        *)
AnsweredSoFar(messages, settled) ==
    \A i \in DOMAIN messages :
        ( /\ i < Len(messages)
          /\ MakesCalls(messages[i])
          /\ Head(messages[i].calls).round \notin settled ) => ResultsFollow(messages, i)

(* Nothing waits for results, and another message may follow. *)
Closed(messages, settled) ==
    messages # <<>> =>
        LET last == messages[Len(messages)]
        IN  MakesCalls(last) => Head(last.calls).round \in settled

(* The last message makes the calls that are to be run. *)
Open(state) ==
    /\ state.messages # <<>>
    /\ state.messages[Len(state.messages)] = [role |-> "assistant", calls |-> state.calls]
    /\ state.calls # <<>>

AnswersMatch(messages) ==
    \A i \in DOMAIN messages :
        (messages[i].role = "tool" /\ messages[i].result.kind = "answer") =>
            messages[i].result.to.what = messages[i].call.what

(* What holds of every state of the workflow, in the record and in a run,   *)
(* given the settled rounds, the signatures and whether the model has made  *)
(* its calls again.                                                         *)
StateIsSound(state, settled, signatures, again) ==
    /\ \A i \in DOMAIN state.calls : state.calls[i].round = state.round
    /\ state.approval = "approve" => "approve" \in signatures
    /\ state.answer # Nothing => state.answer.what \in Question
    /\ AnsweredSoFar(state.messages, settled)
    /\ again => AnswersMatch(state.messages)

(* What holds of a state by the node it is given to. *)
StateFits(node, state, settled, again) ==
    /\ node = "tool" =>
          /\ Open(state)
          /\ (again /\ state.answer # Nothing) =>
                \E i \in DOMAIN state.calls : state.calls[i].what = state.answer.what
    /\ node # "tool" => Closed(state.messages, settled)

(* Whether ToolExec pauses depends on the state it is given only. *)
WouldPause(state) ==
    LET asks == {i \in DOMAIN state.calls : state.calls[i].what \in Question}
        decided(c) == IF state.approval \in {"approve", "deny"}
                        THEN state.approval ELSE Approver[c.what]
    IN  \/ ~(asks = {} \/ (state.answer # Nothing /\ asks = {Min(asks)}))
        \/ \E i \in DOMAIN state.calls :
              state.calls[i].what \in Tool /\ decided(state.calls[i]) = "pause"

LastRound == IF recorded = Unrecorded THEN 0 ELSE recorded.state.round

RecordIsSound ==
    recorded # Unrecorded =>
        /\ StateIsSound(recorded.state, Settled, signed, reasked)
        /\ StateFits(recorded.next, recorded.state, Settled, reasked)
        /\ recorded.asking # Nothing => recorded.next = Nowhere
        /\ recorded.next = "tool" => recorded.state.round \notin paused

(* Rounds are past, or the one that is recorded; a round whose tools ran    *)
(* does not pause.                                                          *)
RoundsArePast ==
    /\ \A c \in ran : c.round <= LastRound
    /\ \A round \in paused : round <= LastRound
    /\ \A c \in ran : c.round \notin paused
    /\ (recorded # Unrecorded /\ recorded.next = "tool" /\ WouldPause(recorded.state)) =>
          \A c \in ran : c.round # recorded.state.round

RunIsSound ==
    /\ run.pc = "idle" => run = AgentIdle
    /\ StateIsSound(run.state, Settled, signed, reasked)
    /\ run.pc # "idle" => run.state.round >= LastRound
    /\ run.pc \in {"top", "executing"} => StateFits(run.node, run.state, Settled, reasked)
    /\ (run.pc = "top" /\ run.node = "tool") =>
          \/ run.state.round > LastRound
          \/ recorded # Unrecorded /\ recorded.next = "tool" /\ recorded.state = run.state
    /\ run.pc = "executing" => recorded = AgentRecord(run.node, Nothing, run.state)

ToolsAreSound ==
    run.pc = "tools" =>
        /\ recorded # Unrecorded /\ recorded.next = "tool"
        /\ recorded.state.round = run.state.round
        /\ Open(run.state)
        /\ DOMAIN run.jobs = DOMAIN run.state.calls
        /\ \A i \in DOMAIN run.jobs :
              run.jobs[i] = "answer" =>
                  /\ run.state.calls[i].what \in Question
                  /\ reasked => /\ run.reply # Nothing
                                /\ run.reply.what = run.state.calls[i].what

AgentInv ==
    /\ AgentTypeOK
    /\ RecordIsSound
    /\ RoundsArePast
    /\ RunIsSound
    /\ ToolsAreSound
    /\ GatedToolsNeedASignOff

-----------------------------------------------------------------------------
(* What more rounds that are settled, more signatures and a repetition that *)
(* failed leave of a state.                                                 *)
LEMMA StaysSound ==
    ASSUME NEW state \in AgentState, NEW settled, NEW signatures, NEW again,
           NEW settled2, NEW signatures2, NEW again2,
           settled \subseteq settled2, signatures \subseteq signatures2, again2 => again,
           StateIsSound(state, settled, signatures, again)
    PROVE  StateIsSound(state, settled2, signatures2, again2)
BY DEF StateIsSound, AnsweredSoFar

LEMMA StaysFit ==
    ASSUME NEW node, NEW state \in AgentState, NEW settled, NEW again,
           NEW settled2, NEW again2,
           settled \subseteq settled2, again2 => again,
           StateFits(node, state, settled, again)
    PROVE  StateFits(node, state, settled2, again2)
BY DEF StateFits, Closed

(* What further messages leave of the ones before them. *)
LEMMA SaidMessages ==
    ASSUME NEW messages \in Seq(AgentMessage), NEW more \in Seq(AgentMessage)
    PROVE  /\ messages \o more \in Seq(AgentMessage)
           /\ Len(messages \o more) = Len(messages) + Len(more)
           /\ \A i \in DOMAIN messages :
                 i \in DOMAIN (messages \o more) /\ (messages \o more)[i] = messages[i]
           /\ \A i \in DOMAIN more :
                 /\ Len(messages) + i \in DOMAIN (messages \o more)
                 /\ (messages \o more)[Len(messages) + i] = more[i]
           /\ \A i \in DOMAIN (messages \o more) :
                 i \in DOMAIN messages \/ i - Len(messages) \in DOMAIN more
OBVIOUS

LEMMA CallsOfMessage ==
    ASSUME NEW message \in AgentMessage, MakesCalls(message)
    PROVE  message.calls \in Seq(AgentCall) /\ Len(message.calls) \in Nat
BY DEF AgentMessage, MakesCalls

LEMMA ResultsStay ==
    ASSUME NEW messages \in Seq(AgentMessage), NEW more \in Seq(AgentMessage),
           NEW i \in DOMAIN messages, MakesCalls(messages[i]), ResultsFollow(messages, i)
    PROVE  ResultsFollow(messages \o more, i)
<1> DEFINE calls == messages[i].calls
           places == i + 1 .. i + Len(calls)
<1>1. Len(calls) \in Nat
  BY CallsOfMessage
<1>2. places \subseteq DOMAIN messages /\ i + Len(calls) <= Len(messages)
  BY <1>1 DEF ResultsFollow
<1>3. \A j \in places : (messages \o more)[j] = messages[j]
  BY <1>2, SaidMessages
<1>4. (messages \o more)[i].calls = calls
  BY SaidMessages
<1>5. i + Len(calls) <= Len(messages \o more)
  BY <1>1, <1>2, SaidMessages
<1>6. {(messages \o more)[j].call : j \in places} = {messages[j].call : j \in places}
  BY <1>3
<1> QED
  BY <1>3, <1>4, <1>5, <1>6 DEF ResultsFollow

(* Where nothing waits, one more message may follow. *)
LEMMA SayOne ==
    ASSUME NEW messages \in Seq(AgentMessage), NEW settled, NEW m \in AgentMessage,
           AnsweredSoFar(messages, settled), Closed(messages, settled)
    PROVE  AnsweredSoFar(messages \o <<m>>, settled)
<1> DEFINE longer == messages \o <<m>>
<1>1. /\ Len(longer) = Len(messages) + 1
      /\ \A i \in DOMAIN messages : longer[i] = messages[i]
      /\ <<m>> \in Seq(AgentMessage)
  BY SaidMessages
<1>2. ASSUME NEW i \in DOMAIN longer, i < Len(longer), MakesCalls(longer[i]),
             Head(longer[i].calls).round \notin settled
      PROVE  ResultsFollow(longer, i)
  <2>1. i \in DOMAIN messages /\ longer[i] = messages[i]
    BY <1>1, <1>2
  <2>2. i < Len(messages)
    BY <1>2, <2>1 DEF Closed
  <2>3. ResultsFollow(messages, i)
    BY <1>2, <2>1, <2>2 DEF AnsweredSoFar
  <2> QED
    BY <1>1, <1>2, <2>1, <2>3, ResultsStay
<1> QED
  BY <1>2 DEF AnsweredSoFar

-----------------------------------------------------------------------------
(* The types of the parts. *)
LEMMA FreshSound ==
    /\ Fresh \in AgentState /\ AgentIdle \in AgentRuns
    /\ Fresh.messages = <<>> /\ Fresh.round = 0
    /\ AgentIdle.state = Fresh /\ AgentIdle.pc = "idle"
<1>1. Fresh \in AgentState
  BY DEF Fresh, AgentState, MaybeCall
<1>2. /\ AgentIdle \in AgentRuns
      /\ AgentIdle.state = Fresh /\ AgentIdle.pc = "idle"
  BY <1>1 DEF AgentIdle, AgentRuns, AgentPlace, MaybeCall
<1>3. Fresh.messages = <<>> /\ Fresh.round = 0
  BY DEF Fresh
<1> QED
  BY <1>1, <1>2, <1>3

LEMMA FreshIsSound ==
    ASSUME NEW settled, NEW signatures, NEW again
    PROVE  StateIsSound(Fresh, settled, signatures, again)
<1>1. /\ Fresh.messages = <<>> /\ Fresh.calls = <<>>
      /\ Fresh.approval = "none" /\ Fresh.answer = Nothing
  BY DEF Fresh
<1> QED
  BY <1>1 DEF StateIsSound, AnsweredSoFar, AnswersMatch

LEMMA AtIs ==
    ASSUME NEW node \in AgentPlace, NEW state \in AgentState
    PROVE  /\ At(node, state) \in AgentRuns
           /\ At(node, state).pc = "top" /\ At(node, state).node = node
           /\ At(node, state).state = state
BY FreshSound DEF At, AgentRuns

LEMMA RecordIs ==
    ASSUME NEW next \in AgentPlace, NEW asking \in MaybeCall, NEW state \in AgentState
    PROVE  /\ AgentRecord(next, asking, state) \in AgentRecords
           /\ AgentRecord(next, asking, state) # Unrecorded
           /\ AgentRecord(next, asking, state).next = next
           /\ AgentRecord(next, asking, state).asking = asking
           /\ AgentRecord(next, asking, state).state = state
BY UnrecordedAssumption DEF AgentRecord, AgentRecords, AgentPlace

LEMMA AgentFacts ==
    ASSUME AgentInv
    PROVE  /\ run.state \in AgentState /\ run.state.round \in Nat
           /\ run.state.messages \in Seq(AgentMessage) /\ run.state.calls \in Seq(AgentCall)
           /\ run.node \in AgentPlace
           /\ run.jobs \in Seq(JobStatus) /\ run.reply \in MaybeCall
           /\ recorded # Unrecorded =>
                 /\ recorded \in AgentRecords
                 /\ recorded.state \in AgentState /\ recorded.state.round \in Nat
                 /\ recorded.state.messages \in Seq(AgentMessage)
                 /\ recorded.next \in AgentPlace /\ recorded.asking \in MaybeCall
                 /\ LastRound = recorded.state.round
           /\ LastRound \in Nat
           /\ reasked \in BOOLEAN
           /\ paused \in SUBSET Nat /\ abandoned \in SUBSET Nat
           /\ ran \in SUBSET [round : Nat, what : Tool]
BY DEF AgentInv, AgentTypeOK, AgentRuns, AgentRecords, AgentState, AgentPlace, LastRound

(* The run arrives at a node with a state that is sound and fits, and either *)
(* the record is as it was, or it has just been made to say the same.        *)
LEMMA ArriveInv ==
    ASSUME AgentInv,
           NEW node \in AgentPlace, NEW state \in AgentState, run' = At(node, state),
           \/ recorded' = recorded
           \/ node # "tool" /\ recorded' = AgentRecord(node, Nothing, state),
           paused' = paused, ran' = ran, turns' \in Nat,
           abandoned' \in SUBSET Nat, abandoned \subseteq abandoned',
           signed' \in SUBSET {"approve", "deny", "unclear"}, signed \subseteq signed',
           reasked' \in BOOLEAN, reasked' => reasked,
           StateIsSound(state, paused \cup abandoned', signed', reasked'),
           StateFits(node, state, paused \cup abandoned', reasked'),
           state.round >= LastRound,
           node = "tool" =>
              \/ state.round > LastRound
              \/ recorded # Unrecorded /\ recorded.next = "tool" /\ recorded.state = state
    PROVE  AgentInv'
<1> DEFINE settled == paused \cup abandoned
           settled2 == paused \cup abandoned'
<1>1. /\ run'.pc = "top" /\ run'.node = node /\ run'.state = state /\ run' \in AgentRuns
  BY AtIs
<1>2. /\ state.round \in Nat
      /\ settled \subseteq settled2
      /\ Settled = settled /\ Settled' = settled2
  BY DEF AgentState, Settled
<1> HIDE DEF settled, settled2
<1>3. CASE recorded' = recorded
  <2>1. AgentTypeOK'
    BY <1>1, <1>3 DEF AgentInv, AgentTypeOK
  <2>2. RecordIsSound'
    <3> SUFFICES ASSUME recorded # Unrecorded
                 PROVE  /\ StateIsSound(recorded.state, settled2, signed', reasked')
                        /\ StateFits(recorded.next, recorded.state, settled2, reasked')
                        /\ recorded.asking # Nothing => recorded.next = Nowhere
                        /\ recorded.next = "tool" => recorded.state.round \notin paused
      BY <1>2, <1>3 DEF RecordIsSound
    <3>1. /\ StateIsSound(recorded.state, settled, signed, reasked)
          /\ StateFits(recorded.next, recorded.state, settled, reasked)
      BY <1>2 DEF AgentInv, RecordIsSound
    <3>2. StateIsSound(recorded.state, settled2, signed', reasked')
      BY <1>2, <3>1, AgentFacts, StaysSound
    <3>3. StateFits(recorded.next, recorded.state, settled2, reasked')
      BY <1>2, <3>1, AgentFacts, StaysFit
    <3> QED
      BY <3>2, <3>3 DEF AgentInv, RecordIsSound
  <2>3. LastRound' = LastRound
    BY <1>3 DEF LastRound
  <2>4. RoundsArePast'
    BY <1>3, <2>3 DEF AgentInv, RoundsArePast
  <2>5. RunIsSound'
    BY <1>2, <1>1, <1>3, <2>3 DEF RunIsSound, settled2
  <2>6. ToolsAreSound'
    BY <1>1 DEF ToolsAreSound
  <2>7. GatedToolsNeedASignOff'
    BY DEF AgentInv, GatedToolsNeedASignOff
  <2> QED
    BY <2>1, <2>2, <2>4, <2>5, <2>6, <2>7 DEF AgentInv
<1>4. CASE node # "tool" /\ recorded' = AgentRecord(node, Nothing, state)
  <2>1. /\ recorded' \in AgentRecords /\ recorded' # Unrecorded
        /\ recorded'.next = node /\ recorded'.asking = Nothing /\ recorded'.state = state
        /\ LastRound' = state.round
    BY <1>4, RecordIs DEF MaybeCall, LastRound
  <2>2. AgentTypeOK'
    BY <1>1, <2>1 DEF AgentInv, AgentTypeOK
  <2>3. RecordIsSound'
    BY <1>2, <1>4, <2>1 DEF RecordIsSound, settled2
  <2>4. RoundsArePast'
    <3>1. /\ \A c \in ran : c.round \in Nat /\ c.round <= LastRound
          /\ \A round \in paused : round \in Nat /\ round <= LastRound
          /\ \A c \in ran : c.round \notin paused
          /\ LastRound \in Nat
      BY AgentFacts DEF AgentInv, RoundsArePast
    <3> QED
      BY <1>2, <1>4, <2>1, <3>1 DEF RoundsArePast
  <2>5. RunIsSound'
    BY <1>2, <1>1, <1>4, <2>1 DEF RunIsSound, settled2
  <2>6. ToolsAreSound'
    BY <1>1 DEF ToolsAreSound
  <2>7. GatedToolsNeedASignOff'
    BY DEF AgentInv, GatedToolsNeedASignOff
  <2> QED
    BY <2>2, <2>3, <2>4, <2>5, <2>6, <2>7 DEF AgentInv
<1> QED
  BY <1>3, <1>4

-----------------------------------------------------------------------------
(* One lemma per action. *)

LEMMA AgentInitInv == AgentInit => AgentInv
<1> SUFFICES ASSUME AgentInit PROVE AgentInv
  OBVIOUS
<1>1. AgentTypeOK
  BY FreshSound DEF AgentInit, AgentTypeOK
<1>2. RecordIsSound /\ RoundsArePast /\ GatedToolsNeedASignOff
  BY DEF AgentInit, RecordIsSound, RoundsArePast, GatedToolsNeedASignOff
<1>3. RunIsSound /\ ToolsAreSound
  BY FreshSound, FreshIsSound DEF AgentInit, RunIsSound, ToolsAreSound
<1> QED
  BY <1>1, <1>2, <1>3 DEF AgentInv

(* One more message in a state. *)
LEMMA SayOneState ==
    ASSUME NEW state \in AgentState, NEW m \in AgentMessage, m.role # "tool",
           NEW settled, NEW signatures, NEW again,
           StateIsSound(state, settled, signatures, again), Closed(state.messages, settled)
    PROVE  /\ Say(state, <<m>>) \in AgentState
           /\ StateIsSound(Say(state, <<m>>), settled, signatures, again)
           /\ Say(state, <<m>>) = [state EXCEPT !.messages = @ \o <<m>>]
           /\ Say(state, <<m>>).round = state.round
           /\ Say(state, <<m>>).messages = state.messages \o <<m>>
           /\ Len(Say(state, <<m>>).messages) = Len(state.messages) + 1
           /\ Say(state, <<m>>).messages[Len(state.messages) + 1] = m
<1> DEFINE said == Say(state, <<m>>)
           longer == state.messages \o <<m>>
<1>1. /\ state.messages \in Seq(AgentMessage) /\ <<m>> \in Seq(AgentMessage)
      /\ said = [state EXCEPT !.messages = longer]
  BY DEF AgentState, Say
<1> HIDE DEF said
<1>2. /\ said \in AgentState /\ said.messages = longer /\ said.calls = state.calls
      /\ said.round = state.round /\ said.answer = state.answer
      /\ said.approval = state.approval
  BY <1>1, SaidMessages DEF AgentState
<1>3. /\ Len(longer) = Len(state.messages) + 1
      /\ longer[Len(state.messages) + 1] = m
      /\ \A i \in DOMAIN state.messages : longer[i] = state.messages[i]
      /\ \A i \in DOMAIN longer : i \in DOMAIN state.messages \/ i = Len(state.messages) + 1
  BY <1>1
<1>4. AnsweredSoFar(longer, settled)
  BY <1>1, SayOne DEF StateIsSound
<1>5. again => AnswersMatch(longer)
  BY <1>3 DEF StateIsSound, AnswersMatch
<1> QED
  BY <1>1, <1>2, <1>3, <1>4, <1>5 DEF StateIsSound, said

LEMMA HearUserInv == AgentInv /\ HearUser => AgentInv'
<1> SUFFICES ASSUME AgentInv, HearUser PROVE AgentInv'
  OBVIOUS
<1> DEFINE before == IF recorded = Unrecorded THEN Fresh ELSE recorded.state
           m == [role |-> "user"]
           heard == Say(before, <<m>>)
           settled == paused \cup abandoned'
<1>1. /\ run' = At("agent", heard) /\ ~AgentPaused
      /\ turns' \in Nat
      /\ paused' = paused /\ ran' = ran /\ signed' = signed /\ reasked' = reasked
      /\ recorded = Unrecorded => recorded' = recorded /\ abandoned' = abandoned
      /\ recorded # Unrecorded =>
            /\ recorded' = AgentRecord("agent", Nothing, heard)
            /\ abandoned' = IF recorded.next = "tool" THEN abandoned \cup {heard.round}
                            ELSE abandoned
  BY DEF HearUser, AgentInv, AgentTypeOK
<1>2. /\ before \in AgentState /\ before.round = LastRound
      /\ heard.round = before.round /\ LastRound \in Nat
  BY AgentFacts, FreshSound DEF LastRound, Say, AgentState
<1>3. abandoned' \in SUBSET Nat /\ abandoned \subseteq abandoned' /\ Settled \subseteq settled
  BY <1>1, <1>2, AgentFacts DEF Settled
<1>4. StateIsSound(before, settled, signed, reasked)
  <2>1. StateIsSound(before, Settled, signed, reasked)
    BY AgentFacts, FreshIsSound DEF AgentInv, RecordIsSound
  <2> QED
    BY <1>2, <1>3, <2>1, AgentFacts, StaysSound
<1>5. Closed(before.messages, settled)
  <2>1. CASE recorded = Unrecorded
    BY <2>1, FreshSound DEF Closed
  <2>2. CASE recorded # Unrecorded /\ recorded.next # "tool"
    BY <1>3, <2>2 DEF AgentInv, RecordIsSound, StateFits, Closed
  <2>3. CASE recorded # Unrecorded /\ recorded.next = "tool"
    <3>1. /\ Open(before) /\ \A i \in DOMAIN before.calls : before.calls[i].round = before.round
          /\ before.calls \in Seq(AgentCall)
      BY <1>2, <2>3 DEF AgentInv, RecordIsSound, StateFits, StateIsSound, AgentState
    <3>2. Head(before.calls).round = before.round
      BY <3>1 DEF Open
    <3>3. before.round \in settled
      BY <1>1, <1>2, <2>3
    <3> QED
      BY <3>1, <3>2, <3>3 DEF Open, Closed
  <2> QED
    BY <2>1, <2>2, <2>3
<1>6. /\ m \in AgentMessage /\ m.role = "user"
  BY DEF AgentMessage
<1> HIDE DEF before, m
<1>7. /\ heard \in AgentState
      /\ StateIsSound(heard, settled, signed, reasked)
      /\ Len(heard.messages) = Len(before.messages) + 1
      /\ heard.messages[Len(before.messages) + 1] = m
  <2> HIDE DEF settled
  <2>1. reasked \in BOOLEAN
    BY AgentFacts
  <2> QED
    BY <1>2, <1>4, <1>5, <1>6, <2>1, SayOneState
<1> HIDE DEF heard
<1>8. StateFits("agent", heard, settled, reasked)
  BY <1>6, <1>7 DEF StateFits, Closed, MakesCalls
<1>9. \/ recorded' = recorded
      \/ "agent" # "tool" /\ recorded' = AgentRecord("agent", Nothing, heard)
  BY <1>1
<1>10. /\ StateIsSound(heard, paused \cup abandoned', signed', reasked')
       /\ StateFits("agent", heard, paused \cup abandoned', reasked')
  BY <1>1, <1>7, <1>8
<1> HIDE DEF settled
<1>11. "agent" \in AgentPlace /\ heard \in AgentState /\ run' = At("agent", heard)
  BY <1>1, <1>7 DEF AgentPlace
<1>12. /\ paused' = paused /\ ran' = ran /\ turns' \in Nat
       /\ abandoned' \in SUBSET Nat /\ abandoned \subseteq abandoned'
       /\ signed' \in SUBSET {"approve", "deny", "unclear"} /\ signed \subseteq signed'
       /\ reasked' \in BOOLEAN /\ (reasked' => reasked)
  BY <1>1, <1>3 DEF AgentInv, AgentTypeOK
<1>13. heard.round >= LastRound
  BY <1>2
<1>14. "agent" = "tool" =>
              \/ heard.round > LastRound
              \/ recorded # Unrecorded /\ recorded.next = "tool" /\ recorded.state = heard
  OBVIOUS
<1> HIDE DEF heard
<1> QED
  BY <1>9, <1>10, <1>11, <1>12, <1>13, <1>14, ArriveInv

(* What the rest of the state leaves of its soundness. *)
LEMMA SameMessages ==
    ASSUME NEW state \in AgentState, NEW other \in AgentState,
           NEW settled, NEW signatures, NEW again, NEW signatures2,
           StateIsSound(state, settled, signatures, again),
           signatures \subseteq signatures2,
           other.messages = state.messages, other.round = state.round,
           other.calls = state.calls \/ other.calls = <<>>,
           other.approval = state.approval
             \/ (other.approval = "approve" => "approve" \in signatures2),
           other.answer = state.answer \/ other.answer = Nothing
             \/ other.answer.what \in Question
    PROVE  StateIsSound(other, settled, signatures2, again)
BY DEF StateIsSound

LEMMA RerunInv == AgentInv /\ Rerun => AgentInv'
<1> SUFFICES ASSUME AgentInv, Rerun PROVE AgentInv'
  OBVIOUS
<1> DEFINE node == recorded.next
           state == recorded.state
<1>1. /\ recorded # Unrecorded /\ run' = At(node, state) /\ recorded' = recorded
      /\ turns' = turns /\ paused' = paused /\ abandoned' = abandoned /\ ran' = ran
      /\ signed' = signed /\ reasked' = reasked
  BY DEF Rerun, history
<1>2. /\ node \in AgentPlace /\ state \in AgentState /\ state.round >= LastRound
      /\ turns' \in Nat /\ abandoned' \in SUBSET Nat /\ abandoned \subseteq abandoned'
      /\ signed' \in SUBSET {"approve", "deny", "unclear"} /\ signed \subseteq signed'
      /\ reasked' \in BOOLEAN /\ (reasked' => reasked)
  BY <1>1, AgentFacts DEF AgentInv, AgentTypeOK
<1>3. /\ StateIsSound(state, paused \cup abandoned', signed', reasked')
      /\ StateFits(node, state, paused \cup abandoned', reasked')
  BY <1>1 DEF AgentInv, RecordIsSound, Settled
<1>4. \/ recorded' = recorded
      \/ node # "tool" /\ recorded' = AgentRecord(node, Nothing, state)
  BY <1>1
<1>5. node = "tool" =>
              \/ state.round > LastRound
              \/ recorded # Unrecorded /\ recorded.next = "tool" /\ recorded.state = state
  BY <1>1
<1> HIDE DEF node, state
<1> QED
  BY <1>1, <1>2, <1>3, <1>4, <1>5, ArriveInv

(* The answer goes to the agent with the state of the record, which a pause *)
(* left closed.                                                             *)
LEMMA AnswerQuestionInv == AgentInv /\ AnswerQuestion => AgentInv'
<1> SUFFICES ASSUME AgentInv, AnswerQuestion PROVE AgentInv'
  OBVIOUS
<1> DEFINE state == [recorded.state EXCEPT !.answer = recorded.asking]
<1>1. /\ recorded # Unrecorded /\ recorded.asking # Nothing
      /\ recorded.asking.what \in Question
      /\ run' = At("agent", state) /\ recorded' = recorded
      /\ turns' = turns /\ paused' = paused /\ abandoned' = abandoned /\ ran' = ran
      /\ signed' = signed /\ reasked' = reasked
  BY DEF AnswerQuestion, AgentPaused, history
<1>2. /\ "agent" \in AgentPlace /\ state \in AgentState
      /\ state.round = recorded.state.round /\ state.messages = recorded.state.messages
      /\ state.calls = recorded.state.calls /\ state.approval = recorded.state.approval
      /\ state.answer = recorded.asking
  BY <1>1, AgentFacts DEF AgentPlace, AgentState
<1>3. /\ state.round >= LastRound
      /\ turns' \in Nat /\ abandoned' \in SUBSET Nat /\ abandoned \subseteq abandoned'
      /\ signed' \in SUBSET {"approve", "deny", "unclear"} /\ signed \subseteq signed'
      /\ reasked' \in BOOLEAN /\ (reasked' => reasked)
  BY <1>1, <1>2, AgentFacts DEF AgentInv, AgentTypeOK
<1> HIDE DEF state
<1>4. StateIsSound(state, paused \cup abandoned', signed', reasked')
  <2>1. StateIsSound(recorded.state, paused \cup abandoned, signed, reasked)
    BY <1>1 DEF AgentInv, RecordIsSound, Settled
  <2>2. recorded.state \in AgentState
    BY <1>1, AgentFacts
  <2> QED
    BY <1>1, <1>2, <2>1, <2>2, SameMessages
<1>5. StateFits("agent", state, paused \cup abandoned', reasked')
  BY <1>1, <1>2, AgentAssumption DEF AgentInv, RecordIsSound, Settled, StateFits
<1> QED
  BY <1>1, <1>2, <1>3, <1>4, <1>5, ArriveInv

LEMMA AnswerApprovalInv ==
    ASSUME AgentInv, NEW said \in {"approve", "deny", "unclear"}, AnswerApproval(said)
    PROVE  AgentInv'
<1> DEFINE state == [recorded.state EXCEPT !.approval = said]
<1>1. /\ recorded # Unrecorded /\ recorded.asking # Nothing
      /\ run' = At("agent", state) /\ recorded' = recorded
      /\ turns' = turns /\ paused' = paused /\ abandoned' = abandoned /\ ran' = ran
      /\ signed' = signed \cup {said} /\ reasked' = reasked
  BY DEF AnswerApproval, AgentPaused
<1>2. /\ "agent" \in AgentPlace /\ state \in AgentState
      /\ state.round = recorded.state.round /\ state.messages = recorded.state.messages
      /\ state.calls = recorded.state.calls /\ state.approval = said
      /\ state.answer = recorded.state.answer
  BY <1>1, AgentFacts DEF AgentPlace, AgentState
<1>3. /\ state.round >= LastRound
      /\ turns' \in Nat /\ abandoned' \in SUBSET Nat /\ abandoned \subseteq abandoned'
      /\ signed' \in SUBSET {"approve", "deny", "unclear"} /\ signed \subseteq signed'
      /\ reasked' \in BOOLEAN /\ (reasked' => reasked)
  BY <1>1, <1>2, AgentFacts DEF AgentInv, AgentTypeOK
<1> HIDE DEF state
<1>4. StateIsSound(state, paused \cup abandoned', signed', reasked')
  <2>1. StateIsSound(recorded.state, paused \cup abandoned, signed, reasked)
    BY <1>1 DEF AgentInv, RecordIsSound, Settled
  <2>2. recorded.state \in AgentState
    BY <1>1, AgentFacts
  <2>3. state.approval = "approve" => "approve" \in signed'
    BY <1>1, <1>2
  <2> QED
    BY <1>1, <1>2, <1>3, <2>1, <2>2, <2>3, SameMessages
<1>5. StateFits("agent", state, paused \cup abandoned', reasked')
  BY <1>1, <1>2, AgentAssumption DEF AgentInv, RecordIsSound, Settled, StateFits
<1> QED
  BY <1>1, <1>2, <1>3, <1>4, <1>5, ArriveInv

LEMMA HandlerReturnsInv == AgentInv /\ HandlerReturns => AgentInv'
<1> SUFFICES ASSUME AgentInv, HandlerReturns PROVE AgentInv'
  OBVIOUS
<1>1. /\ run.pc = "executing" /\ run.node = "handler"
      /\ run' = At(Nowhere, run.state) /\ recorded' = recorded
      /\ turns' = turns /\ paused' = paused /\ abandoned' = abandoned /\ ran' = ran
      /\ signed' = signed /\ reasked' = reasked
  BY DEF HandlerReturns, history
<1>2. /\ Nowhere \in AgentPlace /\ Nowhere # "tool" /\ run.state \in AgentState
      /\ run.state.round >= LastRound
      /\ turns' \in Nat /\ abandoned' \in SUBSET Nat /\ abandoned \subseteq abandoned'
      /\ signed' \in SUBSET {"approve", "deny", "unclear"} /\ signed \subseteq signed'
      /\ reasked' \in BOOLEAN /\ (reasked' => reasked)
  BY <1>1, AgentFacts, AgentAssumption DEF AgentPlace, AgentInv, AgentTypeOK, RunIsSound
<1>3. StateIsSound(run.state, paused \cup abandoned', signed', reasked')
  BY <1>1 DEF AgentInv, RunIsSound, Settled
<1>4. StateFits(Nowhere, run.state, paused \cup abandoned', reasked')
  BY <1>1, <1>2 DEF AgentInv, RunIsSound, Settled, StateFits
<1> QED
  BY <1>1, <1>2, <1>3, <1>4, ArriveInv

(* The model replies: a new round, later than every recorded one, or none.  *)
LEMMA AgentRepliesInv ==
    ASSUME AgentInv, NEW batch \in Batches \cup {<<>>}, AgentReplies(batch)
    PROVE  AgentInv'
<1> DEFINE round == run.state.round + 1
           calls == IF round > MaxRounds THEN <<>>
                    ELSE [i \in DOMAIN batch |-> [round |-> round, what |-> batch[i]]]
           m == [role |-> "assistant", calls |-> calls]
           said == Say(run.state, <<m>>)
           state == [said EXCEPT !.round = round, !.calls = calls]
           node == IF calls = <<>> THEN Nowhere ELSE "tool"
           settled == paused \cup abandoned
<1>1. /\ run.pc = "executing" /\ run.node = "agent"
      /\ run' = At(node, state) /\ recorded' = recorded
      /\ turns' = turns /\ paused' = paused /\ abandoned' = abandoned /\ ran' = ran
      /\ signed' = signed
      /\ reasked' = (reasked /\ (run.state.answer = Nothing
                                   \/ run.state.answer.what \in ToSet(batch)))
  BY DEF AgentReplies
<1>2. /\ run.state \in AgentState /\ round \in Nat /\ round > LastRound
  BY <1>1, AgentFacts DEF AgentInv, RunIsSound
<1>3. batch \in Seq(What)
  <2>1. Batches \subseteq Seq(What)
    BY AgentAssumption
  <2>2. <<>> \in Seq(What)
    OBVIOUS
  <2> QED
    BY <2>1, <2>2
<1>4. /\ calls \in Seq(AgentCall)
      /\ \A i \in DOMAIN calls : calls[i].round = round
      /\ calls # <<>> => DOMAIN calls = DOMAIN batch
                            /\ \A i \in DOMAIN batch : calls[i].what = batch[i]
  <2>1. CASE round > MaxRounds
    BY <2>1
  <2>2. CASE ~(round > MaxRounds)
    <3>1. Len(batch) \in Nat /\ DOMAIN batch = 1 .. Len(batch)
          /\ \A i \in DOMAIN batch : batch[i] \in What
      BY <1>3
    <3>2. calls = [i \in 1 .. Len(batch) |-> [round |-> round, what |-> batch[i]]]
      BY <2>2, <3>1
    <3>3. \A i \in 1 .. Len(batch) : [round |-> round, what |-> batch[i]] \in AgentCall
      BY <1>2, <3>1 DEF AgentCall
    <3> HIDE DEF calls, round
    <3> QED
      BY <3>1, <3>2, <3>3
  <2> QED
    BY <2>1, <2>2
<1> HIDE DEF calls
<1>5. m \in AgentMessage /\ m.role = "assistant" /\ m.calls = calls /\ m.role # "tool"
  BY <1>4 DEF AgentMessage
<1> HIDE DEF m
<1>6. /\ StateIsSound(run.state, settled, signed, reasked)
      /\ Closed(run.state.messages, settled)
  BY <1>1 DEF AgentInv, RunIsSound, StateFits, Settled
<1>7. StateIsSound(run.state, settled, signed', reasked')
  <2>1. settled \subseteq settled /\ signed \subseteq signed' /\ (reasked' => reasked)
    BY <1>1
  <2> HIDE DEF settled
  <2> QED
    BY <1>2, <1>6, <2>1, StaysSound
<1>8. /\ said \in AgentState
      /\ StateIsSound(said, settled, signed', reasked')
      /\ said.messages[Len(run.state.messages) + 1] = m
      /\ Len(said.messages) = Len(run.state.messages) + 1
  <2> HIDE DEF settled
  <2> QED
    BY <1>2, <1>5, <1>6, <1>7, SayOneState
<1>9. said.answer = run.state.answer
  BY <1>2 DEF Say, AgentState
<1> HIDE DEF said
<1>10. /\ state \in AgentState /\ state.messages = said.messages /\ state.round = round
       /\ state.calls = calls /\ state.answer = run.state.answer
       /\ state.answer = said.answer /\ state.approval = said.approval
  BY <1>2, <1>4, <1>8, <1>9 DEF AgentState
<1> HIDE DEF state, round
<1>11. StateIsSound(state, settled, signed', reasked')
  BY <1>4, <1>8, <1>10 DEF StateIsSound
<1>12. StateFits(node, state, settled, reasked')
  <2>1. /\ Len(state.messages) = Len(run.state.messages) + 1
        /\ state.messages[Len(state.messages)] = m
        /\ state.messages # <<>>
    BY <1>2, <1>8, <1>10 DEF AgentState
  <2>2. CASE calls = <<>>
    <3>1. Closed(state.messages, settled)
      BY <1>5, <2>1, <2>2 DEF Closed, MakesCalls
    <3> QED
      BY <2>2, <3>1, AgentAssumption DEF StateFits
  <2>3. CASE calls # <<>>
    <3>1. Open(state)
      BY <1>10, <2>1, <2>3 DEF Open, m
    <3>2. (reasked' /\ state.answer # Nothing) =>
             \E i \in DOMAIN state.calls : state.calls[i].what = state.answer.what
      BY <1>1, <1>3, <1>4, <1>10, <2>3 DEF ToSet
    <3> QED
      BY <2>3, <3>1, <3>2 DEF StateFits
  <2> QED
    BY <2>2, <2>3
<1>13. /\ node \in AgentPlace /\ state.round > LastRound /\ state.round >= LastRound
       /\ turns' \in Nat /\ abandoned' \in SUBSET Nat /\ abandoned \subseteq abandoned'
       /\ signed' \in SUBSET {"approve", "deny", "unclear"} /\ signed \subseteq signed'
       /\ reasked' \in BOOLEAN /\ (reasked' => reasked)
  BY <1>1, <1>2, <1>10, AgentFacts DEF AgentPlace, AgentInv, AgentTypeOK
<1>14. /\ StateIsSound(state, paused \cup abandoned', signed', reasked')
       /\ StateFits(node, state, paused \cup abandoned', reasked')
  BY <1>1, <1>11, <1>12
<1> HIDE DEF node
<1> QED
  BY <1>1, <1>10, <1>13, <1>14, ArriveInv

(* The record of the step about to be taken: what is recorded next is the   *)
(* run's own, of a later round or the same one.                             *)
LEMMA AgentSavesBeforeInv == AgentInv /\ AgentSavesBefore => AgentInv'
<1> SUFFICES ASSUME AgentInv, AgentSavesBefore PROVE AgentInv'
  OBVIOUS
<1>1. /\ run.pc = "top" /\ run.node # Nowhere
      /\ recorded' = AgentRecord(run.node, Nothing, run.state)
      /\ run' = [run EXCEPT !.pc = "executing"]
      /\ turns' = turns /\ paused' = paused /\ abandoned' = abandoned /\ ran' = ran
      /\ signed' = signed /\ reasked' = reasked
  BY DEF AgentSavesBefore, history
<1>2. /\ recorded' \in AgentRecords /\ recorded' # Unrecorded
      /\ recorded'.next = run.node /\ recorded'.asking = Nothing
      /\ recorded'.state = run.state
  <2>1. run.node \in AgentPlace /\ run.state \in AgentState /\ Nothing \in MaybeCall
    BY AgentFacts DEF MaybeCall
  <2> QED
    BY <1>1, <2>1, RecordIs
<1>3. /\ run' \in AgentRuns /\ run'.pc = "executing" /\ run'.node = run.node
      /\ run'.state = run.state
  BY <1>1 DEF AgentInv, AgentTypeOK, AgentRuns
<1>4. /\ Settled' = Settled /\ LastRound' = run.state.round
      /\ run.state.round \in Nat /\ LastRound \in Nat /\ run.state.round >= LastRound
  BY <1>1, <1>2, AgentFacts DEF Settled, LastRound, AgentInv, RunIsSound
<1>5. /\ StateIsSound(run.state, Settled, signed, reasked)
      /\ StateFits(run.node, run.state, Settled, reasked)
      /\ run.node = "tool" =>
            \/ run.state.round > LastRound
            \/ recorded # Unrecorded /\ recorded.next = "tool" /\ recorded.state = run.state
  BY <1>1 DEF AgentInv, RunIsSound
<1>6. /\ \A c \in ran : c.round \in Nat /\ c.round <= LastRound
      /\ \A round \in paused : round \in Nat /\ round <= LastRound
      /\ \A c \in ran : c.round \notin paused
  BY AgentFacts DEF AgentInv, RoundsArePast
<1>7. AgentTypeOK'
  BY <1>1, <1>2, <1>3 DEF AgentInv, AgentTypeOK
<1>8. RecordIsSound'
  <2>1. run.node = "tool" => run.state.round \notin paused
    BY <1>4, <1>5, <1>6 DEF AgentInv, RecordIsSound
  <2> QED
    BY <1>1, <1>2, <1>4, <1>5, <2>1 DEF RecordIsSound
<1>9. RoundsArePast'
  <2>1. (run.node = "tool" /\ WouldPause(run.state)) =>
           \A c \in ran : c.round # run.state.round
    BY <1>4, <1>5, <1>6 DEF AgentInv, RoundsArePast
  <2>2. /\ \A c \in ran : c.round <= run.state.round
        /\ \A round \in paused : round <= run.state.round
    BY <1>4, <1>6
  <2> QED
    BY <1>1, <1>2, <1>4, <1>6, <2>1, <2>2 DEF RoundsArePast
<1>10. RunIsSound'
  BY <1>1, <1>2, <1>3, <1>4, <1>5 DEF RunIsSound
<1>11. ToolsAreSound'
  BY <1>3 DEF ToolsAreSound
<1>12. GatedToolsNeedASignOff'
  BY <1>1 DEF AgentInv, GatedToolsNeedASignOff
<1> QED
  BY <1>7, <1>8, <1>9, <1>10, <1>11, <1>12 DEF AgentInv

(* The run ends, in a record from which nothing is to be done next: what it *)
(* has to show, whether it is done, pauses or leaves for the user.          *)
LEMMA EndInv ==
    ASSUME AgentInv, NEW asking \in MaybeCall, NEW state \in AgentState,
           run' = AgentIdle, recorded' = AgentRecord(Nowhere, asking, state),
           turns' = turns, abandoned' = abandoned, ran' = ran,
           signed' = signed, reasked' = reasked,
           state.round >= LastRound,
           \/ paused' = paused
           \/ paused' = paused \cup {state.round} /\ \A c \in ran : c.round # state.round,
           StateIsSound(state, Settled, signed, reasked),
           Closed(state.messages, Settled')
    PROVE  AgentInv'
<1>1. /\ recorded' \in AgentRecords /\ recorded' # Unrecorded
      /\ recorded'.next = Nowhere /\ recorded'.asking = asking
      /\ recorded'.state = state /\ Nowhere \in AgentPlace /\ Nowhere # "tool"
  BY RecordIs, AgentAssumption DEF AgentPlace
<1>2. /\ state.round \in Nat /\ LastRound' = state.round /\ LastRound \in Nat
      /\ Settled \subseteq Settled' /\ paused' \in SUBSET Nat
  BY <1>1, AgentFacts DEF Settled, LastRound, AgentState
<1>3. AgentTypeOK'
  BY <1>1, <1>2, FreshSound DEF AgentInv, AgentTypeOK
<1>4. StateIsSound(state, Settled', signed', reasked')
  <2>1. StateIsSound(state, Settled', signed, reasked)
    BY <1>2, StaysSound
  <2> QED
    BY <2>1
<1>5. RecordIsSound'
  BY <1>1, <1>4 DEF RecordIsSound, StateFits
<1>6. RoundsArePast'
  <2>1. /\ \A c \in ran : c.round \in Nat /\ c.round <= LastRound
        /\ \A round \in paused : round \in Nat /\ round <= LastRound
        /\ \A c \in ran : c.round \notin paused
    BY AgentFacts DEF AgentInv, RoundsArePast
  <2>2. /\ \A c \in ran' : c.round <= LastRound'
        /\ \A round \in paused' : round <= LastRound'
        /\ \A c \in ran' : c.round \notin paused'
    BY <1>2, <2>1
  <2> QED
    BY <1>1, <2>2 DEF RoundsArePast
<1>7. RunIsSound' /\ ToolsAreSound'
  BY FreshSound, FreshIsSound DEF RunIsSound, ToolsAreSound
<1>8. GatedToolsNeedASignOff'
  BY DEF AgentInv, GatedToolsNeedASignOff
<1> QED
  BY <1>3, <1>5, <1>6, <1>7, <1>8 DEF AgentInv

LEMMA AgentSavesAtEndInv == AgentInv /\ AgentSavesAtEnd => AgentInv'
<1> SUFFICES ASSUME AgentInv, AgentSavesAtEnd PROVE AgentInv'
  OBVIOUS
<1>1. /\ run.pc = "top" /\ run.node = Nowhere /\ run' = AgentIdle
      /\ recorded' = AgentRecord(Nowhere, Nothing, run.state)
      /\ turns' = turns /\ paused' = paused /\ abandoned' = abandoned /\ ran' = ran
      /\ signed' = signed /\ reasked' = reasked
  BY DEF AgentSavesAtEnd, history
<1>2. /\ run.state \in AgentState /\ Nothing \in MaybeCall /\ run.state.round >= LastRound
      /\ StateIsSound(run.state, Settled, signed, reasked)
      /\ Closed(run.state.messages, Settled) /\ Settled' = Settled
  BY <1>1, AgentFacts, AgentAssumption
     DEF MaybeCall, AgentInv, RunIsSound, StateFits, Settled
<1> QED
  BY <1>1, <1>2, EndInv

LEMMA CrashInv == AgentInv /\ Crash => AgentInv'
<1> SUFFICES ASSUME AgentInv, Crash PROVE AgentInv'
  OBVIOUS
<1>1. /\ run' = AgentIdle /\ recorded' = recorded
      /\ turns' = turns /\ paused' = paused /\ abandoned' = abandoned /\ ran' = ran
      /\ signed' = signed /\ reasked' = reasked
  BY DEF Crash, history
<1>2. AgentTypeOK' /\ RecordIsSound' /\ RoundsArePast' /\ GatedToolsNeedASignOff'
  BY <1>1, FreshSound DEF AgentInv, AgentTypeOK, RecordIsSound, RoundsArePast,
     GatedToolsNeedASignOff, Settled, LastRound
<1>3. RunIsSound' /\ ToolsAreSound'
  BY <1>1, FreshSound, FreshIsSound DEF RunIsSound, ToolsAreSound
<1> QED
  BY <1>2, <1>3 DEF AgentInv

(* ToolExec runs on the state that was recorded, and it pauses exactly if a *)
(* question has no answer or a tool is undecided.                           *)
LEMMA AtToolsFacts ==
    ASSUME AgentInv, AtTools
    PROVE  /\ recorded # Unrecorded /\ recorded.next = "tool" /\ recorded.state = run.state
           /\ recorded.asking = Nothing
           /\ LastRound = run.state.round
           /\ StateIsSound(run.state, Settled, signed, reasked)
           /\ Open(run.state)
           /\ (reasked /\ run.state.answer # Nothing) =>
                 \E i \in DOMAIN run.state.calls :
                    run.state.calls[i].what = run.state.answer.what
           /\ run.state.round \notin paused
           /\ WouldPause(run.state) => \A c \in ran : c.round # run.state.round
           /\ (~AnsweredAll \/ Undecided # {}) => WouldPause(run.state)
           /\ \A i \in Asks \cup Undecided \cup Unanswered :
                 i \in DOMAIN run.state.calls /\ run.state.calls[i] \in AgentCall
<1>1. /\ run.pc = "executing" /\ run.node = "tool" /\ run.state \in AgentState
      /\ Nothing \in MaybeCall /\ "tool" \in AgentPlace /\ run.state.calls \in Seq(AgentCall)
  BY AgentFacts DEF AtTools, MaybeCall, AgentPlace
<1>2. recorded = AgentRecord("tool", Nothing, run.state)
  BY <1>1 DEF AgentInv, RunIsSound
<1>3. /\ recorded # Unrecorded /\ recorded.next = "tool" /\ recorded.state = run.state
      /\ recorded.asking = Nothing /\ LastRound = run.state.round
  BY <1>1, <1>2, RecordIs DEF LastRound
<1>4. /\ StateIsSound(run.state, Settled, signed, reasked)
      /\ StateFits("tool", run.state, Settled, reasked)
  BY <1>1 DEF AgentInv, RunIsSound
<1>5. /\ run.state.round \notin paused
      /\ WouldPause(run.state) => \A c \in ran : c.round # run.state.round
  BY <1>3 DEF AgentInv, RecordIsSound, RoundsArePast
<1>6. ~AnsweredAll => WouldPause(run.state)
  <2>1. ~WouldPause(run.state) =>
           Asks = {} \/ (run.state.answer # Nothing /\ Asks = {Min(Asks)})
    BY DEF WouldPause, Asks
  <2> QED
    BY <2>1 DEF AnsweredAll, Unanswered
<1>7. Undecided # {} => WouldPause(run.state)
  BY DEF WouldPause, Undecided, Decision
<1>8. \A i \in Asks \cup Undecided \cup Unanswered :
         i \in DOMAIN run.state.calls /\ run.state.calls[i] \in AgentCall
  BY <1>1 DEF Asks, Undecided, Unanswered
<1> QED
  BY <1>3, <1>4, <1>5, <1>6, <1>7, <1>8 DEF StateFits

LEMMA PauseInv ==
    ASSUME AgentInv, AtTools, WouldPause(run.state), NEW c \in AgentCall,
           NEW state \in AgentState, state \in {run.state, Unasked}, Pause(c, state)
    PROVE  AgentInv'
<1>1. /\ run' = AgentIdle /\ recorded' = AgentRecord(Nowhere, c, state)
      /\ turns' = turns /\ paused' = paused \cup {state.round} /\ abandoned' = abandoned
      /\ ran' = ran /\ signed' = signed /\ reasked' = reasked
  BY DEF Pause
<1>2. /\ run.state \in AgentState /\ run.state.calls \in Seq(AgentCall)
      /\ LastRound \in Nat
  BY AgentFacts
<1>3. /\ state.round = run.state.round /\ state.messages = run.state.messages
      /\ state.calls = run.state.calls /\ state.approval = run.state.approval
      /\ state.answer = run.state.answer \/ state.answer = Nothing
  <2>1. CASE state = run.state
    BY <2>1
  <2>2. CASE state = Unasked
    BY <1>2, <2>2 DEF Unasked, AgentState
  <2> QED
    BY <2>1, <2>2
<1>4. StateIsSound(state, Settled, signed, reasked)
  <2>1. StateIsSound(run.state, Settled, signed, reasked)
    BY AtToolsFacts
  <2> QED
    BY <1>2, <1>3, <2>1, SameMessages
<1>5. Closed(state.messages, Settled')
  <2>1. Open(run.state) /\ run.state.round \in Settled'
    BY <1>1, <1>3, AtToolsFacts DEF Settled
  <2>2. /\ run.state.messages[Len(run.state.messages)].calls = run.state.calls
        /\ Head(run.state.calls).round = run.state.round
    <3>1. \A i \in DOMAIN run.state.calls : run.state.calls[i].round = run.state.round
      BY AtToolsFacts DEF StateIsSound
    <3> QED
      BY <1>2, <2>1, <3>1 DEF Open
  <2> QED
    BY <1>3, <2>1, <2>2 DEF Closed
<1>6. /\ state.round >= LastRound /\ c \in MaybeCall
      /\ \A other \in ran : other.round # state.round
  BY <1>2, <1>3, AtToolsFacts DEF MaybeCall
<1> QED
  BY <1>1, <1>4, <1>5, <1>6, EndInv

LEMMA UnaskedState ==
    ASSUME AgentInv
    PROVE  Unasked \in AgentState
BY AgentFacts DEF Unasked, AgentState, MaybeCall

LEMMA LeastIn ==
    ASSUME NEW numbers \in SUBSET Nat, numbers # {}
    PROVE  Min(numbers) \in numbers
BY FirstExists DEF Min

LEMMA PauseForAnswerInv == AgentInv /\ PauseForAnswer => AgentInv'
<1> SUFFICES ASSUME AgentInv, PauseForAnswer PROVE AgentInv'
  OBVIOUS
<1>1. /\ AtTools /\ ~AnsweredAll
      /\ Pause(run.state.calls[Min(Unanswered)], Unasked)
  BY DEF PauseForAnswer
<1>2. Unanswered \in SUBSET Nat /\ Unanswered # {}
  <2>1. run.state.calls \in Seq(AgentCall)
    BY AgentFacts
  <2>2. Unanswered \subseteq DOMAIN run.state.calls
    BY <1>1, AtToolsFacts
  <2> QED
    BY <1>1, <2>1, <2>2 DEF AnsweredAll
<1>3. run.state.calls[Min(Unanswered)] \in AgentCall
  BY <1>1, <1>2, LeastIn, AtToolsFacts
<1> QED
  BY <1>1, <1>3, AtToolsFacts, UnaskedState, PauseInv

LEMMA PauseForApprovalInv == AgentInv /\ PauseForApproval => AgentInv'
<1> SUFFICES ASSUME AgentInv, PauseForApproval PROVE AgentInv'
  OBVIOUS
<1> DEFINE state == IF Asks = {} THEN run.state ELSE Unasked
<1>1. /\ AtTools /\ Undecided # {}
      /\ Pause(run.state.calls[Min(Undecided)], state)
  BY DEF PauseForApproval
<1>2. Undecided \in SUBSET Nat
  <2>1. run.state.calls \in Seq(AgentCall)
    BY AgentFacts
  <2> QED
    BY <2>1 DEF Undecided
<1>3. run.state.calls[Min(Undecided)] \in AgentCall
  BY <1>1, <1>2, LeastIn, AtToolsFacts
<1>4. state \in AgentState /\ state \in {run.state, Unasked}
  BY AgentFacts, UnaskedState
<1> HIDE DEF state
<1> QED
  BY <1>1, <1>3, <1>4, AtToolsFacts, PauseInv

(* A round starts its tools when it pauses for nobody, so it cannot have    *)
(* paused, and each tool it starts is approved; an answer is taken for the  *)
(* only question asked.                                                     *)
LEMMA StartToolsInv == AgentInv /\ StartTools => AgentInv'
<1> SUFFICES ASSUME AgentInv, StartTools PROVE AgentInv'
  OBVIOUS
<1> DEFINE job(c) == IF c.what \in Question THEN "answer"
                        ELSE IF Decision(c) = "approve" THEN "running" ELSE "denied"
           calls == run.state.calls
           state == IF Asks = {} THEN run.state ELSE Unasked
           reply == IF Asks = {} THEN Nothing ELSE run.state.answer
           jobs == [i \in DOMAIN calls |-> job(calls[i])]
           started == {c \in ToSet(calls) : job(c) = "running"}
<1>1. /\ AtTools /\ AnsweredAll /\ Undecided = {}
      /\ run' = [run EXCEPT !.pc = "tools", !.state = state, !.jobs = jobs, !.reply = reply]
      /\ ran' = ran \cup started
      /\ recorded' = recorded /\ turns' = turns /\ paused' = paused
      /\ abandoned' = abandoned /\ signed' = signed /\ reasked' = reasked
  BY DEF StartTools
<1>2. /\ calls \in Seq(AgentCall) /\ Len(calls) \in Nat /\ DOMAIN calls = 1 .. Len(calls)
      /\ \A i \in DOMAIN calls : calls[i] \in AgentCall
      /\ run.state \in AgentState /\ run.state.answer \in MaybeCall
  BY AgentFacts DEF AgentState
<1>3. jobs \in Seq(JobStatus) /\ DOMAIN jobs = DOMAIN calls
  <2>1. jobs = [i \in 1 .. Len(calls) |-> job(calls[i])]
    BY <1>2
  <2>2. \A i \in 1 .. Len(calls) : job(calls[i]) \in JobStatus
    BY DEF JobStatus
  <2> HIDE DEF jobs, job, calls
  <2> QED
    BY <1>2, <2>1, <2>2
<1>4. /\ state \in AgentState /\ reply \in MaybeCall
      /\ state.round = run.state.round /\ state.messages = run.state.messages
      /\ state.calls = calls /\ state.approval = run.state.approval
      /\ state.answer = run.state.answer \/ state.answer = Nothing
  <2>1. /\ Unasked.round = run.state.round /\ Unasked.messages = run.state.messages
        /\ Unasked.calls = calls /\ Unasked.approval = run.state.approval
        /\ Unasked.answer = Nothing
    BY <1>2 DEF Unasked, AgentState
  <2> QED
    BY <1>2, <2>1, UnaskedState DEF MaybeCall
<1>5. \A c \in started :
         /\ c \in [round : Nat, what : Tool] /\ c.round = run.state.round
         /\ Approver[c.what] # "approve" => "approve" \in signed
  <2> SUFFICES ASSUME NEW c \in started
               PROVE  /\ c \in [round : Nat, what : Tool] /\ c.round = run.state.round
                      /\ Approver[c.what] # "approve" => "approve" \in signed
    OBVIOUS
  <2>1. PICK i \in DOMAIN calls : c = calls[i]
    BY DEF ToSet
  <2>2. c \in AgentCall /\ c.round = run.state.round
    BY <1>1, <1>2, <2>1, AtToolsFacts DEF StateIsSound
  <2>3. c.what \in Tool /\ Decision(c) = "approve"
    BY <2>2 DEF AgentCall, What
  <2>4. run.state.approval = "approve" => "approve" \in signed
    BY <1>1, AtToolsFacts DEF StateIsSound
  <2>5. Approver[c.what] # "approve" => "approve" \in signed
    BY <2>3, <2>4 DEF Decision
  <2> QED
    BY <2>2, <2>3, <2>5 DEF AgentCall
<1>6. \A i \in DOMAIN jobs : jobs[i] = "answer" =>
         /\ calls[i].what \in Question
         /\ reasked => reply # Nothing /\ reply.what = calls[i].what
  <2> SUFFICES ASSUME NEW i \in DOMAIN calls, job(calls[i]) = "answer"
               PROVE  /\ calls[i].what \in Question
                      /\ reasked => reply # Nothing /\ reply.what = calls[i].what
    BY <1>3
  <2>1. calls[i].what \in Question /\ i \in Asks
    BY DEF Asks
  <2>2. run.state.answer # Nothing /\ Asks = {i}
    BY <1>1, <2>1 DEF AnsweredAll, Unanswered
  <2>3. reply = run.state.answer
    BY <2>2
  <2>4. ASSUME reasked PROVE reply.what = calls[i].what
    <3>1. PICK k \in DOMAIN calls : calls[k].what = run.state.answer.what
      BY <1>1, <2>2, <2>4, AtToolsFacts
    <3>2. run.state.answer.what \in Question
      BY <1>1, <2>2, AtToolsFacts DEF StateIsSound
    <3>3. k \in Asks
      BY <3>1, <3>2 DEF Asks
    <3> QED
      BY <2>2, <2>3, <3>1, <3>3
  <2> QED
    BY <2>1, <2>2, <2>3, <2>4
<1>7. /\ run' \in AgentRuns /\ run'.pc = "tools" /\ run'.state = state
      /\ run'.jobs = jobs /\ run'.reply = reply
  BY <1>1, <1>3, <1>4 DEF AgentInv, AgentTypeOK, AgentRuns
<1> HIDE DEF job, calls, state, reply, jobs, started
<1>8. AgentTypeOK'
  BY <1>1, <1>5, <1>7 DEF AgentInv, AgentTypeOK
<1>9. RecordIsSound' /\ LastRound' = LastRound /\ Settled' = Settled
  BY <1>1 DEF AgentInv, RecordIsSound, LastRound, Settled
<1>10. RoundsArePast'
  <2>1. \A c \in ran' : c.round <= LastRound /\ c.round \notin paused
    BY <1>1, <1>2, <1>5, AtToolsFacts, AgentFacts DEF AgentInv, RoundsArePast
  <2>2. ~WouldPause(run.state)
    <3>1. Asks = {} \/ (run.state.answer # Nothing /\ Asks = {Min(Asks)})
      BY <1>1 DEF AnsweredAll, Unanswered
    <3> QED
      BY <1>1, <3>1 DEF WouldPause, Asks, Undecided, Decision
  <2> QED
    BY <1>1, <1>9, <2>1, <2>2, AtToolsFacts DEF AgentInv, RoundsArePast
<1>11. RunIsSound'
  <2>1. StateIsSound(run.state, Settled, signed, reasked)
    BY <1>1, AtToolsFacts
  <2>2. StateIsSound(state, Settled, signed, reasked)
    BY <1>2, <1>4, <2>1, SameMessages DEF calls
  <2> QED
    BY <1>1, <1>2, <1>4, <1>7, <1>9, <2>2, AtToolsFacts, AgentFacts DEF RunIsSound
<1>12. ToolsAreSound'
  <2>1. Open(state)
    BY <1>1, <1>4, AtToolsFacts DEF Open, calls
  <2> QED
    BY <1>1, <1>3, <1>4, <1>6, <1>7, <2>1, AtToolsFacts DEF ToolsAreSound
<1>13. GatedToolsNeedASignOff'
  BY <1>1, <1>5 DEF AgentInv, GatedToolsNeedASignOff
<1> QED
  BY <1>8, <1>9, <1>10, <1>11, <1>12, <1>13 DEF AgentInv

LEMMA ToolEndsInv ==
    ASSUME AgentInv, NEW i \in DOMAIN run.jobs, NEW outcome \in {"output", "error"},
           ToolEnds(i, outcome)
    PROVE  AgentInv'
<1>1. /\ run.pc = "tools" /\ run' = [run EXCEPT !.jobs[i] = outcome]
      /\ recorded' = recorded
      /\ turns' = turns /\ paused' = paused /\ abandoned' = abandoned /\ ran' = ran
      /\ signed' = signed /\ reasked' = reasked
  BY DEF ToolEnds, history
<1>2. /\ run'.pc = "tools" /\ run'.state = run.state /\ run'.reply = run.reply
      /\ run'.node = run.node /\ run'.jobs = [run.jobs EXCEPT ![i] = outcome]
      /\ run' \in AgentRuns
  <2>1. [run.jobs EXCEPT ![i] = outcome] \in Seq(JobStatus)
    BY AgentFacts DEF JobStatus
  <2> QED
    BY <1>1, <2>1 DEF AgentInv, AgentTypeOK, AgentRuns
<1>3. /\ DOMAIN run'.jobs = DOMAIN run.jobs
      /\ \A k \in DOMAIN run.jobs : run'.jobs[k] = "answer" => run.jobs[k] = "answer"
  BY <1>2
<1>4. LastRound' = LastRound /\ Settled' = Settled
  BY <1>1 DEF LastRound, Settled
<1>5. AgentTypeOK' /\ RecordIsSound' /\ RoundsArePast' /\ GatedToolsNeedASignOff'
  BY <1>1, <1>2, <1>4 DEF AgentInv, AgentTypeOK, RecordIsSound, RoundsArePast,
     GatedToolsNeedASignOff
<1>6. RunIsSound'
  BY <1>1, <1>2, <1>4 DEF AgentInv, RunIsSound
<1>7. ToolsAreSound'
  BY <1>1, <1>2, <1>3 DEF AgentInv, ToolsAreSound
<1> QED
  BY <1>5, <1>6, <1>7 DEF AgentInv

LEMMA ToolExecFailsInv == AgentInv /\ ToolExecFails => AgentInv'
<1> SUFFICES ASSUME AgentInv, ToolExecFails PROVE AgentInv'
  OBVIOUS
<1> DEFINE state == run.state
<1>1. /\ run.pc = "tools" /\ recorded' = AgentRecord("handler", Nothing, state)
      /\ run' = At("handler", state)
      /\ abandoned' = abandoned \cup {state.round}
      /\ turns' = turns /\ paused' = paused /\ ran' = ran
      /\ signed' = signed /\ reasked' = reasked
  BY DEF ToolExecFails
<1>2. /\ "handler" \in AgentPlace /\ "handler" # "tool" /\ state \in AgentState
      /\ state.round >= LastRound /\ state.calls \in Seq(AgentCall)
      /\ turns' \in Nat /\ abandoned' \in SUBSET Nat /\ abandoned \subseteq abandoned'
      /\ signed' \in SUBSET {"approve", "deny", "unclear"} /\ signed \subseteq signed'
      /\ reasked' \in BOOLEAN /\ (reasked' => reasked)
  BY <1>1, AgentFacts DEF AgentPlace, AgentInv, AgentTypeOK, RunIsSound
<1>3. StateIsSound(state, Settled, signed, reasked) /\ Open(state)
  BY <1>1 DEF AgentInv, RunIsSound, ToolsAreSound
<1>4. Head(state.calls).round = state.round
  BY <1>2, <1>3 DEF StateIsSound, Open
<1> HIDE DEF state
<1>5. StateIsSound(state, paused \cup abandoned', signed', reasked')
  <2>1. Settled \subseteq paused \cup abandoned'
    BY <1>1 DEF Settled
  <2>2. StateIsSound(state, paused \cup abandoned', signed, reasked)
    BY <1>2, <1>3, <2>1, StaysSound
  <2> QED
    BY <1>1, <2>2
<1>6. StateFits("handler", state, paused \cup abandoned', reasked')
  BY <1>1, <1>3, <1>4 DEF StateFits, Open, Closed
<1>7. \/ recorded' = recorded
      \/ "handler" # "tool" /\ recorded' = AgentRecord("handler", Nothing, state)
  BY <1>1
<1> QED
  BY <1>1, <1>2, <1>5, <1>6, <1>7, ArriveInv

(* The results of the round: one for each call, in whatever order, follow   *)
(* the message that made them.                                              *)
LEMMA ResultsComplete ==
    ASSUME NEW messages \in Seq(AgentMessage), NEW results \in Seq(AgentMessage),
           NEW settled, messages # <<>>, results # <<>>,
           AnsweredSoFar(messages, settled),
           MakesCalls(messages[Len(messages)]),
           Len(results) = Len(messages[Len(messages)].calls),
           \A i \in DOMAIN results : results[i].role = "tool",
           {results[i].call : i \in DOMAIN results} = ToSet(messages[Len(messages)].calls)
    PROVE  /\ AnsweredSoFar(messages \o results, settled)
           /\ Closed(messages \o results, settled)
<1> DEFINE longer == messages \o results
           n == Len(messages)
<1>1. /\ Len(longer) = n + Len(results) /\ n \in Nat /\ Len(results) \in Nat
      /\ n > 0 /\ Len(results) > 0
      /\ \A i \in DOMAIN messages : longer[i] = messages[i]
      /\ \A i \in DOMAIN results : longer[n + i] = results[i]
      /\ DOMAIN results = 1 .. Len(results) /\ DOMAIN messages = 1 .. n
      /\ DOMAIN longer = 1 .. n + Len(results)
  <2>1. /\ n \in Nat /\ Len(results) \in Nat /\ n > 0 /\ Len(results) > 0
        /\ DOMAIN results = 1 .. Len(results) /\ DOMAIN messages = 1 .. n
    OBVIOUS
  <2>2. /\ longer \in Seq(AgentMessage) /\ Len(longer) = n + Len(results)
        /\ \A i \in DOMAIN messages : longer[i] = messages[i]
        /\ \A i \in DOMAIN results : longer[n + i] = results[i]
    BY SaidMessages
  <2> HIDE DEF longer, n
  <2>3. DOMAIN longer = 1 .. n + Len(results)
    BY <2>2
  <2> QED
    BY <2>1, <2>2, <2>3
<1>2. \A i \in n + 1 .. n + Len(results) :
         longer[i].role = "tool" /\ i - n \in DOMAIN results /\ longer[i] = results[i - n]
  <2> SUFFICES ASSUME NEW i \in n + 1 .. n + Len(results)
               PROVE  longer[i].role = "tool" /\ i - n \in DOMAIN results
                      /\ longer[i] = results[i - n]
    OBVIOUS
  <2>1. i - n \in 1 .. Len(results) /\ n + (i - n) = i
    BY <1>1
  <2>2. i - n \in DOMAIN results
    BY <1>1, <2>1
  <2>3. longer[n + (i - n)] = results[i - n] /\ results[i - n].role = "tool"
    BY <1>1, <2>2
  <2> QED
    BY <2>1, <2>2, <2>3
<1> HIDE DEF longer
<1>3. ASSUME NEW i \in DOMAIN longer, MakesCalls(longer[i]),
             Head(longer[i].calls).round \notin settled
      PROVE  ResultsFollow(longer, i)
  <2>1. i \in DOMAIN messages /\ longer[i] = messages[i]
    <3>1. longer[i].role # "tool"
      BY <1>3 DEF MakesCalls
    <3> QED
      BY <1>1, <1>2, <3>1
  <2>2. CASE i < n
    <3>1. ResultsFollow(messages, i)
      BY <1>3, <2>1, <2>2 DEF AnsweredSoFar
    <3> QED
      BY <1>3, <2>1, <3>1, ResultsStay DEF longer
  <2>3. CASE i = n
    <3> DEFINE calls == longer[i].calls
               places == i + 1 .. i + Len(calls)
    <3>1. calls = messages[n].calls /\ Len(calls) = Len(results)
      BY <2>1, <2>3
    <3>2. places = n + 1 .. n + Len(results)
      BY <2>3, <3>1
    <3>3. {longer[j].call : j \in places} = {results[k].call : k \in DOMAIN results}
      <4>1. \A j \in places : j - n \in DOMAIN results /\ longer[j] = results[j - n]
        BY <1>2, <3>2
      <4>2. \A k \in DOMAIN results : n + k \in places /\ longer[n + k] = results[k]
        BY SMTT(40), <1>1, <3>2
      <4> HIDE DEF places
      <4>3. ASSUME NEW x \in {longer[j].call : j \in places}
            PROVE  x \in {results[k].call : k \in DOMAIN results}
        BY <4>1
      <4>4. ASSUME NEW x \in {results[k].call : k \in DOMAIN results}
            PROVE  x \in {longer[j].call : j \in places}
        BY <4>2
      <4> QED
        BY <4>3, <4>4
    <3>4. \A j \in places : longer[j].role = "tool"
      BY <1>2, <3>2
    <3>5. i + Len(calls) <= Len(longer)
      BY <1>1, <2>3, <3>1
    <3> QED
      BY <3>1, <3>3, <3>4, <3>5 DEF ResultsFollow
  <2> QED
    BY <1>1, <2>1, <2>2, <2>3
<1>4. AnsweredSoFar(longer, settled)
  BY <1>3 DEF AnsweredSoFar
<1>5. Closed(longer, settled)
  BY SMTT(40), <1>1, <1>2 DEF Closed, MakesCalls
<1> QED
  BY <1>4, <1>5 DEF longer

LEMMA ToolExecReturnsInv == AgentInv /\ ToolExecReturns => AgentInv'
<1> SUFFICES ASSUME AgentInv, ToolExecReturns PROVE AgentInv'
  OBVIOUS
<1> DEFINE jobs == run.jobs
           calls == run.state.calls
           messages == run.state.messages
<1>1. PICK order \in Bijection(DOMAIN jobs, DOMAIN jobs) :
         run' = At("agent", [Say(run.state, [i \in DOMAIN jobs |-> ToolMessage(order[i])])
                               EXCEPT !.calls = <<>>])
  BY DEF ToolExecReturns
<1> DEFINE results == [i \in DOMAIN jobs |-> ToolMessage(order[i])]
           said == Say(run.state, results)
           state == [said EXCEPT !.calls = <<>>]
<1>2. run' = At("agent", state)
  BY <1>1
<1>3. /\ run.pc = "tools" /\ recorded' = recorded
      /\ turns' = turns /\ paused' = paused /\ abandoned' = abandoned /\ ran' = ran
      /\ signed' = signed /\ reasked' = reasked
  BY DEF ToolExecReturns, history
<1>4. /\ run.state \in AgentState /\ calls \in Seq(AgentCall) /\ jobs \in Seq(JobStatus)
      /\ run.reply \in MaybeCall /\ messages \in Seq(AgentMessage)
      /\ DOMAIN jobs = DOMAIN calls /\ Len(calls) \in Nat /\ DOMAIN calls = 1 .. Len(calls)
      /\ Open(run.state) /\ StateIsSound(run.state, Settled, signed, reasked)
      /\ \A i \in DOMAIN jobs : (jobs[i] = "answer" /\ reasked) =>
            run.reply # Nothing /\ run.reply.what = calls[i].what
  BY <1>3, AgentFacts DEF AgentInv, RunIsSound, ToolsAreSound
<1>5. /\ \A i \in DOMAIN jobs : order[i] \in DOMAIN jobs
      /\ \A k \in DOMAIN jobs : \E i \in DOMAIN jobs : order[i] = k
  BY <1>1 DEF Bijection, Injection, Surjection
<1>6. \A k \in DOMAIN jobs :
         /\ ToolMessage(k) \in AgentMessage /\ ToolMessage(k).role = "tool"
         /\ ToolMessage(k).call = calls[k]
         /\ ToolMessage(k).result.kind = "answer" =>
               jobs[k] = "answer" /\ ToolMessage(k).result.to = run.reply
  <2> SUFFICES ASSUME NEW k \in DOMAIN jobs
               PROVE  /\ ToolMessage(k) \in AgentMessage /\ ToolMessage(k).role = "tool"
                      /\ ToolMessage(k).call = calls[k]
                      /\ ToolMessage(k).result.kind = "answer" =>
                            jobs[k] = "answer" /\ ToolMessage(k).result.to = run.reply
    OBVIOUS
  <2>1. calls[k] \in AgentCall /\ jobs[k] \in JobStatus
    BY <1>4
  <2>2. (IF jobs[k] = "answer" THEN run.reply ELSE Nothing) \in MaybeCall
    BY <1>4 DEF MaybeCall
  <2> QED
    BY <2>1, <2>2 DEF ToolMessage, AgentMessage
<1> HIDE DEF jobs, calls, messages
<1>7. /\ results \in Seq(AgentMessage) /\ DOMAIN results = DOMAIN calls
      /\ Len(results) = Len(calls)
      /\ \A i \in DOMAIN results : results[i] = ToolMessage(order[i])
  <2>1. results = [i \in 1 .. Len(calls) |-> ToolMessage(order[i])]
    BY <1>4
  <2>2. \A i \in 1 .. Len(calls) : ToolMessage(order[i]) \in AgentMessage
    BY <1>4, <1>5, <1>6
  <2> HIDE DEF results
  <2> QED
    BY <1>4, <2>1, <2>2
<1> HIDE DEF results
<1>8. /\ messages # <<>> /\ MakesCalls(messages[Len(messages)])
      /\ messages[Len(messages)].calls = calls /\ calls # <<>>
  BY <1>4 DEF Open, MakesCalls, calls, messages
<1>9. {results[i].call : i \in DOMAIN results} = ToSet(calls)
  <2>1. \A i \in DOMAIN results : results[i].call = calls[order[i]] /\ order[i] \in DOMAIN calls
    BY SMTT(40), <1>4, <1>5, <1>6, <1>7
  <2>2. ASSUME NEW k \in DOMAIN calls PROVE \E i \in DOMAIN results : results[i].call = calls[k]
    <3>1. k \in DOMAIN jobs
      BY <1>4
    <3>2. PICK i \in DOMAIN jobs : order[i] = k
      BY <1>5, <3>1
    <3>3. i \in DOMAIN results
      BY <1>4, <1>7
    <3> QED
      BY <2>1, <3>2, <3>3
  <2>3. ASSUME NEW x \in {results[i].call : i \in DOMAIN results} PROVE x \in ToSet(calls)
    BY <2>1 DEF ToSet
  <2>4. ASSUME NEW x \in ToSet(calls) PROVE x \in {results[i].call : i \in DOMAIN results}
    BY <2>2 DEF ToSet
  <2> QED
    BY <2>3, <2>4
<1>10. /\ said = [run.state EXCEPT !.messages = messages \o results]
      /\ messages \o results \in Seq(AgentMessage)
  BY <1>4, <1>7, SaidMessages DEF Say, messages
<1> HIDE DEF results
<1>11. /\ said \in AgentState /\ said.messages = messages \o results
       /\ said.round = run.state.round
       /\ said.answer = run.state.answer /\ said.approval = run.state.approval
  BY <1>4, <1>10 DEF AgentState
<1> HIDE DEF said
<1>12. <<>> \in Seq(AgentCall)
  OBVIOUS
<1>13. /\ state \in AgentState /\ state.messages = messages \o results
       /\ state.calls = <<>> /\ state.round = run.state.round
       /\ state.answer = run.state.answer /\ state.approval = run.state.approval
  BY <1>11, <1>12 DEF AgentState
<1> HIDE DEF state
<1>14. /\ AnsweredSoFar(state.messages, Settled) /\ Closed(state.messages, Settled)
  <2>1. AnsweredSoFar(messages, Settled)
    BY <1>4 DEF StateIsSound, messages
  <2>2. results # <<>>
    BY <1>4, <1>7, <1>8
  <2>3. \A i \in DOMAIN results : results[i].role = "tool"
    BY SMTT(40), <1>4, <1>5, <1>6, <1>7
  <2> QED
    BY <1>4, <1>7, <1>8, <1>9, <1>13, <2>1, <2>2, <2>3, ResultsComplete
<1>15. reasked => AnswersMatch(state.messages)
  <2> SUFFICES ASSUME reasked, NEW i \in DOMAIN (messages \o results),
                      (messages \o results)[i].role = "tool",
                      (messages \o results)[i].result.kind = "answer"
               PROVE  (messages \o results)[i].result.to.what
                        = (messages \o results)[i].call.what
    BY <1>13 DEF AnswersMatch
  <2>1. CASE i \in DOMAIN messages
    <3>1. (messages \o results)[i] = messages[i] /\ AnswersMatch(messages)
      BY <1>4, <1>7, <2>1, SaidMessages DEF StateIsSound, messages
    <3> QED
      BY <2>1, <3>1 DEF AnswersMatch
  <2>2. CASE i - Len(messages) \in DOMAIN results
    <3> DEFINE k == i - Len(messages)
    <3>1. (messages \o results)[i] = results[k]
      <4>1. i = Len(messages) + k
        BY <1>4, <1>7
      <4> QED
        BY <1>4, <1>7, <2>2, <4>1, SaidMessages
    <3>2. results[k] = ToolMessage(order[k]) /\ order[k] \in DOMAIN jobs
      BY <1>4, <1>5, <1>7, <2>2
    <3> HIDE DEF k
    <3> QED
      BY <1>4, <1>6, <3>1, <3>2
  <2> QED
    BY <1>4, <1>7, <2>1, <2>2, SaidMessages
<1>16. StateIsSound(state, Settled, signed, reasked)
  BY <1>4, <1>13, <1>14, <1>15 DEF StateIsSound
<1>17. /\ "agent" \in AgentPlace /\ state.round >= LastRound
       /\ turns' \in Nat /\ abandoned' \in SUBSET Nat /\ abandoned \subseteq abandoned'
       /\ signed' \in SUBSET {"approve", "deny", "unclear"} /\ signed \subseteq signed'
       /\ reasked' \in BOOLEAN /\ (reasked' => reasked)
  BY <1>3, <1>13, AgentFacts DEF AgentPlace, AgentInv, AgentTypeOK, RunIsSound
<1>18. /\ StateIsSound(state, paused \cup abandoned', signed', reasked')
       /\ StateFits("agent", state, paused \cup abandoned', reasked')
  BY <1>3, <1>14, <1>16 DEF Settled, StateFits
<1> QED
  BY <1>3, <1>13, <1>2, <1>17, <1>18, ArriveInv

LEMMA AgentNextInv == AgentInv /\ [AgentNext]_agentVars => AgentInv'
<1> SUFFICES ASSUME AgentInv, [AgentNext]_agentVars PROVE AgentInv'
  OBVIOUS
<1>1. ASSUME NEW said \in {"approve", "deny", "unclear"}, AnswerApproval(said)
      PROVE  AgentInv'
  BY <1>1, AnswerApprovalInv
<1>2. ASSUME NEW batch \in Batches \cup {<<>>}, AgentReplies(batch) PROVE AgentInv'
  BY <1>2, AgentRepliesInv
<1>3. ASSUME NEW i \in DOMAIN run.jobs, NEW outcome \in {"output", "error"},
             ToolEnds(i, outcome)
      PROVE  AgentInv'
  BY <1>3, ToolEndsInv
<1>4. CASE UNCHANGED agentVars
  BY <1>4 DEF agentVars, AgentInv, AgentTypeOK, RecordIsSound, RoundsArePast, RunIsSound,
     ToolsAreSound, GatedToolsNeedASignOff, LastRound, Settled
<1> QED
  BY <1>1, <1>2, <1>3, <1>4, HearUserInv, RerunInv, AnswerQuestionInv, AgentSavesBeforeInv,
     AgentSavesAtEndInv, HandlerReturnsInv, PauseForAnswerInv, PauseForApprovalInv,
     StartToolsInv, ToolExecFailsInv, ToolExecReturnsInv, CrashInv DEF AgentNext, Step

(* As long as the operator has approved nothing, ToolExec starts no tool    *)
(* that the approver does not approve itself, whatever the rounds, pauses,  *)
(* answers and crashes before.                                              *)
THEOREM AgentToolsAreGated == AgentSpec => []GatedToolsNeedASignOff
<1>1. AgentInv => GatedToolsNeedASignOff
  BY DEF AgentInv
<1> QED
  BY <1>1, AgentInitInv, AgentNextInv, PTL DEF AgentSpec

(* In every message list the agent keeps or records, a round of tool calls  *)
(* that neither paused nor was given up is followed by its results, an      *)
(* answer reaches its question if the model asks again, and a paused round  *)
(* has run no tool.                                                         *)
THEOREM AgentRoundsAreWhole == AgentSpec => []RoundsAreWhole
<1>1. AgentInv => RoundsAreWhole
  <2> SUFFICES ASSUME AgentInv PROVE RoundsAreWhole
    OBVIOUS
  <2>1. \A messages \in Histories :
           AnsweredSoFar(messages, Settled) /\ (reasked => AnswersMatch(messages))
    BY DEF Histories, AgentInv, RecordIsSound, RunIsSound, StateIsSound
  <2>2. RequestsAreAnswered
    BY <2>1 DEF RequestsAreAnswered, AnsweredSoFar, ResultsFollow, MakesCalls, Settled
  <2>3. AnswersReachTheirQuestion
    BY <2>1 DEF AnswersReachTheirQuestion, AnswersMatch
  <2>4. PausedRoundRunsNothing
    BY DEF AgentInv, RoundsArePast, PausedRoundRunsNothing
  <2> QED
    BY <2>2, <2>3, <2>4 DEF RoundsAreWhole
<1> QED
  BY <1>1, AgentInitInv, AgentNextInv, PTL DEF AgentSpec

-----------------------------------------------------------------------------
(* StreamedTurn: the turn of the last message, its worker thread and its   *)
(* endpoint.                                                               *)

StrSpec == StrInit /\ [][StrNext]_strVars

StreamEvent == {"node_end", "interrupt", "interrupted", "ok", "error", "none"}
StrRow == [exists : BOOLEAN, messages : Seq([role : {"user", "assistant"}, turn : Post]),
           paused : BOOLEAN, next : {"none", "agent", "finish"}]
StrLocals ==
    [pc : {"unsent", "preparing", "seeding", "extending", "begin", "saveTop", "running",
           "savePause", "saveEnd", "over"},
     resume : BOOLEAN, row : StrRow,
     save : [stage : {"none", "queued", "started", "done"}, row : StrRow],
     queue : Seq(StreamEvent), seen : Seq(StreamEvent),
     client : {"none", "listening", "replying", "done", "gone"}, reply : Nat]

StrTypeOK ==
    /\ session \in StrRow
    /\ stream \in [Post -> StrLocals]
    /\ posted \in 0..MaxPosts
    /\ disturbed \in BOOLEAN

(* Only the last message has a listener; those to come have nothing.        *)
OneListener ==
    \A t \in Post : /\ t # posted => ~Attached(t)
                    /\ t > posted => stream[t] = NewStream

IsTold(local, event) == \/ \E i \in DOMAIN local.seen : local.seen[i] = event
                        \/ \E i \in DOMAIN local.queue : local.queue[i] = event

(* The end of a good run is the last event but the None.                    *)
InOrder(local) ==
    /\ \A i \in DOMAIN local.queue : local.queue[i] = "ok" => Len(local.queue) = i + 1 /\ local.queue[i + 1] = "none"
    /\ \A i \in DOMAIN local.seen : local.seen[i] = "ok" =>
         /\ i = Len(local.seen)
         /\ \A j \in DOMAIN local.queue : j = 1 /\ local.queue[j] = "none"
    /\ local.pc # "over" => ~IsTold(local, "ok") /\ ~IsTold(local, "interrupt")
    /\ local.client = "gone" => local.queue = <<>>

EventsAreInOrder == \A t \in Post : InOrder(stream[t])

EndsWith(row, role, t) ==
    /\ Len(row.messages) > 0
    /\ row.messages[Len(row.messages)] = SaidIn(role, t)

(* What is known of the turn of the last message, as long as no earlier one *)
(* has saved.                                                               *)
Seeded(row, t) == row.exists /\ row.next = "agent" /\ EndsWith(row, "user", t)

StreamSaving == {"extending", "saveTop", "savePause", "saveEnd"}

Proceeds(local, row, t) ==
    /\ local.pc = "preparing" /\ local.resume => row.exists /\ row.paused
    /\ local.pc = "seeding" => ~local.resume
    /\ local.pc = "extending" => ~local.resume /\ Seeded(local.row, t)
    /\ local.pc = "begin" =>
         IF local.resume THEN row.exists /\ row.paused
         ELSE Seeded(IF row.exists THEN row ELSE local.row, t)
    /\ local.pc \in {"saveTop", "running"} =>
         /\ local.row.exists
         /\ local.row.next = "finish" \/ Seeded(local.row, t)
    /\ local.pc = "savePause" =>
         local.row.exists /\ local.row.paused /\ EndsWith(local.row, "user", t)
    /\ local.pc = "saveEnd" => local.row.exists /\ EndsWith(local.row, "assistant", t)
    /\ local.pc \in StreamSaving => local.save.row = local.row
    /\ local.pc \in StreamSaving /\ local.save.stage = "done" => row = local.row
    /\ local.pc \notin StreamSaving /\ local.pc # "over" => local.save = NoSave
    /\ local.save.stage # "none" => local.save.row.exists
    /\ IsTold(local, "interrupt") => local.save = NoSave /\ row.paused /\ EndsWith(row, "user", t)
    /\ IsTold(local, "ok") => local.save = NoSave /\ EndsWith(row, "assistant", t)

TurnProceeds ==
    ~disturbed => /\ session.paused => session.exists
                  /\ posted > 0 => Proceeds(stream[posted], session, posted)

RepliesAreSent ==
    endpoint # "server" /\ ~disturbed =>
        \A t \in Post : stream[t].client = "done" /\ (\E i \in DOMAIN stream[t].seen : stream[t].seen[i] = "ok")
                          => stream[t].reply = t

StrInv == StrTypeOK /\ OneListener /\ EventsAreInOrder /\ TurnProceeds /\ RepliesAreSent

-----------------------------------------------------------------------------
(* A turn on its way. *)

LEMMA StreamedIsTyped == StrInv => /\ session \in StrRow /\ posted \in Nat /\ posted <= MaxPosts
                                     /\ \A t \in Post : stream[t] \in StrLocals
  BY StreamedTurnAssumption DEF StrInv, StrTypeOK, Post

(* A turn that has begun is one that was posted. *)
LEMMA BegunIsPosted ==
    ASSUME StrInv, NEW t \in Post,
           stream[t].pc # "unsent" \/ stream[t].client # "none"
    PROVE  t <= posted
<1>1. posted \in Nat /\ t \in Nat
  BY StreamedIsTyped, StreamedTurnAssumption DEF Post
<1>2. t > posted => stream[t] = NewStream
  BY DEF StrInv, OneListener
<1>3. NewStream.pc = "unsent" /\ NewStream.client = "none"
  BY DEF NewStream
<1> QED
  BY <1>1, <1>2, <1>3

(* One turn moves; the session and the other turns are as before. *)
LEMMA StreamMoves ==
    ASSUME StrInv, NEW t \in Post, t <= posted, NEW local \in StrLocals, Moves(t, local),
           local.client \in {"listening", "replying"} => Attached(t),
           InOrder(local),
           ~disturbed /\ t = posted => Proceeds(local, session, t),
           endpoint # "server" /\ ~disturbed /\ local.client = "done"
             /\ (\E i \in DOMAIN local.seen : local.seen[i] = "ok") => local.reply = t
    PROVE  StrInv'
<1>0. StrTypeOK /\ OneListener /\ EventsAreInOrder /\ TurnProceeds /\ RepliesAreSent
  BY DEF StrInv
<1>1. session' = session /\ posted' = posted /\ endpoint' = endpoint
  BY DEF Moves
<1>2. disturbed' = disturbed
  BY DEF Moves
<1>3. stream' = [stream EXCEPT ![t] = local]
  BY DEF Moves
<1>4. stream \in [Post -> StrLocals] /\ posted \in Nat /\ t \in Nat
  BY <1>0, StreamedTurnAssumption DEF StrTypeOK, Post
<1>5. stream'[t] = local /\ \A u \in Post : u # t => stream'[u] = stream[u]
  BY <1>3, <1>4
<1>6. StrTypeOK'
  BY <1>0, <1>1, <1>2, <1>3, <1>4 DEF StrTypeOK
<1>7. OneListener'
  <2> SUFFICES ASSUME NEW u \in Post
               PROVE  /\ u # posted => stream'[u].client \notin {"listening", "replying"}
                      /\ u > posted => stream'[u] = NewStream
    BY <1>1 DEF OneListener, Attached
  <2>1. u # posted => stream[u].client \notin {"listening", "replying"}
    BY <1>0 DEF OneListener, Attached
  <2>2. u > posted => stream[u] = NewStream /\ u # t
    BY <1>0, <1>4 DEF OneListener
  <2> QED
    BY <1>5, <2>1, <2>2 DEF Attached
<1>8. EventsAreInOrder'
  <2> SUFFICES ASSUME NEW u \in Post PROVE InOrder(stream'[u])
    BY DEF EventsAreInOrder
  <2>1. InOrder(stream[u])
    BY <1>0 DEF EventsAreInOrder
  <2> QED
    BY <1>5, <2>1
<1>9. TurnProceeds'
  <2> SUFFICES ASSUME ~disturbed
               PROVE  /\ session.paused => session.exists
                      /\ posted > 0 => Proceeds(stream'[posted], session, posted)
    BY <1>1, <1>2 DEF TurnProceeds
  <2>1. session.paused => session.exists
    BY <1>0 DEF TurnProceeds
  <2>2. posted > 0 => Proceeds(stream[posted], session, posted)
    BY <1>0 DEF TurnProceeds
  <2>3. posted > 0 => posted \in Post
    BY <1>0 DEF StrTypeOK, Post
  <2> QED
    BY <2>1, <2>2, <2>3, <1>5
<1>10. RepliesAreSent'
  <2> SUFFICES ASSUME endpoint # "server", ~disturbed, NEW u \in Post, stream'[u].client = "done",
                      NEW i \in DOMAIN stream'[u].seen, stream'[u].seen[i] = "ok"
               PROVE  stream'[u].reply = u
    BY <1>1, <1>2 DEF RepliesAreSent
  <2>1. CASE u = t
    BY <2>1, <1>5
  <2>2. CASE u # t
    BY <2>2, <1>0, <1>5 DEF RepliesAreSent
  <2> QED
    BY <2>1, <2>2
<1> QED
  BY <1>6, <1>7, <1>8, <1>9, <1>10 DEF StrInv

(* A turn on its way, of which the client hears nothing. *)
LEMMA QuietMove ==
    ASSUME StrInv, NEW t \in Post, stream[t].pc \notin {"unsent", "over"},
           NEW local \in StrLocals, Moves(t, local),
           local.queue = stream[t].queue, local.seen = stream[t].seen,
           local.client = stream[t].client, local.reply = stream[t].reply,
           ~disturbed /\ t = posted => Proceeds(local, session, t)
    PROVE  StrInv'
<1>1. t <= posted
  BY BegunIsPosted
<1>2. InOrder(stream[t])
  BY DEF StrInv, EventsAreInOrder
<1>3. InOrder(local)
  BY <1>2 DEF InOrder, IsTold
<1>4. endpoint # "server" /\ ~disturbed /\ local.client = "done"
        /\ (\E i \in DOMAIN local.seen : local.seen[i] = "ok") => local.reply = t
  BY DEF StrInv, RepliesAreSent
<1>5. local.client \in {"listening", "replying"} => Attached(t)
  BY DEF Attached
<1> QED
  BY <1>1, <1>3, <1>4, <1>5, StreamMoves

(* What is known of a turn on its way. *)
LEMMA OnItsWay ==
    ASSUME StrInv, NEW t \in Post, stream[t].pc \notin {"unsent", "over"}
    PROVE  /\ stream[t] \in StrLocals /\ session \in StrRow /\ t \in Nat
           /\ ~IsTold(stream[t], "ok") /\ ~IsTold(stream[t], "interrupt")
           /\ ~disturbed /\ t = posted => /\ Proceeds(stream[t], session, t)
                                          /\ session.paused => session.exists
<1>1. stream[t] \in StrLocals /\ session \in StrRow /\ t \in Nat
  BY StreamedIsTyped DEF Post
<1>2. InOrder(stream[t])
  BY DEF StrInv, EventsAreInOrder
<1>3. ~disturbed /\ t = posted => Proceeds(stream[t], session, t)
  BY <1>1 DEF StrInv, TurnProceeds, Post
<1>4. ~disturbed => (session.paused => session.exists)
  BY DEF StrInv, TurnProceeds
<1> QED
  BY <1>1, <1>2, <1>3, <1>4 DEF InOrder

LEMMA ReadPendingInv ==
    ASSUME StrInv, NEW t \in Post, ReadPending(t)
    PROVE  StrInv'
<1> DEFINE resume == IF endpoint = "server" THEN stream[t].resume ELSE session.paused
           pc == IF resume THEN "begin" ELSE "seeding"
           local == [stream[t] EXCEPT !.resume = resume, !.pc = pc]
<1>1. stream[t].pc = "preparing" /\ Moves(t, local)
  BY DEF ReadPending
<1>2. stream[t] \in StrLocals /\ session \in StrRow
  BY <1>1, OnItsWay
<1>3. local \in StrLocals
  <2>1. resume \in BOOLEAN
    BY <1>2 DEF StrLocals, StrRow
  <2>2. pc \in {"begin", "seeding"}
    OBVIOUS
  <2> HIDE DEF resume, pc
  <2> QED
    BY <1>2, <2>1, <2>2 DEF StrLocals
<1>4. /\ local.queue = stream[t].queue /\ local.seen = stream[t].seen
      /\ local.client = stream[t].client /\ local.reply = stream[t].reply
      /\ local.save = stream[t].save /\ local.row = stream[t].row /\ local.pc = pc
  BY <1>2 DEF StrLocals
<1>5. local.resume = resume
  BY <1>2 DEF StrLocals
<1>6. ASSUME ~disturbed, t = posted PROVE Proceeds(local, session, t)
  <2>1. Proceeds(stream[t], session, t) /\ (session.paused => session.exists)
    BY <1>1, <1>6, OnItsWay
  <2>2. ~IsTold(local, "ok") /\ ~IsTold(local, "interrupt")
    BY <1>1, <1>4, OnItsWay DEF IsTold
  <2>3. resume => session.exists /\ session.paused
    BY <2>1, <1>1 DEF Proceeds
  <2>4. local.save = NoSave
    BY <2>1, <1>1, <1>4 DEF Proceeds, StreamSaving
  <2>5. local.save.stage = "none"
    BY <2>4 DEF NoSave
  <2> HIDE DEF resume, local
  <2> QED
    BY <2>2, <2>3, <2>4, <2>5, <1>4, <1>5 DEF Proceeds, StreamSaving
<1> HIDE DEF local
<1> QED
  BY <1>1, <1>3, <1>4, <1>6, QuietMove

LEMMA AwaitSaveIs ==
    ASSUME NEW old \in StrLocals, NEW pc \in StreamSaving, NEW row \in StrRow
    PROVE  /\ AwaitSave(old, pc, row) \in StrLocals
           /\ AwaitSave(old, pc, row).pc = pc
           /\ AwaitSave(old, pc, row).row = row
           /\ AwaitSave(old, pc, row).save = [stage |-> "queued", row |-> row]
           /\ AwaitSave(old, pc, row).queue = old.queue
           /\ AwaitSave(old, pc, row).seen = old.seen
           /\ AwaitSave(old, pc, row).client = old.client
           /\ AwaitSave(old, pc, row).reply = old.reply
           /\ AwaitSave(old, pc, row).resume = old.resume
<1>1. [stage |-> "queued", row |-> row] \in
        [stage : {"none", "queued", "started", "done"}, row : StrRow]
  OBVIOUS
<1>2. pc \in {"extending", "saveTop", "savePause", "saveEnd"}
  BY DEF StreamSaving
<1>3. AwaitSave(old, pc, row) \in StrLocals
  BY <1>1, <1>2 DEF AwaitSave, StrLocals
<1>4. AwaitSave(old, pc, row).resume = old.resume
  BY DEF AwaitSave, StrLocals
<1> QED
  BY <1>3, <1>4 DEF AwaitSave, StrLocals

(* A turn that waits for a save: what it is to save fits where it waits. *)
SaveFits(old, pc, row, t) ==
    /\ row.exists
    /\ pc = "extending" => ~old.resume /\ Seeded(row, t)
    /\ pc = "saveTop" => row.next = "finish" \/ Seeded(row, t)
    /\ pc = "savePause" => row.paused /\ EndsWith(row, "user", t)
    /\ pc = "saveEnd" => EndsWith(row, "assistant", t)

LEMMA SavingProceeds ==
    ASSUME NEW old \in StrLocals, NEW pc \in StreamSaving, NEW row \in StrRow,
           NEW now, NEW t, ~IsTold(old, "ok"), ~IsTold(old, "interrupt"),
           SaveFits(old, pc, row, t)
    PROVE  Proceeds(AwaitSave(old, pc, row), now, t)
<1> DEFINE local == AwaitSave(old, pc, row)
<1>1. /\ local.pc = pc /\ local.row = row /\ local.save = [stage |-> "queued", row |-> row]
      /\ local.queue = old.queue /\ local.seen = old.seen /\ local.resume = old.resume
  BY AwaitSaveIs
<1>2. ~IsTold(local, "ok") /\ ~IsTold(local, "interrupt")
  BY <1>1 DEF IsTold
<1>3. local.save.stage = "queued" /\ local.save.row = row
  BY <1>1
<1>4. pc \in {"extending", "saveTop", "savePause", "saveEnd"}
  BY DEF StreamSaving
<1> HIDE DEF local
<1>5. Proceeds(local, now, t)
  BY <1>1, <1>2, <1>3, <1>4 DEF Proceeds, SaveFits, StreamSaving
<1> QED
  BY <1>5 DEF local

LEMMA SavingMove ==
    ASSUME StrInv, NEW t \in Post, stream[t].pc \notin {"unsent", "over"},
           NEW pc \in StreamSaving, NEW row \in StrRow, Moves(t, AwaitSave(stream[t], pc, row)),
           ~disturbed /\ t = posted => SaveFits(stream[t], pc, row, t)
    PROVE  StrInv'
<1> DEFINE local == AwaitSave(stream[t], pc, row)
<1>1. /\ stream[t] \in StrLocals
      /\ ~IsTold(stream[t], "ok") /\ ~IsTold(stream[t], "interrupt")
  BY OnItsWay
<1>2. /\ local \in StrLocals
      /\ local.queue = stream[t].queue /\ local.seen = stream[t].seen
      /\ local.client = stream[t].client /\ local.reply = stream[t].reply
  <2>1. PICK old \in StrLocals : old = stream[t]
    BY <1>1
  <2>2. /\ AwaitSave(old, pc, row) \in StrLocals
        /\ AwaitSave(old, pc, row).queue = old.queue
        /\ AwaitSave(old, pc, row).seen = old.seen
        /\ AwaitSave(old, pc, row).client = old.client
        /\ AwaitSave(old, pc, row).reply = old.reply
    BY AwaitSaveIs, ZenonT(60)
  <2>3. local = AwaitSave(old, pc, row)
    BY <2>1
  <2> HIDE DEF local
  <2> QED
    BY <2>1, <2>2, <2>3
<1>3. ~disturbed /\ t = posted => Proceeds(local, session, t)
  BY <1>1, SavingProceeds
<1>4. Moves(t, local)
  OBVIOUS
<1> HIDE DEF local
<1> QED
  BY <1>2, <1>3, <1>4, QuietMove

(* The user's or the agent's words at the end of a conversation. *)
LEMMA SessionSaid ==
    ASSUME NEW row \in StrRow, NEW t \in Post, NEW role \in {"user", "assistant"},
           NEW pause, NEW next, pause \in BOOLEAN, next \in {"none", "agent", "finish"}
    PROVE  /\ Session(Append(row.messages, SaidIn(role, t)), pause, next) \in StrRow
           /\ Session(Append(row.messages, SaidIn(role, t)), pause, next).exists
           /\ Session(Append(row.messages, SaidIn(role, t)), pause, next).next = next
           /\ Session(Append(row.messages, SaidIn(role, t)), pause, next).paused = pause
           /\ EndsWith(Session(Append(row.messages, SaidIn(role, t)), pause, next), role, t)
<1> DEFINE messages == Append(row.messages, SaidIn(role, t))
           said == Session(messages, pause, next)
<1>1. row.messages \in Seq([role : {"user", "assistant"}, turn : Post])
  BY DEF StrRow
<1>2. SaidIn(role, t) \in [role : {"user", "assistant"}, turn : Post]
  BY DEF SaidIn
<1>3. messages \in Seq([role : {"user", "assistant"}, turn : Post])
  BY <1>1, <1>2
<1>4. Len(messages) = Len(row.messages) + 1 /\ messages[Len(row.messages) + 1] = SaidIn(role, t)
  BY <1>1, <1>2
<1>5. Len(messages) > 0 /\ messages[Len(messages)] = SaidIn(role, t)
  BY <1>1, <1>4
<1> HIDE DEF messages
<1>6. /\ said.messages = messages /\ said.exists /\ said.next = next
  BY DEF Session
<1>7. said.paused = pause
  BY DEF Session
<1>8. said \in StrRow
  BY <1>3 DEF Session, StrRow
<1>9. EndsWith(said, role, t)
  BY <1>5, <1>6 DEF EndsWith
<1> QED
  BY <1>6, <1>7, <1>8, <1>9 DEF messages

LEMMA SeedOrExtendInv ==
    ASSUME StrInv, NEW t \in Post, SeedOrExtend(t)
    PROVE  StrInv'
<1> DEFINE messages == Append(session.messages, SaidIn("user", t))
           kept == endpoint = "server" /\ session.paused
           extended == Session(messages, kept, "agent")
           seeded == Session(messages, FALSE, "agent")
           local == [stream[t] EXCEPT !.pc = "begin", !.row = seeded]
<1>1. stream[t].pc = "seeding"
  BY DEF SeedOrExtend
<1>2. session.exists => Moves(t, AwaitSave(stream[t], "extending", extended))
  BY DEF SeedOrExtend
<1>3. ~session.exists => Moves(t, local)
  BY DEF SeedOrExtend
<1>4. stream[t] \in StrLocals /\ session \in StrRow
  BY <1>1, OnItsWay
<1>5. /\ extended \in StrRow /\ extended.exists /\ extended.next = "agent"
      /\ EndsWith(extended, "user", t)
  <2>1. kept \in BOOLEAN
    OBVIOUS
  <2> HIDE DEF kept
  <2> QED
    BY <1>4, <2>1, SessionSaid
<1>6. /\ seeded \in StrRow /\ seeded.exists /\ seeded.next = "agent"
      /\ EndsWith(seeded, "user", t)
  <2> DEFINE pause == FALSE
  <2>1. pause \in BOOLEAN
    OBVIOUS
  <2>2. seeded = Session(messages, pause, "agent")
    OBVIOUS
  <2> HIDE DEF pause, seeded
  <2>3. /\ Session(messages, pause, "agent") \in StrRow
        /\ Session(messages, pause, "agent").exists
        /\ Session(messages, pause, "agent").next = "agent"
        /\ EndsWith(Session(messages, pause, "agent"), "user", t)
    BY <1>4, <2>1, SessionSaid
  <2> QED
    BY <2>2, <2>3
<1> HIDE DEF messages, kept, extended, seeded
<1>7. ASSUME ~disturbed, t = posted PROVE ~stream[t].resume /\ stream[t].save = NoSave
  <2>1. Proceeds(stream[t], session, t)
    BY <1>1, <1>7, OnItsWay
  <2> QED
    BY <1>1, <2>1 DEF Proceeds, StreamSaving
<1>8. CASE session.exists
  <2>1. ~disturbed /\ t = posted => SaveFits(stream[t], "extending", extended, t)
    BY <1>5, <1>7 DEF SaveFits, Seeded
  <2>2. "extending" \in StreamSaving
    BY DEF StreamSaving
  <2> QED
    BY <1>1, <1>2, <1>5, <1>8, <2>1, <2>2, SavingMove
<1>9. CASE ~session.exists
  <2>1. local \in StrLocals
    BY <1>4, <1>6 DEF StrLocals
  <2>2. /\ local.queue = stream[t].queue /\ local.seen = stream[t].seen
        /\ local.client = stream[t].client /\ local.reply = stream[t].reply
        /\ local.save = stream[t].save /\ local.row = seeded /\ local.pc = "begin"
    BY <1>4 DEF StrLocals
  <2>3. local.resume = stream[t].resume
    BY <1>4 DEF StrLocals
  <2>4. ~IsTold(local, "ok") /\ ~IsTold(local, "interrupt")
    BY <1>1, <2>2, OnItsWay DEF IsTold
  <2>5. NoSave.stage = "none"
    BY DEF NoSave
  <2> HIDE DEF local
  <2>6. ~disturbed /\ t = posted => Proceeds(local, session, t)
    BY <1>6, <1>7, <1>9, <2>2, <2>3, <2>4, <2>5 DEF Proceeds, Seeded, StreamSaving
  <2>7. Moves(t, local)
    BY <1>3, <1>9 DEF local
  <2> QED
    BY <1>1, <2>1, <2>2, <2>6, <2>7, QuietMove
<1> QED
  BY <1>8, <1>9

(* A save that is done, and the turn goes on. *)
LEMMA SavedMove ==
    ASSUME StrInv, NEW t \in Post, stream[t].pc \in StreamSaving, NEW pc \in {"begin", "running"},
           Moves(t, [stream[t] EXCEPT !.pc = pc, !.save = NoSave]),
           ~disturbed /\ t = posted =>
              /\ pc = "begin" => ~stream[t].resume /\ Seeded(session, t)
              /\ pc = "running" =>
                   stream[t].row.exists /\ (stream[t].row.next = "finish" \/ Seeded(stream[t].row, t))
    PROVE  StrInv'
<1> DEFINE local == [stream[t] EXCEPT !.pc = pc, !.save = NoSave]
<1>1. stream[t].pc \notin {"unsent", "over"}
  BY DEF StreamSaving
<1>2. stream[t] \in StrLocals
  BY <1>1, OnItsWay
<1>3. NoSave \in [stage : {"none", "queued", "started", "done"}, row : StrRow] /\ NoSave.stage = "none"
  BY DEF NoSave, NoSession, StrRow
<1>4. local \in StrLocals
  BY <1>2, <1>3 DEF StrLocals
<1>5. /\ local.queue = stream[t].queue /\ local.seen = stream[t].seen
      /\ local.client = stream[t].client /\ local.reply = stream[t].reply
      /\ local.save = NoSave /\ local.row = stream[t].row /\ local.pc = pc
  BY <1>2 DEF StrLocals
<1>6. local.resume = stream[t].resume
  BY <1>2 DEF StrLocals
<1>7. ~IsTold(local, "ok") /\ ~IsTold(local, "interrupt")
  BY <1>1, <1>5, OnItsWay DEF IsTold
<1>8. Moves(t, local)
  OBVIOUS
<1> HIDE DEF local
<1>9. ~disturbed /\ t = posted => Proceeds(local, session, t)
  BY <1>3, <1>5, <1>6, <1>7 DEF Proceeds, Seeded, StreamSaving
<1> QED
  BY <1>1, <1>4, <1>5, <1>8, <1>9, QuietMove

LEMMA SaveSeededInv ==
    ASSUME StrInv, NEW t \in Post, SaveSeeded(t)
    PROVE  StrInv'
<1>1. stream[t].pc = "extending" /\ stream[t].save.stage = "done"
  BY DEF SaveSeeded, SaveDone
<1>2. ASSUME ~disturbed, t = posted PROVE ~stream[t].resume /\ Seeded(session, t)
  <2>1. Proceeds(stream[t], session, t)
    BY <1>1, <1>2, OnItsWay
  <2> QED
    BY <1>1, <2>1 DEF Proceeds, StreamSaving
<1> QED
  BY <1>1, <1>2, SavedMove DEF SaveSeeded, StreamSaving

LEMMA NodeStartsInv ==
    ASSUME StrInv, NEW t \in Post, NodeStarts(t)
    PROVE  StrInv'
<1>1. stream[t].pc = "saveTop"
  BY DEF NodeStarts
<1>2. ASSUME ~disturbed, t = posted
      PROVE  stream[t].row.exists /\ (stream[t].row.next = "finish" \/ Seeded(stream[t].row, t))
  <2>1. Proceeds(stream[t], session, t)
    BY <1>1, <1>2, OnItsWay
  <2> QED
    BY <1>1, <2>1 DEF Proceeds
<1> QED
  BY <1>1, <1>2, SavedMove DEF NodeStarts, StreamSaving

-----------------------------------------------------------------------------
(* What a run tells at its end. *)

(* The queue behind what was put into it. *)
LEMMA QueueGrows ==
    ASSUME NEW queue \in Seq(StreamEvent), NEW events \in Seq(StreamEvent)
    PROVE  /\ queue \o events \in Seq(StreamEvent)
           /\ Len(queue \o events) = Len(queue) + Len(events)
           /\ \A i \in DOMAIN queue : (queue \o events)[i] = queue[i]
           /\ \A j \in DOMAIN events : (queue \o events)[Len(queue) + j] = events[j]
           /\ \A i \in DOMAIN (queue \o events) :
                 \/ i \in DOMAIN queue
                 \/ \E j \in DOMAIN events : i = Len(queue) + j /\ (queue \o events)[i] = events[j]
<1>1. queue \o events \in Seq(StreamEvent)
  OBVIOUS
<1>2. Len(queue \o events) = Len(queue) + Len(events)
  OBVIOUS
<1>3. \A i \in DOMAIN queue : (queue \o events)[i] = queue[i]
  OBVIOUS
<1>4. ASSUME NEW i \in DOMAIN (queue \o events), i \notin DOMAIN queue
      PROVE  \E j \in DOMAIN events : i = Len(queue) + j /\ (queue \o events)[i] = events[j]
  <2>1. i \in 1..(Len(queue) + Len(events)) /\ i > Len(queue)
    BY <1>1, <1>2, <1>4
  <2>2. (i - Len(queue)) \in DOMAIN events
    BY <2>1
  <2>3. (queue \o events)[i] = events[i - Len(queue)]
    BY <2>1
  <2> QED
    BY <2>1, <2>2, <2>3
<1>5. ASSUME NEW j \in DOMAIN events PROVE (queue \o events)[Len(queue) + j] = events[j]
  <2>1. j \in 1..Len(events) /\ Len(queue) \in Nat /\ Len(events) \in Nat
    OBVIOUS
  <2>2. Len(queue) + j > Len(queue) /\ (Len(queue) + j) - Len(queue) = j
    BY <2>1
  <2> QED
    BY <2>1, <2>2
<1> QED
  BY <1>1, <1>2, <1>3, <1>4, <1>5

EndingEvents == {<<"interrupted">>, <<"error">>, <<"interrupt", "interrupted">>, <<"ok">>}

(* The last events of a run, and the None behind them. *)
LEMMA LastEvents ==
    ASSUME NEW events \in EndingEvents
    PROVE  /\ events \o <<"none">> \in Seq(StreamEvent)
           /\ \A i \in DOMAIN (events \o <<"none">>) :
                /\ (events \o <<"none">>)[i] = "ok" =>
                     /\ events = <<"ok">> /\ Len(events \o <<"none">>) = i + 1
                     /\ (events \o <<"none">>)[i + 1] = "none"
                /\ (events \o <<"none">>)[i] = "interrupt" => events = <<"interrupt", "interrupted">>
<1> DEFINE last == events \o <<"none">>
<1>1. events \in Seq(StreamEvent) /\ <<"none">> \in Seq(StreamEvent)
  <2>1. \A event \in StreamEvent : <<event>> \in Seq(StreamEvent)
    OBVIOUS
  <2>2. <<"interrupt", "interrupted">> \in Seq(StreamEvent)
    <3>1. \A e, f \in StreamEvent : <<e, f>> \in Seq(StreamEvent)
      OBVIOUS
    <3> QED
      BY <3>1 DEF StreamEvent
  <2>3. /\ <<"interrupted">> \in Seq(StreamEvent) /\ <<"error">> \in Seq(StreamEvent)
        /\ <<"ok">> \in Seq(StreamEvent) /\ <<"none">> \in Seq(StreamEvent)
    BY <2>1 DEF StreamEvent
  <2> QED
    BY <2>2, <2>3 DEF EndingEvents
<1>2. Len(events) \in Nat /\ DOMAIN events = 1..Len(events)
  BY <1>1
<1>3. last \in Seq(StreamEvent) /\ Len(last) = Len(events) + 1
  BY <1>1
<1>4. \A i \in DOMAIN events : last[i] = events[i]
  BY <1>1
<1>5. last[Len(events) + 1] = "none"
  BY <1>1
<1>6. \A i \in DOMAIN events : events[i] = "ok" => events = <<"ok">> /\ Len(events) = 1 /\ i = 1
  BY DEF EndingEvents
<1>7. \A i \in DOMAIN events : events[i] = "interrupt" => events = <<"interrupt", "interrupted">>
  BY DEF EndingEvents
<1>8. \A i \in DOMAIN last : i \in DOMAIN events \/ i = Len(events) + 1
  BY <1>2, <1>3
<1> HIDE DEF last
<1>9. ASSUME NEW i \in DOMAIN last
      PROVE  /\ last[i] = "ok" => events = <<"ok">> /\ Len(last) = i + 1 /\ last[i + 1] = "none"
             /\ last[i] = "interrupt" => events = <<"interrupt", "interrupted">>
  <2>1. CASE i = Len(events) + 1
    BY <2>1, <1>5
  <2>2. CASE i \in DOMAIN events
    BY <2>2, <1>3, <1>4, <1>5, <1>6, <1>7
  <2> QED
    BY <2>1, <2>2, <1>8, <1>9
<1> QED
  BY <1>3, <1>9 DEF last

LEMMA EmitIs ==
    ASSUME NEW old \in StrLocals, NEW events \in Seq(StreamEvent)
    PROVE  /\ Emit(old, events) \in StrLocals
           /\ Emit(old, events).queue = IF old.client = "gone" THEN old.queue ELSE old.queue \o events
           /\ Emit(old, events).seen = old.seen /\ Emit(old, events).client = old.client
           /\ Emit(old, events).reply = old.reply /\ Emit(old, events).row = old.row
           /\ Emit(old, events).save = old.save /\ Emit(old, events).pc = old.pc
           /\ Emit(old, events).resume = old.resume
<1>1. CASE old.client = "gone"
  BY <1>1 DEF Emit
<1>2. CASE old.client # "gone"
  <2> DEFINE queue == old.queue \o events
             local == [old EXCEPT !.queue = queue]
  <2>1. Emit(old, events) = local
    BY <1>2 DEF Emit
  <2>2. old.queue \in Seq(StreamEvent)
    BY DEF StrLocals
  <2>3. queue \in Seq(StreamEvent)
    BY <2>2
  <2> HIDE DEF queue
  <2>4. local \in StrLocals
    BY <2>3 DEF StrLocals
  <2>5. /\ local.queue = queue /\ local.seen = old.seen /\ local.client = old.client
        /\ local.reply = old.reply /\ local.row = old.row /\ local.save = old.save
        /\ local.pc = old.pc
    BY DEF StrLocals
  <2>6. local.resume = old.resume
    BY DEF StrLocals
  <2> QED
    BY <1>2, <2>1, <2>4, <2>5, <2>6 DEF queue
<1> QED
  BY <1>1, <1>2

(* The runner ends: with an interrupt when the session waits, and well when *)
(* the reply is in the session.                                             *)
LEMMA EndingMove ==
    ASSUME StrInv, NEW t \in Post, stream[t].pc \notin {"unsent", "over"},
           NEW events \in EndingEvents, Moves(t, Ended(stream[t], events)),
           ~disturbed /\ t = posted =>
              /\ events = <<"interrupt", "interrupted">> => session.paused /\ EndsWith(session, "user", t)
              /\ events = <<"ok">> => EndsWith(session, "assistant", t)
    PROVE  StrInv'
<1> DEFINE last == events \o <<"none">>
           emitted == Emit(stream[t], last)
           local == [emitted EXCEPT !.pc = "over", !.save = NoSave, !.row = NoSession, !.resume = FALSE]
<1>1. /\ stream[t] \in StrLocals
      /\ ~IsTold(stream[t], "ok") /\ ~IsTold(stream[t], "interrupt")
  BY OnItsWay
<1>2. Moves(t, local)
  BY DEF Ended
<1>3. last \in Seq(StreamEvent)
  BY LastEvents
<1>4. \A i \in DOMAIN last : last[i] = "ok" =>
         /\ events = <<"ok">> /\ Len(last) = i + 1 /\ last[i + 1] = "none"
  BY LastEvents
<1>5. \A i \in DOMAIN last : last[i] = "interrupt" => events = <<"interrupt", "interrupted">>
  BY LastEvents
<1> HIDE DEF last
<1>6. /\ emitted \in StrLocals
      /\ emitted.queue = IF stream[t].client = "gone" THEN stream[t].queue ELSE stream[t].queue \o last
      /\ emitted.seen = stream[t].seen /\ emitted.client = stream[t].client
      /\ emitted.reply = stream[t].reply
  BY <1>1, <1>3, EmitIs
<1> HIDE DEF emitted
<1>7. NoSession \in StrRow /\ NoSave.stage = "none"
  BY DEF NoSession, StrRow, NoSave
<1>8. NoSave \in [stage : {"none", "queued", "started", "done"}, row : StrRow]
  BY <1>7 DEF NoSave
<1>9. local \in StrLocals
  BY <1>6, <1>7, <1>8 DEF StrLocals
<1>10. /\ local.pc = "over" /\ local.save = NoSave /\ local.queue = emitted.queue
       /\ local.seen = emitted.seen /\ local.client = emitted.client /\ local.reply = emitted.reply
  BY <1>6 DEF StrLocals
<1> HIDE DEF local
<1>11. t <= posted
  BY BegunIsPosted
<1>12. stream[t].queue \in Seq(StreamEvent) /\ stream[t].seen \in Seq(StreamEvent)
  BY <1>1 DEF StrLocals
<1>13. /\ \A i \in DOMAIN local.seen : local.seen[i] # "ok" /\ local.seen[i] # "interrupt"
       /\ \A i \in DOMAIN stream[t].queue : stream[t].queue[i] # "ok" /\ stream[t].queue[i] # "interrupt"
  BY <1>1, <1>6, <1>10 DEF IsTold
<1>14. stream[t].client = "gone" => stream[t].queue = <<>>
  BY DEF StrInv, EventsAreInOrder, InOrder
<1>15. \A i \in DOMAIN local.queue : local.queue[i] = "ok" =>
          events = <<"ok">> /\ Len(local.queue) = i + 1 /\ local.queue[i + 1] = "none"
  <2>1. CASE stream[t].client = "gone"
    BY <2>1, <1>6, <1>10, <1>13
  <2>2. CASE stream[t].client # "gone"
    <3> SUFFICES ASSUME NEW i \in DOMAIN local.queue, local.queue[i] = "ok"
                 PROVE  events = <<"ok">> /\ Len(local.queue) = i + 1 /\ local.queue[i + 1] = "none"
      OBVIOUS
    <3>1. local.queue = stream[t].queue \o last
      BY <2>2, <1>6, <1>10
    <3>2. i \notin DOMAIN stream[t].queue
      BY <3>1, <1>3, <1>12, <1>13, QueueGrows
    <3>3. PICK j \in DOMAIN last : i = Len(stream[t].queue) + j /\ local.queue[i] = last[j]
      BY <3>1, <3>2, <1>3, <1>12, QueueGrows
    <3>4. events = <<"ok">> /\ Len(last) = j + 1 /\ last[j + 1] = "none"
      BY <3>3, <1>4
    <3>5. Len(local.queue) = Len(stream[t].queue) + Len(last)
      BY <3>1, <1>3, <1>12
    <3>6. j \in Nat /\ Len(stream[t].queue) \in Nat
      BY <1>3, <1>12
    <3>7. local.queue[i + 1] = last[j + 1]
      <4>1. i + 1 = Len(stream[t].queue) + (j + 1)
        BY <3>3, <3>6
      <4>2. j + 1 \in DOMAIN last
        <5>1. Len(last) = j + 1
          BY <3>4
        <5> QED
          BY <5>1, <3>6, <1>3
      <4>3. local.queue[Len(stream[t].queue) + (j + 1)] = last[j + 1]
        <5>1. \A k \in DOMAIN last : (stream[t].queue \o last)[Len(stream[t].queue) + k] = last[k]
          BY ZenonT(30), <1>3, <1>12, QueueGrows
        <5> QED
          BY <4>2, <5>1, <3>1
      <4> QED
        BY <4>1, <4>3
    <3>8. Len(local.queue) = i + 1
      <4>1. Len(last) = j + 1
        BY <3>4
      <4>2. i = Len(stream[t].queue) + j
        BY <3>3
      <4>3. Len(stream[t].queue) + Len(last) = i + 1
        BY <3>6, <4>1, <4>2
      <4> QED
        BY <3>5, <4>3
    <3> QED
      BY <3>4, <3>7, <3>8
  <2> QED
    BY <2>1, <2>2
<1>16. ASSUME NEW i \in DOMAIN local.queue, local.queue[i] = "interrupt"
       PROVE  events = <<"interrupt", "interrupted">>
  <2>1. local.queue = stream[t].queue \o last
    BY <1>6, <1>10, <1>13, <1>16
  <2>2. i \notin DOMAIN stream[t].queue
    BY <2>1, <1>3, <1>12, <1>13, <1>16, QueueGrows
  <2>3. PICK j \in DOMAIN last : i = Len(stream[t].queue) + j /\ local.queue[i] = last[j]
    BY <2>1, <2>2, <1>3, <1>12, QueueGrows
  <2> QED
    BY <2>3, <1>5, <1>16
<1>17. InOrder(local)
  <2>1. local.client = "gone" => local.queue = <<>>
    BY <1>6, <1>10, <1>14
  <2> QED
    BY <2>1, <1>10, <1>13, <1>15 DEF InOrder
<1>18. ~disturbed /\ t = posted => Proceeds(local, session, t)
  <2> SUFFICES ASSUME ~disturbed, t = posted PROVE Proceeds(local, session, t)
    OBVIOUS
  <2>1. IsTold(local, "interrupt") => session.paused /\ EndsWith(session, "user", t)
    BY <1>13, <1>16 DEF IsTold
  <2>2. IsTold(local, "ok") => EndsWith(session, "assistant", t)
    BY <1>13, <1>15 DEF IsTold
  <2> QED
    BY <2>1, <2>2, <1>7, <1>10 DEF Proceeds, StreamSaving
<1>19. local.client \in {"listening", "replying"} => Attached(t)
  BY <1>6, <1>10 DEF Attached
<1> QED
  BY <1>2, <1>9, <1>11, <1>13, <1>17, <1>18, <1>19, StreamMoves

-----------------------------------------------------------------------------
(* The run. *)

LEMMA SessionIs ==
    ASSUME NEW row \in StrRow, NEW pause, pause \in BOOLEAN, NEW next \in {"none", "agent", "finish"}
    PROVE  /\ Session(row.messages, pause, next) \in StrRow
           /\ Session(row.messages, pause, next).exists
           /\ Session(row.messages, pause, next).messages = row.messages
           /\ Session(row.messages, pause, next).next = next
           /\ Session(row.messages, pause, next).paused = pause
  BY DEF Session, StrRow

LEMMA RunBeginsInv ==
    ASSUME StrInv, NEW t \in Post, RunBegins(t)
    PROVE  StrInv'
<1> DEFINE row == IF session.exists THEN session ELSE stream[t].row
           resumed == Session(row.messages, FALSE, "finish")
<1>1. stream[t].pc = "begin"
  BY DEF RunBegins
<1>2. stream[t] \in StrLocals /\ session \in StrRow
  BY <1>1, OnItsWay
<1>3. row \in StrRow
  BY <1>2 DEF StrLocals
<1>4. /\ resumed \in StrRow /\ resumed.exists /\ resumed.next = "finish"
  <2> DEFINE pause == FALSE
  <2>1. pause \in BOOLEAN
    OBVIOUS
  <2> HIDE DEF pause, row
  <2>2. /\ Session(row.messages, pause, "finish") \in StrRow
        /\ Session(row.messages, pause, "finish").exists
        /\ Session(row.messages, pause, "finish").next = "finish"
    BY <1>3, <2>1, SessionIs
  <2> QED
    BY <2>2 DEF pause
<1>5. ~disturbed /\ t = posted =>
         IF stream[t].resume THEN session.exists /\ session.paused ELSE Seeded(row, t)
  <2> HIDE DEF row
  <2>1. ~disturbed /\ t = posted => Proceeds(stream[t], session, t)
    BY <1>1, OnItsWay
  <2> QED
    BY <1>1, <2>1 DEF Proceeds, row
<1>6. CASE row.paused /\ ~stream[t].resume
  <2>1. Moves(t, Ended(stream[t], <<"interrupted">>))
    BY <1>6 DEF RunBegins
  <2>2. <<"interrupted">> \in EndingEvents
    BY DEF EndingEvents
  <2>3. <<"interrupted">> # <<"interrupt", "interrupted">> /\ <<"interrupted">> # <<"ok">>
    OBVIOUS
  <2> QED
    BY <1>1, <2>1, <2>2, <2>3, EndingMove
<1>7. CASE row.paused /\ stream[t].resume
  <2>1. Moves(t, TopOf(stream[t], resumed))
    BY <1>7 DEF RunBegins
  <2> HIDE DEF resumed, row
  <2>2. Moves(t, AwaitSave(stream[t], "saveTop", resumed))
    BY <2>1, <1>4 DEF TopOf
  <2>3. SaveFits(stream[t], "saveTop", resumed, t)
    BY <1>4 DEF SaveFits
  <2>4. "saveTop" \in StreamSaving
    BY DEF StreamSaving
  <2> QED
    BY <1>1, <1>4, <2>2, <2>3, <2>4, SavingMove
<1>8. CASE ~row.paused
  <2>1. Moves(t, TopOf(stream[t], row))
    BY <1>8 DEF RunBegins
  <2>2. ~disturbed /\ t = posted => Seeded(row, t)
    BY <1>5, <1>8
  <2> HIDE DEF row
  <2>3. CASE row.next = "none"
    <3>1. Moves(t, AwaitSave(stream[t], "saveEnd", row))
      BY <2>1, <2>3 DEF TopOf
    <3>2. ~(~disturbed /\ t = posted)
      BY <2>2, <2>3 DEF Seeded
    <3>3. "saveEnd" \in StreamSaving
      BY DEF StreamSaving
    <3> QED
      BY <1>1, <1>3, <3>1, <3>2, <3>3, SavingMove
  <2>4. CASE row.next # "none"
    <3>1. Moves(t, AwaitSave(stream[t], "saveTop", row))
      BY <2>1, <2>4 DEF TopOf
    <3>2. ~disturbed /\ t = posted => SaveFits(stream[t], "saveTop", row, t)
      BY <2>2 DEF Seeded, SaveFits
    <3>3. "saveTop" \in StreamSaving
      BY DEF StreamSaving
    <3> QED
      BY <1>1, <1>3, <3>1, <3>2, <3>3, SavingMove
  <2> QED
    BY <2>3, <2>4
<1> QED
  BY <1>6, <1>7, <1>8

(* What the turn has when its node runs. *)
LEMMA RunningRow ==
    ASSUME StrInv, NEW t \in Post, stream[t].pc = "running"
    PROVE  /\ stream[t].row \in StrRow
           /\ ~disturbed /\ t = posted =>
                /\ stream[t].row.exists
                /\ stream[t].row.next = "finish" \/ Seeded(stream[t].row, t)
<1>1. stream[t] \in StrLocals
  BY OnItsWay
<1>2. ~disturbed /\ t = posted => Proceeds(stream[t], session, t)
  BY OnItsWay
<1> QED
  BY <1>1, <1>2 DEF StrLocals, Proceeds

LEMMA AgentEndsInv ==
    ASSUME StrInv, NEW t \in Post, AgentEnds(t)
    PROVE  StrInv'
<1> DEFINE row == [stream[t].row EXCEPT !.next = "finish"]
<1>1. stream[t].pc = "running" /\ Moves(t, TopOf(stream[t], row))
  BY DEF AgentEnds
<1>2. /\ stream[t].row \in StrRow
      /\ ~disturbed /\ t = posted => stream[t].row.exists
  BY <1>1, RunningRow
<1>3. row \in StrRow /\ row.next = "finish"
  BY <1>2 DEF StrRow
<1>4. row.exists = stream[t].row.exists
  BY <1>2 DEF StrRow
<1> HIDE DEF row
<1>5. Moves(t, AwaitSave(stream[t], "saveTop", row))
  BY <1>1, <1>3 DEF TopOf
<1>6. ~disturbed /\ t = posted => SaveFits(stream[t], "saveTop", row, t)
  BY <1>2, <1>3, <1>4 DEF SaveFits
<1>7. "saveTop" \in StreamSaving
  BY DEF StreamSaving
<1> QED
  BY <1>1, <1>3, <1>5, <1>6, <1>7, SavingMove

LEMMA AgentAsksInv ==
    ASSUME StrInv, NEW t \in Post, AgentAsks(t)
    PROVE  StrInv'
<1> DEFINE row == Session(stream[t].row.messages, TRUE, "none")
<1>1. stream[t].pc = "running" /\ stream[t].row.next = "agent"
  BY DEF AgentAsks
<1>2. Moves(t, AwaitSave(stream[t], "savePause", row))
  BY DEF AgentAsks
<1>3. stream[t].row \in StrRow
  BY <1>1, RunningRow
<1>4. ~disturbed /\ t = posted => EndsWith(stream[t].row, "user", t)
  BY <1>1, RunningRow DEF Seeded
<1>5. row \in StrRow /\ row.exists /\ row.paused /\ row.messages = stream[t].row.messages
  BY <1>3 DEF Session, StrRow
<1> HIDE DEF row
<1>6. ~disturbed /\ t = posted => SaveFits(stream[t], "savePause", row, t)
  BY <1>4, <1>5 DEF SaveFits, EndsWith
<1>7. "savePause" \in StreamSaving
  BY DEF StreamSaving
<1> QED
  BY <1>1, <1>2, <1>5, <1>6, <1>7, SavingMove

LEMMA NodeFailsInv ==
    ASSUME StrInv, NEW t \in Post, NodeFails(t)
    PROVE  StrInv'
<1>1. stream[t].pc = "running" /\ Moves(t, Ended(stream[t], <<"error">>))
  BY DEF NodeFails
<1>2. <<"error">> \in EndingEvents
  BY DEF EndingEvents
<1>3. <<"error">> # <<"interrupt", "interrupted">> /\ <<"error">> # <<"ok">>
  OBVIOUS
<1> QED
  BY <1>1, <1>2, <1>3, EndingMove

LEMMA RunPausesInv ==
    ASSUME StrInv, NEW t \in Post, RunPauses(t)
    PROVE  StrInv'
<1>1. stream[t].pc = "savePause" /\ stream[t].save.stage = "done"
  BY DEF RunPauses, SaveDone
<1>2. Moves(t, Ended(stream[t], <<"interrupt", "interrupted">>))
  BY DEF RunPauses
<1>3. ASSUME ~disturbed, t = posted PROVE session.paused /\ EndsWith(session, "user", t)
  <2>1. Proceeds(stream[t], session, t)
    BY <1>1, <1>3, OnItsWay
  <2> QED
    BY <1>1, <2>1 DEF Proceeds, StreamSaving
<1>4. <<"interrupt", "interrupted">> \in EndingEvents
  BY DEF EndingEvents
<1>5. <<"interrupt", "interrupted">> # <<"ok">>
  OBVIOUS
<1> QED
  BY <1>1, <1>2, <1>3, <1>4, <1>5, EndingMove

LEMMA RunEndsInv ==
    ASSUME StrInv, NEW t \in Post, RunEnds(t)
    PROVE  StrInv'
<1>1. stream[t].pc = "saveEnd" /\ stream[t].save.stage = "done"
  BY DEF RunEnds, SaveDone
<1>2. Moves(t, Ended(stream[t], <<"ok">>))
  BY DEF RunEnds
<1>3. ASSUME ~disturbed, t = posted PROVE EndsWith(session, "assistant", t)
  <2>1. Proceeds(stream[t], session, t)
    BY <1>1, <1>3, OnItsWay
  <2> QED
    BY <1>1, <2>1 DEF Proceeds, StreamSaving
<1>4. <<"ok">> \in EndingEvents
  BY DEF EndingEvents
<1>5. <<"ok">> # <<"interrupt", "interrupted">>
  OBVIOUS
<1> QED
  BY <1>1, <1>2, <1>3, <1>4, <1>5, EndingMove

(* The reply is said, and the end of the node told, before it is saved. *)
LEMMA FinishEndsInv ==
    ASSUME StrInv, NEW t \in Post, FinishEnds(t)
    PROVE  StrInv'
<1> DEFINE row == Session(Append(stream[t].row.messages, SaidIn("assistant", t)), FALSE, "none")
           told == Emit(stream[t], <<"node_end">>)
           local == AwaitSave(told, "saveEnd", row)
<1>1. stream[t].pc = "running" /\ Moves(t, TopOf(told, row))
  BY DEF FinishEnds
<1>2. /\ stream[t] \in StrLocals
      /\ ~IsTold(stream[t], "ok") /\ ~IsTold(stream[t], "interrupt")
  BY <1>1, OnItsWay
<1>3. stream[t].row \in StrRow
  BY <1>1, RunningRow
<1>4. row \in StrRow /\ row.exists /\ row.next = "none" /\ EndsWith(row, "assistant", t)
  <2> DEFINE pause == FALSE
  <2>1. pause \in BOOLEAN
    OBVIOUS
  <2>2. PICK old \in StrRow : old = stream[t].row
    BY <1>3
  <2>3. row = Session(Append(old.messages, SaidIn("assistant", t)), pause, "none")
    BY <2>2
  <2> HIDE DEF pause, row
  <2>4. /\ Session(Append(old.messages, SaidIn("assistant", t)), pause, "none") \in StrRow
        /\ Session(Append(old.messages, SaidIn("assistant", t)), pause, "none").exists
        /\ Session(Append(old.messages, SaidIn("assistant", t)), pause, "none").next = "none"
        /\ EndsWith(Session(Append(old.messages, SaidIn("assistant", t)), pause, "none"), "assistant", t)
    BY <2>1, SessionSaid
  <2> QED
    BY <2>3, <2>4
<1> HIDE DEF row
<1>5. Moves(t, local)
  BY <1>1, <1>4 DEF TopOf
<1>6. <<"node_end">> \in Seq(StreamEvent) /\ Len(<<"node_end">>) = 1 /\ <<"node_end">>[1] = "node_end"
  <2>1. "node_end" \in StreamEvent
    BY DEF StreamEvent
  <2> QED
    BY <2>1
<1>7. /\ told \in StrLocals
      /\ told.queue = IF stream[t].client = "gone" THEN stream[t].queue
                      ELSE stream[t].queue \o <<"node_end">>
      /\ told.seen = stream[t].seen /\ told.client = stream[t].client
      /\ told.reply = stream[t].reply
  BY <1>2, <1>6, EmitIs
<1>8. /\ stream[t].queue \in Seq(StreamEvent)
      /\ stream[t].client = "gone" => stream[t].queue = <<>>
  <2>1. InOrder(stream[t])
    BY DEF StrInv, EventsAreInOrder
  <2> QED
    BY <1>2, <2>1 DEF StrLocals, InOrder
<1> HIDE DEF told
<1>9. \A i \in DOMAIN told.queue : told.queue[i] # "ok" /\ told.queue[i] # "interrupt"
  <2>1. \A i \in DOMAIN stream[t].queue : stream[t].queue[i] # "ok" /\ stream[t].queue[i] # "interrupt"
    BY <1>2 DEF IsTold
  <2>2. \A j \in DOMAIN <<"node_end">> : <<"node_end">>[j] = "node_end"
    BY <1>6
  <2>3. CASE stream[t].client = "gone"
    BY <2>1, <2>3, <1>7
  <2>4. CASE stream[t].client # "gone"
    BY <2>1, <2>2, <2>4, <1>6, <1>7, <1>8, QueueGrows
  <2> QED
    BY <2>3, <2>4
<1>10. ~IsTold(told, "ok") /\ ~IsTold(told, "interrupt")
  BY <1>2, <1>7, <1>9 DEF IsTold
<1>11. "saveEnd" \in StreamSaving
  BY DEF StreamSaving
<1>12. /\ local \in StrLocals /\ local.pc = "saveEnd"
       /\ local.queue = told.queue /\ local.seen = told.seen
       /\ local.client = told.client /\ local.reply = told.reply
  <2>1. PICK pc \in StreamSaving : pc = "saveEnd"
    BY <1>11
  <2>2. PICK old \in StrLocals : old = told
    BY <1>7
  <2>3. PICK saved \in StrRow : saved = row
    BY <1>4
  <2>4. local = AwaitSave(old, pc, saved)
    BY <2>1, <2>2, <2>3
  <2> HIDE DEF local
  <2>5. /\ AwaitSave(old, pc, saved) \in StrLocals
        /\ AwaitSave(old, pc, saved).pc = pc
        /\ AwaitSave(old, pc, saved).queue = old.queue
        /\ AwaitSave(old, pc, saved).seen = old.seen
        /\ AwaitSave(old, pc, saved).client = old.client
        /\ AwaitSave(old, pc, saved).reply = old.reply
    BY AwaitSaveIs, ZenonT(60)
  <2>6. local \in StrLocals
    BY <2>4, <2>5
  <2>7. local.pc = "saveEnd" /\ local.queue = told.queue /\ local.seen = told.seen
    BY <2>1, <2>2, <2>4, <2>5
  <2>8. local.client = told.client /\ local.reply = told.reply
    BY <2>2, <2>4, <2>5
  <2> QED
    BY <2>6, <2>7, <2>8
<1>13. ~disturbed /\ t = posted => Proceeds(local, session, t)
  <2>1. SaveFits(told, "saveEnd", row, t)
    BY <1>4 DEF SaveFits
  <2> QED
    BY <1>4, <1>7, <1>10, <1>11, <2>1, SavingProceeds
<1> HIDE DEF local
<1>14. ~IsTold(local, "ok") /\ ~IsTold(local, "interrupt")
  BY <1>10, <1>12 DEF IsTold
<1>15. InOrder(local)
  BY <1>7, <1>8, <1>12, <1>14 DEF InOrder, IsTold
<1>16. t <= posted
  BY <1>1, BegunIsPosted
<1>17. local.client \in {"listening", "replying"} => Attached(t)
  BY <1>7, <1>12 DEF Attached
<1>18. ~ \E i \in DOMAIN local.seen : local.seen[i] = "ok"
  BY <1>14 DEF IsTold
<1> QED
  BY <1>5, <1>12, <1>13, <1>15, <1>16, <1>17, <1>18, StreamMoves

-----------------------------------------------------------------------------
(* The worker thread, and a task that is cancelled. *)

(* What is known of any message that was posted. *)
LEMMA Posted ==
    ASSUME StrInv, NEW t \in Post
    PROVE  /\ stream[t] \in StrLocals /\ InOrder(stream[t])
           /\ ~disturbed /\ t = posted => /\ Proceeds(stream[t], session, t)
                                          /\ session.paused => session.exists
           /\ Attached(t) => t = posted
           /\ endpoint # "server" /\ ~disturbed /\ stream[t].client = "done"
                /\ (\E i \in DOMAIN stream[t].seen : stream[t].seen[i] = "ok") => stream[t].reply = t
<1>1. stream[t] \in StrLocals /\ InOrder(stream[t])
  BY StreamedIsTyped DEF StrInv, EventsAreInOrder
<1>2. ~disturbed /\ t = posted => Proceeds(stream[t], session, t) /\ (session.paused => session.exists)
  BY StreamedTurnAssumption DEF StrInv, TurnProceeds, Post
<1>3. Attached(t) => t = posted
  BY DEF StrInv, OneListener
<1>4. endpoint # "server" /\ ~disturbed /\ stream[t].client = "done"
        /\ (\E i \in DOMAIN stream[t].seen : stream[t].seen[i] = "ok") => stream[t].reply = t
  BY DEF StrInv, RepliesAreSent
<1> QED
  BY <1>1, <1>2, <1>3, <1>4

LEMMA WorkerStartsInv ==
    ASSUME StrInv, NEW t \in Post, WorkerStarts(t)
    PROVE  StrInv'
<1> DEFINE save == [stream[t].save EXCEPT !.stage = "started"]
           local == [stream[t] EXCEPT !.save = save]
<1>1. stream[t] \in StrLocals /\ InOrder(stream[t])
  BY Posted
<1>2. stream[t].save.stage = "queued" /\ Moves(t, local)
  BY <1>1 DEF WorkerStarts, StrLocals
<1>3. /\ save \in [stage : {"none", "queued", "started", "done"}, row : StrRow]
      /\ save.stage = "started" /\ save.row = stream[t].save.row
  BY <1>1 DEF StrLocals
<1>4. stream[t] # NewStream
  BY <1>2 DEF NewStream, NoSave
<1>5. t <= posted
  BY <1>4, StreamedIsTyped, StreamedTurnAssumption DEF StrInv, OneListener, Post
<1> HIDE DEF save
<1>6. local \in StrLocals
  BY <1>1, <1>3 DEF StrLocals
<1>7. /\ local.pc = stream[t].pc /\ local.row = stream[t].row /\ local.save = save
      /\ local.queue = stream[t].queue /\ local.seen = stream[t].seen
      /\ local.client = stream[t].client /\ local.reply = stream[t].reply
  BY <1>1 DEF StrLocals
<1>8. local.resume = stream[t].resume
  BY <1>1 DEF StrLocals
<1>9. Moves(t, local)
  BY <1>2
<1> HIDE DEF local
<1>10. InOrder(local)
  BY <1>1, <1>7 DEF InOrder, IsTold
<1>11. ASSUME ~disturbed, t = posted PROVE Proceeds(local, session, t)
  <2>1. Proceeds(stream[t], session, t)
    BY <1>11, Posted
  <2>2. stream[t].save # NoSave
    BY <1>2 DEF NoSave
  <2>3. ~IsTold(stream[t], "interrupt") /\ ~IsTold(stream[t], "ok")
    BY <2>1, <2>2 DEF Proceeds
  <2>4. ~IsTold(local, "interrupt") /\ ~IsTold(local, "ok")
    BY <2>3, <1>7 DEF IsTold
  <2> QED
    BY <2>1, <2>2, <2>4, <1>2, <1>3, <1>7, <1>8 DEF Proceeds
<1>12. local.client \in {"listening", "replying"} => Attached(t)
  BY <1>7 DEF Attached
<1>13. endpoint # "server" /\ ~disturbed /\ local.client = "done"
         /\ (\E i \in DOMAIN local.seen : local.seen[i] = "ok") => local.reply = t
  BY <1>7, Posted
<1> QED
  BY <1>5, <1>6, <1>9, <1>10, <1>11, <1>12, <1>13, StreamMoves

(* The save of a turn reaches the session: that of the last message is what *)
(* its turn goes on from, and that of an earlier one disturbs it.           *)
LEMMA WorkerSavesInv ==
    ASSUME StrInv, NEW t \in Post, WorkerSaves(t)
    PROVE  StrInv'
<1> DEFINE save == IF stream[t].pc = "over" THEN NoSave ELSE [stream[t].save EXCEPT !.stage = "done"]
           local == [stream[t] EXCEPT !.save = save]
<1>0. StrTypeOK /\ OneListener /\ EventsAreInOrder /\ TurnProceeds /\ RepliesAreSent
  BY DEF StrInv
<1>1. stream[t] \in StrLocals /\ InOrder(stream[t]) /\ stream[t].save.row \in StrRow
  BY Posted DEF StrLocals
<1>2. stream[t].save.stage = "started" /\ session' = stream[t].save.row
  BY DEF WorkerSaves
<1>3. stream' = [stream EXCEPT ![t] = local]
  BY <1>1, <1>0 DEF WorkerSaves, StrTypeOK
<1>4. endpoint' = endpoint /\ posted' = posted
  BY DEF WorkerSaves
<1>5. disturbed' \in BOOLEAN /\ (disturbed \/ t < posted => disturbed')
  BY DEF WorkerSaves
<1>6. disturbed => disturbed'
  BY <1>5
<1>7. /\ stream[t].pc = "over" => save = NoSave
      /\ stream[t].pc # "over" => save.stage = "done" /\ save.row = stream[t].save.row
      /\ save \in [stage : {"none", "queued", "started", "done"}, row : StrRow]
  <2>1. NoSave \in [stage : {"none", "queued", "started", "done"}, row : StrRow]
    BY DEF NoSave, NoSession, StrRow
  <2>2. [stream[t].save EXCEPT !.stage = "done"] \in [stage : {"none", "queued", "started", "done"}, row : StrRow]
    BY <1>1 DEF StrLocals
  <2>3. /\ [stream[t].save EXCEPT !.stage = "done"].stage = "done"
        /\ [stream[t].save EXCEPT !.stage = "done"].row = stream[t].save.row
    BY <1>1 DEF StrLocals
  <2> QED
    BY <2>1, <2>2, <2>3
<1> HIDE DEF save
<1>8. local \in StrLocals
  BY <1>1, <1>7 DEF StrLocals
<1>9. /\ local.pc = stream[t].pc /\ local.row = stream[t].row /\ local.save = save
      /\ local.queue = stream[t].queue /\ local.seen = stream[t].seen
      /\ local.client = stream[t].client /\ local.reply = stream[t].reply
  BY <1>1 DEF StrLocals
<1>10. local.resume = stream[t].resume
  BY <1>1 DEF StrLocals
<1> HIDE DEF local
<1>11. stream \in [Post -> StrLocals] /\ posted \in Nat /\ t \in Nat /\ posted <= MaxPosts
  BY <1>0, StreamedIsTyped, StreamedTurnAssumption DEF StrTypeOK, Post
<1>12. stream'[t] = local /\ \A u \in Post : u # t => stream'[u] = stream[u]
  BY <1>3, <1>11
<1>13. t <= posted
  <2>1. stream[t] # NewStream
    BY <1>2 DEF NewStream, NoSave
  <2> QED
    BY <2>1, <1>0, <1>11 DEF OneListener
<1>14. StrTypeOK'
  BY <1>0, <1>1, <1>2, <1>3, <1>4, <1>5, <1>8 DEF StrTypeOK
<1>15. OneListener'
  <2> SUFFICES ASSUME NEW u \in Post
               PROVE  /\ u # posted => stream'[u].client \notin {"listening", "replying"}
                      /\ u > posted => stream'[u] = NewStream
    BY <1>4 DEF OneListener, Attached
  <2>1. /\ u # posted => stream[u].client \notin {"listening", "replying"}
        /\ u > posted => stream[u] = NewStream
    BY <1>0 DEF OneListener, Attached
  <2>2. CASE u = t
    BY <2>1, <2>2, <1>9, <1>11, <1>12, <1>13
  <2>3. CASE u # t
    BY <2>1, <2>3, <1>12
  <2> QED
    BY <2>2, <2>3
<1>16. EventsAreInOrder'
  <2> SUFFICES ASSUME NEW u \in Post PROVE InOrder(stream'[u])
    BY DEF EventsAreInOrder
  <2>1. InOrder(stream[u])
    BY <1>0 DEF EventsAreInOrder
  <2>2. InOrder(local)
    BY <1>1, <1>9 DEF InOrder, IsTold
  <2> QED
    BY <1>12, <2>1, <2>2
<1>17. TurnProceeds'
  <2> SUFFICES ASSUME ~disturbed'
               PROVE  /\ session'.paused => session'.exists
                      /\ posted > 0 => Proceeds(stream'[posted], session', posted)
    BY <1>4 DEF TurnProceeds
  <2>1. ~disturbed /\ t = posted
    BY <1>5, <1>11, <1>13
  <2>2. Proceeds(stream[t], session, t)
    BY <2>1, Posted
  <2>3. session'.exists
    BY <2>2, <1>2 DEF Proceeds
  <2>4. stream[t].save # NoSave
    BY <1>2 DEF NoSave
  <2>5. ~IsTold(stream[t], "interrupt") /\ ~IsTold(stream[t], "ok")
    BY <2>2, <2>4 DEF Proceeds
  <2>6. ~IsTold(local, "interrupt") /\ ~IsTold(local, "ok")
    BY <2>5, <1>9 DEF IsTold
  <2>7. stream[t].pc \in StreamSaving \/ stream[t].pc = "over"
    BY <2>2, <2>4 DEF Proceeds
  <2>8. local.pc \in StreamSaving => save.row = local.row /\ session' = local.row /\ save.stage = "done"
    BY <2>2, <1>2, <1>7, <1>9 DEF Proceeds, StreamSaving
  <2>9. NoSave.stage = "none"
    BY DEF NoSave
  <2>10. Proceeds(local, session', t)
    BY <2>2, <2>3, <2>6, <2>7, <2>8, <2>9, <1>7, <1>9, <1>10 DEF Proceeds, StreamSaving
  <2> QED
    BY <2>1, <2>3, <2>10, <1>12
<1>18. RepliesAreSent'
  <2> SUFFICES ASSUME endpoint # "server", ~disturbed', NEW u \in Post, stream'[u].client = "done",
                      NEW i \in DOMAIN stream'[u].seen, stream'[u].seen[i] = "ok"
               PROVE  stream'[u].reply = u
    BY <1>4 DEF RepliesAreSent
  <2>1. ~disturbed
    BY <1>6
  <2> QED
    BY <2>1, <1>0, <1>9, <1>12 DEF RepliesAreSent
<1> QED
  BY <1>14, <1>15, <1>16, <1>17, <1>18 DEF StrInv

LEMMA CancelRunnerInv ==
    ASSUME StrInv, NEW t \in Post, CancelRunner(t)
    PROVE  StrInv'
<1> DEFINE save == IF stream[t].save.stage = "started" THEN stream[t].save ELSE NoSave
           local == [stream[t] EXCEPT !.pc = "over", !.row = NoSession, !.resume = FALSE, !.save = save]
<1>1. stream[t] \in StrLocals /\ InOrder(stream[t])
  BY Posted
<1>2. stream[t].client = "gone" /\ stream[t].pc # "over"
  BY DEF CancelRunner
<1>3. Moves(t, local)
  BY <1>1 DEF CancelRunner, StrLocals
<1>4. NoSession \in StrRow /\ NoSave.stage = "none"
  BY DEF NoSession, StrRow, NoSave
<1>5. NoSave \in [stage : {"none", "queued", "started", "done"}, row : StrRow]
  BY <1>4 DEF NoSave
<1>6. save \in [stage : {"none", "queued", "started", "done"}, row : StrRow]
  BY <1>1, <1>5 DEF StrLocals
<1>7. save = stream[t].save \/ save = NoSave
  OBVIOUS
<1> HIDE DEF save
<1>8. local \in StrLocals
  BY <1>1, <1>4, <1>6 DEF StrLocals
<1>9. /\ local.pc = "over" /\ local.save = save
      /\ local.queue = stream[t].queue /\ local.seen = stream[t].seen
      /\ local.client = stream[t].client /\ local.reply = stream[t].reply
  BY <1>1 DEF StrLocals
<1> HIDE DEF local
<1>10. t <= posted
  BY <1>2, BegunIsPosted
<1>11. ~IsTold(local, "interrupt") /\ ~IsTold(local, "ok")
  BY <1>1, <1>2, <1>9 DEF InOrder, IsTold
<1>12. InOrder(local)
  BY <1>1, <1>9, <1>11 DEF InOrder, IsTold
<1>13. ASSUME ~disturbed, t = posted PROVE Proceeds(local, session, t)
  <2>1. Proceeds(stream[t], session, t)
    BY <1>13, Posted
  <2>2. save.stage # "none" => save.row.exists
    BY <2>1, <1>4, <1>7 DEF Proceeds
  <2> QED
    BY <2>2, <1>9, <1>11 DEF Proceeds, StreamSaving
<1> QED
  BY <1>2, <1>3, <1>8, <1>9, <1>10, <1>11, <1>12, <1>13, StreamMoves DEF IsTold

(* The reply that is read from the session is the last one that was said.   *)
LEMMA LastReplyIs ==
    ASSUME NEW row \in StrRow, NEW t \in Post, EndsWith(row, "assistant", t)
    PROVE  LastReplyOf(row) = t
<1> DEFINE replies == {i \in DOMAIN row.messages : row.messages[i].role = "assistant"}
<1>1. row.messages \in Seq([role : {"user", "assistant"}, turn : Post])
  BY DEF StrRow
<1>2. Len(row.messages) \in DOMAIN row.messages
  BY <1>1 DEF EndsWith
<1>3. /\ row.messages[Len(row.messages)].role = "assistant"
      /\ row.messages[Len(row.messages)].turn = t
  BY DEF EndsWith, SaidIn
<1>4. Len(row.messages) \in replies
  BY <1>2, <1>3
<1>5. \A i \in replies : i \in Nat /\ Len(row.messages) >= i
  BY <1>1
<1>6. \A n \in replies : (\A i \in replies : n >= i) => n = Len(row.messages)
  BY <1>4, <1>5
<1>7. LastReplyOf(row) = row.messages[Max(replies)].turn
  BY <1>4 DEF LastReplyOf
<1> HIDE DEF replies
<1>8. Max(replies) = Len(row.messages)
  BY <1>4, <1>5, <1>6 DEF Max
<1> QED
  BY <1>3, <1>7, <1>8

LEMMA ReplyIsANumber ==
    ASSUME NEW row \in StrRow
    PROVE  LastReplyOf(row) \in Nat
<1> DEFINE Words == [role : {"user", "assistant"}, turn : Post]
           messages == row.messages
           replies == {i \in DOMAIN messages : messages[i].role = "assistant"}
<1>1. messages \in Seq(Words)
  BY DEF StrRow
<1>2. LastReplyOf(row) = IF replies = {} THEN 0 ELSE messages[Max(replies)].turn
  BY DEF LastReplyOf
<1>3. \A said \in Words : said.turn \in Nat
  BY StreamedTurnAssumption DEF Post
<1> HIDE DEF Words, messages
<1>4. \A i \in DOMAIN messages : messages[i] \in Words
  BY <1>1
<1>5. replies \in SUBSET DOMAIN messages
  OBVIOUS
<1> HIDE DEF replies
<1>6. replies # {} => Max(replies) \in DOMAIN messages
  BY <1>1, <1>5, MaxOfIndices
<1> QED
  BY <1>2, <1>3, <1>4, <1>6

LEMMA SendReplyInv ==
    ASSUME StrInv, NEW t \in Post, SendReply(t)
    PROVE  StrInv'
<1> DEFINE reply == LastReplyOf(session)
           local == [stream[t] EXCEPT !.client = "done", !.reply = reply]
<1>1. stream[t] \in StrLocals /\ InOrder(stream[t]) /\ session \in StrRow
  BY Posted, StreamedIsTyped
<1>2. stream[t].client = "replying" /\ Moves(t, local)
  BY DEF SendReply
<1>3. reply \in Nat
  BY <1>1, ReplyIsANumber
<1>4. ~disturbed /\ t = posted /\ IsTold(stream[t], "ok") => reply = t
  BY <1>1, Posted, LastReplyIs DEF Proceeds
<1> HIDE DEF reply
<1>5. local \in StrLocals
  BY <1>1, <1>3 DEF StrLocals
<1>6. /\ local.pc = stream[t].pc /\ local.row = stream[t].row /\ local.save = stream[t].save
      /\ local.queue = stream[t].queue /\ local.seen = stream[t].seen
      /\ local.client = "done" /\ local.reply = reply
  BY <1>1 DEF StrLocals
<1>7. local.resume = stream[t].resume
  BY <1>1 DEF StrLocals
<1> HIDE DEF local
<1>8. t <= posted /\ t = posted
  BY <1>2, BegunIsPosted, Posted DEF Attached
<1>9. InOrder(local)
  BY <1>1, <1>6 DEF InOrder, IsTold
<1>10. ASSUME ~disturbed PROVE Proceeds(local, session, t)
  <2>1. Proceeds(stream[t], session, t)
    BY <1>8, <1>10, Posted
  <2>2. /\ IsTold(local, "ok") => IsTold(stream[t], "ok")
        /\ IsTold(local, "interrupt") => IsTold(stream[t], "interrupt")
    BY <1>6 DEF IsTold
  <2> QED
    BY <2>1, <2>2, <1>6, <1>7 DEF Proceeds
<1>11. endpoint # "server" /\ ~disturbed /\ local.client = "done"
         /\ (\E i \in DOMAIN local.seen : local.seen[i] = "ok") => local.reply = t
  BY <1>4, <1>6, <1>8 DEF IsTold
<1> QED
  BY <1>2, <1>5, <1>6, <1>8, <1>9, <1>10, <1>11, StreamMoves

-----------------------------------------------------------------------------
(* The client. *)

LEMMA FirstOfQueue ==
    ASSUME NEW queue \in Seq(StreamEvent), queue # <<>>
    PROVE  /\ Head(queue) = queue[1] /\ Head(queue) \in StreamEvent /\ 1 \in DOMAIN queue
           /\ Tail(queue) \in Seq(StreamEvent) /\ Len(Tail(queue)) = Len(queue) - 1
           /\ Len(queue) \in Nat
           /\ \A i \in DOMAIN Tail(queue) : i + 1 \in DOMAIN queue /\ Tail(queue)[i] = queue[i + 1]
  OBVIOUS

LEMMA AppendedEvent ==
    ASSUME NEW seen \in Seq(StreamEvent), NEW event \in StreamEvent
    PROVE  /\ Append(seen, event) \in Seq(StreamEvent)
           /\ Len(Append(seen, event)) = Len(seen) + 1
           /\ \A i \in DOMAIN Append(seen, event) :
                 \/ i \in DOMAIN seen /\ Append(seen, event)[i] = seen[i]
                 \/ i = Len(seen) + 1 /\ Append(seen, event)[i] = event
  OBVIOUS

(* What is told stays in order while it goes from the queue to the client.  *)
LEMMA EventTaken ==
    ASSUME NEW old \in StrLocals, InOrder(old), old.queue # <<>>, old.client # "gone",
           NEW local \in StrLocals, local.queue = Tail(old.queue), local.pc = old.pc,
           local.client # "gone",
           IF Head(old.queue) = "none" THEN local.seen = old.seen
           ELSE local.seen = Append(old.seen, Head(old.queue))
    PROVE  /\ InOrder(local)
           /\ IsTold(local, "ok") => IsTold(old, "ok")
           /\ IsTold(local, "interrupt") => IsTold(old, "interrupt")
           /\ Head(old.queue) = "interrupt" => ~ \E i \in DOMAIN local.seen : local.seen[i] = "ok"
<1> DEFINE event == Head(old.queue)
<1>1. /\ old.queue \in Seq(StreamEvent) /\ old.seen \in Seq(StreamEvent)
      /\ local.queue \in Seq(StreamEvent) /\ local.seen \in Seq(StreamEvent)
  BY DEF StrLocals
<1>2. /\ event = old.queue[1] /\ event \in StreamEvent /\ 1 \in DOMAIN old.queue
      /\ Len(local.queue) = Len(old.queue) - 1 /\ Len(old.queue) \in Nat
      /\ \A i \in DOMAIN local.queue : i + 1 \in DOMAIN old.queue /\ local.queue[i] = old.queue[i + 1]
  <2>1. PICK queue \in Seq(StreamEvent) : queue = old.queue
    BY <1>1
  <2> QED
    BY <2>1, FirstOfQueue
<1> HIDE DEF event
<1>3. event # "none" =>
         /\ Len(local.seen) = Len(old.seen) + 1
         /\ \A i \in DOMAIN local.seen : \/ i \in DOMAIN old.seen /\ local.seen[i] = old.seen[i]
                                         \/ i = Len(old.seen) + 1 /\ local.seen[i] = event
  <2> SUFFICES ASSUME event # "none"
               PROVE  /\ Len(local.seen) = Len(old.seen) + 1
                      /\ \A i \in DOMAIN local.seen : \/ i \in DOMAIN old.seen /\ local.seen[i] = old.seen[i]
                                                      \/ i = Len(old.seen) + 1 /\ local.seen[i] = event
    OBVIOUS
  <2>1. PICK seen \in Seq(StreamEvent) : seen = old.seen
    BY <1>1
  <2>2. local.seen = Append(seen, event)
    BY <2>1 DEF event
  <2> QED
    BY <1>2, <2>1, <2>2, AppendedEvent
<1>4. event = "none" => local.seen = old.seen
  BY DEF event
<1>5. \A i \in DOMAIN old.queue : old.queue[i] = "ok" =>
         Len(old.queue) = i + 1 /\ old.queue[i + 1] = "none"
  BY DEF InOrder
<1>6. \A i \in DOMAIN old.seen : old.seen[i] = "ok" =>
         /\ i = Len(old.seen)
         /\ \A j \in DOMAIN old.queue : j = 1 /\ old.queue[j] = "none"
  BY DEF InOrder
<1>7. \A i \in DOMAIN local.queue : local.queue[i] = "ok" =>
         Len(local.queue) = i + 1 /\ local.queue[i + 1] = "none"
  <2> SUFFICES ASSUME NEW i \in DOMAIN local.queue, local.queue[i] = "ok"
               PROVE  Len(local.queue) = i + 1 /\ local.queue[i + 1] = "none"
    OBVIOUS
  <2>1. Len(old.queue) = (i + 1) + 1 /\ old.queue[(i + 1) + 1] = "none"
    <3>1. i + 1 \in DOMAIN old.queue /\ old.queue[i + 1] = "ok"
      BY <1>2
    <3> QED
      BY <3>1, <1>5
  <2>2. Len(local.queue) = i + 1 /\ i \in Nat
    <3>1. DOMAIN local.queue = 1..Len(local.queue)
      BY <1>1
    <3>2. Len(local.queue) = Len(old.queue) - 1 /\ Len(old.queue) \in Nat
      BY <1>2
    <3> QED
      BY <2>1, <3>1, <3>2
  <2>3. i + 1 \in DOMAIN local.queue
    BY <2>2, <1>1
  <2> QED
    BY <2>1, <2>2, <2>3, <1>2
<1>8. ASSUME NEW i \in DOMAIN local.seen, local.seen[i] = "ok"
      PROVE  /\ i = Len(local.seen)
             /\ \A j \in DOMAIN local.queue : j = 1 /\ local.queue[j] = "none"
  <2>1. CASE i \in DOMAIN old.seen /\ old.seen[i] = "ok"
    <3>1. /\ i = Len(old.seen) /\ event = "none"
          /\ \A j \in DOMAIN old.queue : j = 1
      BY <2>1, <1>2, <1>6
    <3>2. \A j \in DOMAIN local.queue : FALSE
      <4> SUFFICES ASSUME NEW j \in DOMAIN local.queue PROVE FALSE
        OBVIOUS
      <4>1. j \in Nat /\ j >= 1 /\ j + 1 = 1
        BY <3>1, <1>1, <1>2
      <4> QED
        BY <4>1
    <3> QED
      BY <3>1, <3>2, <1>4
  <2>2. CASE event = "ok"
    <3>1. Len(old.queue) = 1 + 1 /\ old.queue[1 + 1] = "none"
      BY <2>2, <1>2, <1>5
    <3>2. \A j \in DOMAIN local.queue : j = 1 /\ local.queue[j] = "none"
      BY <3>1, <1>1, <1>2
    <3>3. i \notin DOMAIN old.seen \/ old.seen[i] # "ok"
      BY <2>2, <1>2, <1>6
    <3>4. i = Len(local.seen)
      BY <2>2, <3>3, <1>3, <1>8
    <3> QED
      BY <3>2, <3>4
  <2> QED
    BY <2>1, <2>2, <1>3, <1>4, <1>8
<1>9. /\ IsTold(local, "ok") => IsTold(old, "ok")
      /\ IsTold(local, "interrupt") => IsTold(old, "interrupt")
  BY <1>2, <1>3, <1>4 DEF IsTold
<1>10. InOrder(local)
  BY <1>7, <1>8, <1>9 DEF InOrder
<1>11. event = "interrupt" => ~ \E i \in DOMAIN local.seen : local.seen[i] = "ok"
  BY <1>2, <1>3, <1>6
<1> QED
  BY <1>9, <1>10, <1>11 DEF event

LEMMA TakeEventInv ==
    ASSUME StrInv, NEW t \in Post, TakeEvent(t)
    PROVE  StrInv'
<1> DEFINE event == Head(stream[t].queue)
           queue == Tail(stream[t].queue)
           seen == IF event = "none" THEN stream[t].seen ELSE Append(stream[t].seen, event)
           client == IF event = "none" THEN (IF endpoint = "server" THEN "done" ELSE "replying")
                     ELSE IF endpoint = "stops" /\ event = "interrupt" THEN "done" ELSE "listening"
           local == [stream[t] EXCEPT !.queue = queue, !.seen = seen, !.client = client]
<1>1. stream[t] \in StrLocals /\ InOrder(stream[t])
  BY Posted
<1>2. stream[t].client = "listening" /\ stream[t].queue # <<>>
  BY DEF TakeEvent
<1>3. stream[t].queue \in Seq(StreamEvent) /\ stream[t].seen \in Seq(StreamEvent)
  BY <1>1 DEF StrLocals
<1>4. event \in StreamEvent /\ queue \in Seq(StreamEvent)
  BY <1>2, <1>3, FirstOfQueue
<1>5. seen \in Seq(StreamEvent)
  BY <1>3, <1>4
<1>6. client \in {"listening", "replying", "done"}
  OBVIOUS
<1>7. Moves(t, local)
  <2>1. CASE event = "none"
    <3>1. Moves(t, [[stream[t] EXCEPT !.queue = queue]
                      EXCEPT !.client = IF endpoint = "server" THEN "done" ELSE "replying"])
      BY <2>1 DEF TakeEvent
    <3> HIDE DEF queue, event
    <3>2. local = [[stream[t] EXCEPT !.queue = queue]
                     EXCEPT !.client = IF endpoint = "server" THEN "done" ELSE "replying"]
      BY <2>1, <1>1 DEF StrLocals
    <3> QED
      BY <3>1, <3>2
  <2>2. CASE event # "none"
    <3>1. Moves(t, [[stream[t] EXCEPT !.queue = queue]
                      EXCEPT !.seen = Append(@, event),
                             !.client = IF endpoint = "stops" /\ event = "interrupt" THEN "done" ELSE @])
      BY <2>2 DEF TakeEvent
    <3> HIDE DEF queue, event
    <3>2. local = [[stream[t] EXCEPT !.queue = queue]
                      EXCEPT !.seen = Append(@, event),
                             !.client = IF endpoint = "stops" /\ event = "interrupt" THEN "done" ELSE @]
      BY <2>2, <1>1, <1>2 DEF StrLocals
    <3> QED
      BY <3>1, <3>2
  <2> QED
    BY <2>1, <2>2
<1>8. IF event = "none" THEN seen = stream[t].seen ELSE seen = Append(stream[t].seen, event)
  OBVIOUS
<1>9. client = "done" => endpoint = "server" \/ event = "interrupt"
  OBVIOUS
<1> HIDE DEF seen, client, queue
<1>10. local \in StrLocals
  BY <1>1, <1>4, <1>5, <1>6 DEF StrLocals
<1>11. /\ local.pc = stream[t].pc /\ local.row = stream[t].row /\ local.save = stream[t].save
       /\ local.queue = queue /\ local.seen = seen
       /\ local.client = client /\ local.reply = stream[t].reply
  BY <1>1 DEF StrLocals
<1>12. local.resume = stream[t].resume
  BY <1>1 DEF StrLocals
<1> HIDE DEF local
<1>13. /\ InOrder(local)
       /\ IsTold(local, "ok") => IsTold(stream[t], "ok")
       /\ IsTold(local, "interrupt") => IsTold(stream[t], "interrupt")
       /\ event = "interrupt" => ~ \E i \in DOMAIN local.seen : local.seen[i] = "ok"
  <2>1. PICK old \in StrLocals : old = stream[t]
    BY <1>1
  <2>2. local.queue = Tail(old.queue) /\ local.client # "gone" /\ local.pc = old.pc
    BY <2>1, <1>6, <1>11 DEF queue
  <2>3. IF Head(old.queue) = "none" THEN local.seen = old.seen
        ELSE local.seen = Append(old.seen, Head(old.queue))
    BY <2>1, <1>8, <1>11
  <2>4. InOrder(old) /\ old.queue # <<>> /\ old.client # "gone" /\ event = Head(old.queue)
    BY <2>1, <1>1, <1>2
  <2> HIDE DEF event
  <2> QED
    BY <2>1, <2>2, <2>3, <2>4, <1>10, EventTaken
<1> HIDE DEF event
<1>14. ASSUME ~disturbed, t = posted PROVE Proceeds(local, session, t)
  <2>1. Proceeds(stream[t], session, t)
    BY <1>14, Posted
  <2> QED
    BY <2>1, <1>11, <1>12, <1>13 DEF Proceeds
<1>15. t <= posted
  BY <1>2, BegunIsPosted
<1>16. local.client \in {"listening", "replying"} => Attached(t)
  BY <1>2 DEF Attached
<1>17. endpoint # "server" /\ ~disturbed /\ local.client = "done"
         /\ (\E i \in DOMAIN local.seen : local.seen[i] = "ok") => local.reply = t
  BY <1>9, <1>11, <1>13
<1> QED
  BY <1>7, <1>10, <1>13, <1>14, <1>15, <1>16, <1>17, StreamMoves

LEMMA LeaveStreamInv ==
    ASSUME StrInv, NEW t \in Post, LeaveStream(t)
    PROVE  StrInv'
<1> DEFINE local == [stream[t] EXCEPT !.client = "gone", !.queue = <<>>]
<1>0. StrTypeOK /\ OneListener /\ EventsAreInOrder /\ TurnProceeds /\ RepliesAreSent
  BY DEF StrInv
<1>1. stream[t] \in StrLocals /\ InOrder(stream[t])
  BY Posted
<1>2. t <= posted
  BY BegunIsPosted DEF LeaveStream, Attached
<1>3. stream \in [Post -> StrLocals] /\ posted \in Nat /\ t \in Nat
  BY <1>0, StreamedIsTyped, StreamedTurnAssumption DEF StrTypeOK, Post
<1>4. stream' = [stream EXCEPT ![t] = local]
  BY <1>3 DEF LeaveStream
<1>5. session' = session /\ posted' = posted /\ endpoint' = endpoint
  BY DEF LeaveStream
<1>6. disturbed' = disturbed
  BY DEF LeaveStream
<1>7. local \in StrLocals
  <2> DEFINE queue == <<>>
  <2>1. queue \in Seq(StreamEvent)
    OBVIOUS
  <2> HIDE DEF queue
  <2>2. [stream[t] EXCEPT !.client = "gone", !.queue = queue] \in StrLocals
    BY <1>1, <2>1 DEF StrLocals
  <2> QED
    BY <2>2 DEF queue
<1>8. /\ local.pc = stream[t].pc /\ local.row = stream[t].row /\ local.save = stream[t].save
      /\ local.queue = <<>> /\ local.seen = stream[t].seen
      /\ local.client = "gone" /\ local.reply = stream[t].reply
  BY <1>1 DEF StrLocals
<1>9. local.resume = stream[t].resume
  BY <1>1 DEF StrLocals
<1> HIDE DEF local
<1>10. stream'[t] = local /\ \A u \in Post : u # t => stream'[u] = stream[u]
  BY <1>3, <1>4
<1>11. /\ IsTold(local, "ok") => IsTold(stream[t], "ok")
       /\ IsTold(local, "interrupt") => IsTold(stream[t], "interrupt")
  BY <1>8 DEF IsTold
<1>12. InOrder(local)
  BY <1>1, <1>8, <1>11 DEF InOrder
<1>13. ASSUME ~disturbed, t = posted PROVE Proceeds(local, session, t)
  <2>1. Proceeds(stream[t], session, t)
    BY <1>13, Posted
  <2> QED
    BY <2>1, <1>8, <1>9, <1>11 DEF Proceeds
<1>14. StrTypeOK'
  BY <1>0, <1>3, <1>4, <1>5, <1>6, <1>7 DEF StrTypeOK
<1>15. OneListener'
  <2> SUFFICES ASSUME NEW u \in Post
               PROVE  /\ u # posted => stream'[u].client \notin {"listening", "replying"}
                      /\ u > posted => stream'[u] = NewStream
    BY <1>5 DEF OneListener, Attached
  <2>1. /\ u # posted => stream[u].client \notin {"listening", "replying"}
        /\ u > posted => stream[u] = NewStream
    BY <1>0 DEF OneListener, Attached
  <2>2. CASE u = t
    BY <2>2, <1>2, <1>3, <1>8, <1>10
  <2>3. CASE u # t
    BY <2>1, <2>3, <1>10
  <2> QED
    BY <2>2, <2>3
<1>16. EventsAreInOrder'
  <2> SUFFICES ASSUME NEW u \in Post PROVE InOrder(stream'[u])
    BY DEF EventsAreInOrder
  <2>1. InOrder(stream[u])
    BY <1>0 DEF EventsAreInOrder
  <2> QED
    BY <1>10, <1>12, <2>1
<1>17. TurnProceeds'
  <2> SUFFICES ASSUME ~disturbed
               PROVE  /\ session.paused => session.exists
                      /\ posted > 0 => Proceeds(stream'[posted], session, posted)
    BY <1>5, <1>6 DEF TurnProceeds
  <2>1. /\ session.paused => session.exists
        /\ posted > 0 => Proceeds(stream[posted], session, posted)
    BY <1>0 DEF TurnProceeds
  <2>2. posted > 0 => posted \in Post
    BY <1>0 DEF StrTypeOK, Post
  <2> QED
    BY <2>1, <2>2, <1>10, <1>13
<1>18. RepliesAreSent'
  <2> SUFFICES ASSUME endpoint # "server", ~disturbed, NEW u \in Post, stream'[u].client = "done",
                      NEW i \in DOMAIN stream'[u].seen, stream'[u].seen[i] = "ok"
               PROVE  stream'[u].reply = u
    BY <1>5, <1>6 DEF RepliesAreSent
  <2>1. u # t
    BY <1>8, <1>10
  <2> QED
    BY <2>1, <1>0, <1>10 DEF RepliesAreSent
<1> QED
  BY <1>14, <1>15, <1>16, <1>17, <1>18 DEF StrInv

(* A new message: nobody listens to the ones before it any more.            *)
LEMMA PostMessageInv == StrInv /\ PostMessage => StrInv'
<1> SUFFICES ASSUME StrInv, PostMessage PROVE StrInv'
  OBVIOUS
<1>0. StrTypeOK /\ OneListener /\ EventsAreInOrder /\ TurnProceeds /\ RepliesAreSent
  BY DEF StrInv
<1> DEFINE t == posted + 1
<1>1. posted < MaxPosts /\ posted' = t /\ (posted > 0 => ~Attached(posted))
  BY DEF PostMessage
<1>2. session' = session /\ endpoint' = endpoint
  BY DEF PostMessage
<1>3. disturbed' = disturbed
  BY DEF PostMessage
<1>4. stream \in [Post -> StrLocals] /\ posted \in Nat /\ MaxPosts \in Nat
  BY <1>0, StreamedIsTyped, StreamedTurnAssumption DEF StrTypeOK, Post
<1>5. t \in Post /\ t \in 0..MaxPosts
  BY <1>1, <1>4 DEF Post
<1>6. PICK local : /\ local \in StrLocals
                   /\ stream' = [stream EXCEPT ![t] = local]
                   /\ local.pc = "preparing" /\ local.save = NoSave /\ local.queue = <<>>
                   /\ local.seen = <<>> /\ local.client = "listening"
                   /\ local.resume => posted > 0 /\ "interrupt" \in ToSet(stream[posted].seen)
  <2>1. PICK resume \in {FALSE} \cup IF endpoint = "server" /\ posted > 0
                                        /\ "interrupt" \in ToSet(stream[posted].seen)
                                      THEN {TRUE} ELSE {} :
          stream' = [stream EXCEPT ![posted'] = [NewStream EXCEPT !.pc = "preparing", !.resume = resume,
                                                                  !.client = "listening"]]
    BY DEF PostMessage
  <2> DEFINE local == [NewStream EXCEPT !.pc = "preparing", !.resume = resume, !.client = "listening"]
  <2>2. resume \in BOOLEAN
    OBVIOUS
  <2>3. resume => posted > 0 /\ "interrupt" \in ToSet(stream[posted].seen)
    OBVIOUS
  <2>4. NewStream \in StrLocals
    BY DEF NewStream, NoSave, NoSession, StrLocals, StrRow
  <2>5. local \in StrLocals
    BY <2>2, <2>4 DEF StrLocals
  <2>6. /\ local.pc = "preparing" /\ local.save = NoSave /\ local.queue = <<>>
        /\ local.seen = <<>> /\ local.client = "listening"
    BY DEF NewStream
  <2>7. local.resume = resume
    BY <2>4 DEF StrLocals
  <2>8. stream' = [stream EXCEPT ![t] = local]
    BY <2>1, <1>1
  <2> HIDE DEF local
  <2> QED
    BY <2>3, <2>5, <2>6, <2>7, <2>8
<1>7. stream'[t] = local /\ \A u \in Post : u # t => stream'[u] = stream[u]
  BY <1>4, <1>5, <1>6
<1>8. InOrder(local) /\ ~IsTold(local, "ok") /\ ~IsTold(local, "interrupt")
  BY <1>6 DEF InOrder, IsTold
<1>9. ASSUME ~disturbed PROVE Proceeds(local, session, t)
  <2>1. local.resume => session.exists /\ session.paused
    <3> SUFFICES ASSUME local.resume PROVE session.exists /\ session.paused
      OBVIOUS
    <3>1. posted > 0 /\ "interrupt" \in ToSet(stream[posted].seen)
      BY <1>6
    <3>2. IsTold(stream[posted], "interrupt")
      BY <3>1 DEF ToSet, IsTold
    <3>3. Proceeds(stream[posted], session, posted) /\ (session.paused => session.exists)
      BY <1>0, <1>9, <3>1 DEF TurnProceeds
    <3> QED
      BY <3>2, <3>3 DEF Proceeds
  <2>2. NoSave.stage = "none"
    BY DEF NoSave
  <2> QED
    BY <2>1, <2>2, <1>6, <1>8 DEF Proceeds, StreamSaving
<1>10. StrTypeOK'
  BY <1>0, <1>1, <1>2, <1>3, <1>5, <1>6 DEF StrTypeOK
<1>11. OneListener'
  <2> SUFFICES ASSUME NEW u \in Post
               PROVE  /\ u # t => stream'[u].client \notin {"listening", "replying"}
                      /\ u > t => stream'[u] = NewStream
    BY <1>1 DEF OneListener, Attached
  <2>1. /\ u # posted => stream[u].client \notin {"listening", "replying"}
        /\ u > posted => stream[u] = NewStream
    BY <1>0 DEF OneListener, Attached
  <2>2. u = posted => stream[u].client \notin {"listening", "replying"}
    BY <1>1, <1>4, StreamedTurnAssumption DEF Attached, Post
  <2>3. u \in Nat
    BY DEF Post
  <2> QED
    BY <2>1, <2>2, <2>3, <1>4, <1>7
<1>12. EventsAreInOrder'
  <2> SUFFICES ASSUME NEW u \in Post PROVE InOrder(stream'[u])
    BY DEF EventsAreInOrder
  <2>1. InOrder(stream[u])
    BY <1>0 DEF EventsAreInOrder
  <2> QED
    BY <1>7, <1>8, <2>1
<1>13. TurnProceeds'
  <2> SUFFICES ASSUME ~disturbed
               PROVE  /\ session.paused => session.exists
                      /\ Proceeds(stream'[t], session, t)
    BY <1>1, <1>2, <1>3 DEF TurnProceeds
  <2>1. session.paused => session.exists
    BY <1>0 DEF TurnProceeds
  <2> QED
    BY <2>1, <1>7, <1>9
<1>14. RepliesAreSent'
  <2> SUFFICES ASSUME endpoint # "server", ~disturbed, NEW u \in Post, stream'[u].client = "done",
                      NEW i \in DOMAIN stream'[u].seen, stream'[u].seen[i] = "ok"
               PROVE  stream'[u].reply = u
    BY <1>2, <1>3 DEF RepliesAreSent
  <2>1. u # t
    BY <1>6, <1>7
  <2> QED
    BY <2>1, <1>0, <1>7 DEF RepliesAreSent
<1> QED
  BY <1>10, <1>11, <1>12, <1>13, <1>14 DEF StrInv

LEMMA StrInitInv == StrInit => StrInv
<1> SUFFICES ASSUME StrInit PROVE StrInv
  OBVIOUS
<1>1. session = NoSession /\ stream = [t \in Post |-> NewStream] /\ posted = 0
  BY DEF StrInit
<1>2. disturbed \in BOOLEAN
  BY DEF StrInit
<1>3. NoSession \in StrRow /\ ~NoSession.paused
  BY DEF NoSession, StrRow
<1>4. NewStream \in StrLocals
  BY DEF NewStream, NoSave, NoSession, StrLocals, StrRow
<1>5. NewStream.pc = "unsent" /\ NewStream.client = "none" /\ NewStream.queue = <<>> /\ NewStream.seen = <<>>
  BY DEF NewStream
<1>6. InOrder(NewStream)
  BY <1>5 DEF InOrder, IsTold
<1>7. StrTypeOK
  BY <1>1, <1>2, <1>3, <1>4, StreamedTurnAssumption DEF StrTypeOK
<1>8. OneListener /\ EventsAreInOrder /\ RepliesAreSent
  BY <1>1, <1>5, <1>6 DEF OneListener, EventsAreInOrder, RepliesAreSent, Attached
<1>9. TurnProceeds
  BY <1>1, <1>3 DEF TurnProceeds
<1> QED
  BY <1>7, <1>8, <1>9 DEF StrInv

LEMMA StrNextInv == StrInv /\ [StrNext]_strVars => StrInv'
<1> SUFFICES ASSUME StrInv, [StrNext]_strVars PROVE StrInv'
  OBVIOUS
<1>1. CASE PostMessage
  BY <1>1, PostMessageInv
<1>2. ASSUME NEW t \in Post, LeaveStream(t) PROVE StrInv'
  BY <1>2, LeaveStreamInv
<1>3. ASSUME NEW t \in Post, StrWork(t) PROVE StrInv'
  <2>1. CASE CancelRunner(t)
    BY <2>1, CancelRunnerInv
  <2>2. CASE TakeEvent(t)
    BY <2>2, TakeEventInv
  <2>3. CASE SendReply(t)
    BY <2>3, SendReplyInv
  <2>4. CASE WorkerStarts(t)
    BY <2>4, WorkerStartsInv
  <2>5. CASE WorkerSaves(t)
    BY <2>5, WorkerSavesInv
  <2>6. CASE ReadPending(t)
    BY <2>6, ReadPendingInv
  <2>7. CASE SeedOrExtend(t)
    BY <2>7, SeedOrExtendInv
  <2>8. CASE SaveSeeded(t)
    BY <2>8, SaveSeededInv
  <2>9. CASE RunBegins(t)
    BY <2>9, RunBeginsInv
  <2>10. CASE NodeStarts(t)
    BY <2>10, NodeStartsInv
  <2>11. CASE AgentEnds(t)
    BY <2>11, AgentEndsInv
  <2>12. CASE FinishEnds(t)
    BY <2>12, FinishEndsInv
  <2>13. CASE AgentAsks(t)
    BY <2>13, AgentAsksInv
  <2>14. CASE NodeFails(t)
    BY <2>14, NodeFailsInv
  <2>15. CASE RunPauses(t)
    BY <2>15, RunPausesInv
  <2>16. CASE RunEnds(t)
    BY <2>16, RunEndsInv
  <2> QED
    BY <1>3, <2>1, <2>2, <2>3, <2>4, <2>5, <2>6, <2>7, <2>8, <2>9, <2>10, <2>11, <2>12, <2>13,
       <2>14, <2>15, <2>16 DEF StrWork
<1>4. CASE UNCHANGED strVars
  BY <1>4 DEF strVars, StrInv, StrTypeOK, OneListener, Attached, EventsAreInOrder, TurnProceeds,
     RepliesAreSent
<1> QED
  BY <1>1, <1>2, <1>3, <1>4 DEF StrNext

THEOREM StreamedInv == StrSpec => []StrInv
  BY StrInitInv, StrNextInv, PTL DEF StrSpec

(* When a client has been told that the run waits for its answer, the pause *)
(* is in the session, with the question of this turn, whatever the task,    *)
(* its worker thread and the endpoint do.                                   *)
THEOREM QuestionsAreDurable == StrSpec => []WaitingIsDurable
<1>1. StrInv => WaitingIsDurable
  <2> SUFFICES ASSUME StrInv, NEW t \in Post, t = posted, ~disturbed,
                      "interrupt" \in ToSet(stream[t].seen)
               PROVE  session.paused /\ Last(session.messages) = SaidIn("user", t)
    BY DEF WaitingIsDurable
  <2>1. Proceeds(stream[t], session, t)
    BY Posted
  <2>2. IsTold(stream[t], "interrupt")
    BY DEF ToSet, IsTold
  <2> QED
    BY <2>1, <2>2 DEF Proceeds, EndsWith, Last
<1> QED
  BY <1>1, StreamedInv, PTL

(* What the client is sent at the end of a stream is the reply of its own   *)
(* turn, and the end of the run is the last it was told.                    *)
THEOREM StreamsTellTheirTurn == StrSpec => []StreamTellsItsTurn
<1>1. StrInv => StreamTellsItsTurn
  <2> SUFFICES ASSUME StrInv, NEW t \in Post, stream[t].client = "done",
                      "ok" \in ToSet(stream[t].seen)
               PROVE  /\ Last(stream[t].seen) = "ok"
                      /\ endpoint # "server" /\ ~disturbed => stream[t].reply = t
    BY DEF StreamTellsItsTurn
  <2>1. PICK i \in DOMAIN stream[t].seen : stream[t].seen[i] = "ok"
    BY DEF ToSet
  <2>2. InOrder(stream[t])
    BY Posted
  <2>3. Last(stream[t].seen) = "ok"
    BY <2>1, <2>2 DEF InOrder, Last
  <2>4. endpoint # "server" /\ ~disturbed => stream[t].reply = t
    BY <2>1, Posted
  <2> QED
    BY <2>3, <2>4
<1> QED
  BY <1>1, StreamedInv, PTL

-----------------------------------------------------------------------------
(* The loops in which the operator is asked again.                         *)

ReviewSpec == ReviewInit /\ [][ReviewNext]_reviewVars

Keys == {"rounds", "ask_rounds"}

ReviewTypeOK ==
  /\ review \in Reviews
  /\ counts \in [Keys -> 0..MaxCount]
  /\ asked \in 0..MaxCount

(* If no gate counts under its key, the Ask has counted no more answers     *)
(* than were heard, and one less while the last is being read.              *)
AnswersAreCounted ==
  ~review.shared =>
    /\ counts["ask_rounds"] <= asked
    /\ at \in {"classify", "validate"} => counts["ask_rounds"] < asked \/ asked = MaxCount

(* The decision that the edges read is that of the last answer.             *)
DecisionIsFresh ==
  at = "decide" =>
    /\ decision = "pass" => answer = "yes" \/ counts[AskKey] >= AskRounds
    /\ decision = "fail" => Clear
    /\ decision \in {"clarify", "pass", "fail"}

ReviewInv == ReviewTypeOK /\ AnswersAreCounted /\ DecisionIsFresh

LEMMA ReviewBounds ==
    /\ AskRounds \in Nat /\ AskRounds > 0 /\ MaxCount \in Nat /\ AskRounds < MaxCount
    /\ GateRounds \in Nat
  BY ReviewAssumption DEF ReviewAssumption

LEMMA ReviewInitInv == ReviewInit => ReviewInv
<1> SUFFICES ASSUME ReviewInit PROVE ReviewInv
  OBVIOUS
<1>1. ReviewTypeOK
  BY ReviewBounds DEF ReviewInit, ReviewTypeOK, Keys
<1>2. AnswersAreCounted /\ DecisionIsFresh
  BY DEF ReviewInit, AnswersAreCounted, DecisionIsFresh
<1> QED
  BY <1>1, <1>2 DEF ReviewInv

(* A counter goes up by one, unless it has reached its bound.               *)
LEMMA CountsGoUp ==
    ASSUME ReviewTypeOK, NEW key \in Keys, counts' = Counted(key)
    PROVE  /\ counts' \in [Keys -> 0..MaxCount]
           /\ \A other \in Keys : other # key => counts'[other] = counts[other]
           /\ counts'[key] = counts[key] + 1 \/ (counts[key] = MaxCount /\ counts'[key] = MaxCount)
           /\ counts[key] \in 0..MaxCount
<1>0. /\ counts \in [Keys -> 0..MaxCount] /\ MaxCount \in Nat
      /\ counts' = [counts EXCEPT ![key] = IF counts[key] < MaxCount THEN counts[key] + 1 ELSE counts[key]]
  BY ReviewBounds DEF ReviewTypeOK, Counted
<1>1. PICK held \in 0..MaxCount : held = counts[key]
  BY <1>0
<1>2. PICK next \in 0..MaxCount : next = IF held < MaxCount THEN held + 1 ELSE held
  BY <1>0
<1>3. counts' = [counts EXCEPT ![key] = next]
  BY <1>0, <1>1, <1>2
<1>4. next = held + 1 \/ (held = MaxCount /\ next = MaxCount)
  BY <1>0, <1>2
<1> QED
  BY <1>0, <1>1, <1>3, <1>4

(* A node that neither counts nor decides.                                  *)
LEMMA NodePasses ==
    ASSUME ReviewInv, UNCHANGED <<review, counts, asked>>, at' # "decide",
           at' \notin {"classify", "validate"} \/ at \in {"classify", "validate"}
    PROVE  ReviewInv'
<1>1. ReviewTypeOK'
  BY DEF ReviewInv, ReviewTypeOK
<1>2. AnswersAreCounted'
  BY DEF ReviewInv, AnswersAreCounted
<1>3. DecisionIsFresh'
  BY DEF DecisionIsFresh
<1> QED
  BY <1>1, <1>2, <1>3 DEF ReviewInv

LEMMA GateInv ==
    ASSUME ReviewInv, Gate
    PROVE  ReviewInv'
<1>0. /\ counts' = Counted("rounds") /\ at' \in {"ask", "draft"}
      /\ UNCHANGED <<review, asked>> /\ ReviewTypeOK /\ AnswersAreCounted
      /\ "rounds" \in Keys /\ "ask_rounds" \in Keys
  BY DEF Gate, GateKey, ReviewInv, Keys
<1>1. counts' \in [Keys -> 0..MaxCount] /\ counts'["ask_rounds"] = counts["ask_rounds"]
  BY <1>0, CountsGoUp
<1>2. ReviewTypeOK' /\ AnswersAreCounted' /\ DecisionIsFresh'
  BY <1>0, <1>1 DEF ReviewTypeOK, AnswersAreCounted, DecisionIsFresh
<1> QED
  BY <1>2 DEF ReviewInv

LEMMA OperatorRepliesInv ==
    ASSUME ReviewInv, OperatorReplies
    PROVE  ReviewInv'
<1>0. /\ at' \in {"classify", "validate"} /\ UNCHANGED <<review, counts>>
      /\ asked' = IF asked < MaxCount THEN asked + 1 ELSE asked
      /\ ReviewTypeOK /\ AnswersAreCounted
  BY DEF OperatorReplies, ReviewInv
<1>1. PICK count \in Nat : count = counts["ask_rounds"]
  BY <1>0 DEF ReviewTypeOK, Keys
<1>2. asked \in Nat /\ asked <= MaxCount /\ MaxCount \in Nat
  BY <1>0, ReviewBounds DEF ReviewTypeOK
<1>3. asked' \in 0..MaxCount /\ (asked' = asked + 1 \/ (asked' = asked /\ asked' = MaxCount))
  BY <1>0, <1>2
<1>4. ~review.shared => count <= asked
  BY <1>0, <1>1 DEF AnswersAreCounted
<1>5. ~review.shared => count <= asked' /\ (count < asked' \/ asked' = MaxCount)
  BY <1>1, <1>2, <1>3, <1>4
<1>6. ReviewTypeOK' /\ AnswersAreCounted' /\ DecisionIsFresh'
  BY <1>0, <1>1, <1>3, <1>5 DEF ReviewTypeOK, AnswersAreCounted, DecisionIsFresh
<1> QED
  BY <1>6 DEF ReviewInv

LEMMA ValidateInv ==
    ASSUME ReviewInv, Validate
    PROVE  ReviewInv'
<1>0. /\ at = "validate" /\ counts' = Counted(AskKey) /\ decision' = Verdict(counts'[AskKey])
      /\ at' = "decide" /\ UNCHANGED <<review, verdict, answer, asked>>
      /\ ReviewTypeOK /\ AnswersAreCounted
      /\ AskKey \in Keys /\ AskKey' = AskKey
  BY DEF Validate, ReviewInv, AskKey, Keys
<1>1. /\ counts' \in [Keys -> 0..MaxCount]
      /\ counts'[AskKey] = counts[AskKey] + 1 \/ (counts[AskKey] = MaxCount /\ counts'[AskKey] = MaxCount)
  BY <1>0, CountsGoUp
<1>2. PICK count \in 0..MaxCount : count = counts'[AskKey]
  BY <1>0, <1>1
<1>3. count \in Nat /\ AskRounds \in Nat /\ MaxCount \in Nat /\ count <= MaxCount
  BY ReviewBounds
<1>4. AnswersAreCounted'
  <2> SUFFICES ASSUME ~review.shared PROVE counts'["ask_rounds"] <= asked
    BY <1>0 DEF AnswersAreCounted
  <2>1. AskKey = "ask_rounds"
    BY DEF AskKey
  <2>2. PICK old \in Nat : old = counts["ask_rounds"]
    BY <1>0 DEF ReviewTypeOK, Keys
  <2>3. asked \in Nat /\ (old < asked \/ asked = MaxCount) /\ old <= asked
    BY <1>0, <1>3, <2>2 DEF AnswersAreCounted, ReviewTypeOK
  <2>4. count = old + 1 \/ (count = MaxCount /\ old = MaxCount)
    BY <1>1, <1>2, <2>1, <2>2
  <2>5. count <= asked
    BY <1>3, <2>3, <2>4
  <2> QED
    BY <2>1, <2>5, <1>2
<1>5. DecisionIsFresh'
  <2>1. /\ decision' = "pass" => answer = "yes" \/ count >= AskRounds
        /\ decision' = "fail" => Clear
        /\ decision' \in {"clarify", "pass", "fail"}
    BY <1>0, <1>2, <1>3 DEF Verdict
  <2>2. Clear' = Clear
    BY <1>0 DEF Clear
  <2> QED
    BY <2>1, <2>2, <1>0, <1>2 DEF DecisionIsFresh
<1>6. ReviewTypeOK'
  BY <1>0, <1>1 DEF ReviewTypeOK
<1> QED
  BY <1>4, <1>5, <1>6 DEF ReviewInv

LEMMA ReviewBranches ==
    ASSUME ReviewInv, ReviewBranch
    PROVE  /\ at' \in {"ask", "done", "draft"} /\ UNCHANGED <<review, counts, asked, answer>>
           /\ at' = "done" => answer = "yes" \/ counts[AskKey] >= AskRounds
           /\ at' = "draft" => Clear
  BY DEF ReviewInv, DecisionIsFresh, ReviewBranch

LEMMA ReviewNextInv == ReviewInv /\ [ReviewNext]_reviewVars => ReviewInv'
<1> SUFFICES ASSUME ReviewInv, [ReviewNext]_reviewVars PROVE ReviewInv'
  OBVIOUS
<1>1. CASE WriteDraft \/ ReviewDraft \/ Ask \/ Classify
  BY <1>1, NodePasses DEF WriteDraft, ReviewDraft, Ask, Classify
<1>2. CASE ReviewBranch
  BY <1>2, ReviewBranches, NodePasses
<1>3. CASE UNCHANGED reviewVars
  BY <1>3 DEF reviewVars, ReviewInv, ReviewTypeOK, AnswersAreCounted, DecisionIsFresh, Clear, AskKey
<1> QED
  BY <1>1, <1>2, <1>3, GateInv, OperatorRepliesInv, ValidateInv DEF ReviewNext, NodeRuns

(* Only the edges end the loops, or send the draft back from a decision.    *)
LEMMA OnlyEdgesEnd ==
    ASSUME [ReviewNext]_reviewVars
    PROVE  /\ at # "done" /\ at' = "done" => ReviewBranch
           /\ at = "decide" /\ at' = "draft" => ReviewBranch
  BY DEF ReviewNext, NodeRuns, reviewVars, WriteDraft, ReviewDraft, Gate, Ask, Classify, Validate,
         OperatorReplies

(* The flow goes on only with a yes, or when the operator has been asked as *)
(* often as the Ask allows, unless another decider counts under its key.    *)
THEOREM DoneTakesAYes == ReviewSpec => DoneNeedsAYes
<1>1. ASSUME ReviewInv, [ReviewNext]_reviewVars
      PROVE  [at # "done" /\ at' = "done"
                => answer = "yes" \/ asked >= AskRounds \/ review.shared]_reviewVars
  <2> SUFFICES ASSUME at # "done", at' = "done", ~review.shared
               PROVE  answer = "yes" \/ asked >= AskRounds
    OBVIOUS
  <2>1. answer = "yes" \/ counts["ask_rounds"] >= AskRounds
    BY <1>1, OnlyEdgesEnd, ReviewBranches DEF AskKey
  <2>2. PICK count \in Nat : count = counts["ask_rounds"]
    BY <1>1 DEF ReviewInv, ReviewTypeOK, Keys
  <2>3. asked \in Nat /\ count <= asked /\ AskRounds \in Nat
    BY <1>1, <2>2, ReviewBounds DEF ReviewInv, ReviewTypeOK, AnswersAreCounted
  <2> QED
    BY <2>1, <2>2, <2>3
<1> QED
  BY <1>1, ReviewInitInv, ReviewNextInv, PTL DEF ReviewSpec, DoneNeedsAYes

(* An answer that nobody could read does not have the draft written again   *)
(* where the Ask can have it clarified.                                     *)
THEOREM UnreadAnswersAreAskedAgain == ReviewSpec => UnclearAsksAgain
<1>1. ASSUME ReviewInv, [ReviewNext]_reviewVars
      PROVE  [at = "decide" /\ at' = "draft" /\ review.clarifies /\ review.classified
                => answer # "unclear"]_reviewVars
  BY <1>1, OnlyEdgesEnd, ReviewBranches DEF Clear
<1> QED
  BY <1>1, ReviewInitInv, ReviewNextInv, PTL DEF ReviewSpec, UnclearAsksAgain
=============================================================================
