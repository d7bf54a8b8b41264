---------------------------- MODULE SupervisedTeam ----------------------------
(***************************************************************************)
(* A team (teff/node/supervisor.py, flow/team.py, flow/agent.py) in a      *)
(* session: at each round the supervisor asks the model for one word and   *)
(* its guards turn the word into a route, the routed agent writes its slot *)
(* and control returns to the supervisor, until it decides to finish.      *)
(*                                                                         *)
(* Agents and their output slots are identified.  A slot is filled when    *)
(* its value is not empty, which is all that the guards look at.           *)
(***************************************************************************)
EXTENDS Naturals, Sequences, SequencesExt, FiniteSets

CONSTANTS
  Agents,      \* the roles
  Order,       \* the pipeline of a supervisor with fill_order
  TeamFinish,  \* the finish token
  NoAgent,     \* no route, and a reply that names nobody
  MaxRounds,   \* max_rounds
  MaxTurns     \* bound: messages of the session

ASSUME TeamAssumption ==
  /\ IsFiniteSet(Agents) /\ TeamFinish \notin Agents /\ NoAgent \notin Agents \cup {TeamFinish}
  /\ Agents \cap {"idle", "deciding", "waiting"} = {}
  /\ Order \in Seq(Agents) /\ Order # <<>>
  /\ MaxRounds \in Nat \ {0} /\ MaxTurns \in Nat

VARIABLES
  team,      \* the supervisor's configuration
  turns,     \* messages the user will still send
  filled,    \* the slots that hold something
  rounds,    \* rounds_key
  route,     \* "idle", "deciding", "waiting" for the operator, or the agent at work
  worker,    \* the agent that has asked the operator during this visit
  ran,       \* history: the agents that ran in this turn
  fresh      \* history: this turn began with a full budget and no slot filled,
             \* and no agent has replied nothing

teamVars == <<team, turns, filled, rounds, route, worker, ran, fresh>>

Teams ==
  [fallback  : Agents \cup {NoAgent},   \* fallback_agent
   done      : SUBSET Agents,           \* done_keys
   mode      : {"all", "any"},          \* done_mode
   ordered   : BOOLEAN,                 \* fill_order = Order
   heard     : BOOLEAN,                 \* whether there is a user message
   transient : BOOLEAN]                 \* slots and rounds are transient keys

-----------------------------------------------------------------------------
(* The supervisor's guards.                                                 *)

\* _done: the answer exists already.
Done ==
  /\ team.done # {}
  /\ IF team.mode = "any" THEN team.done \cap filled # {} ELSE team.done \subseteq filled

\* The first agent of the pipeline whose slot is empty.
NextInOrder ==
  LET open == {i \in DOMAIN Order : Order[i] \notin filled}
  IN  IF open = {} THEN TeamFinish ELSE Order[Min(open)]

\* _chain_route: NoAgent while the model must still pick the entry.
ChainRoute ==
  CASE ~team.ordered                               -> NoAgent
    [] team.ordered /\ Order[1] \in filled         -> NextInOrder
    [] team.ordered /\ Order[1] \notin filled      ->
         IF Range(Order) \cap filled # {} THEN TeamFinish ELSE NoAgent

NeedsModel ==
  /\ ~Done
  /\ IF team.ordered THEN ChainRoute = NoAgent ELSE team.heard

\* decide with a fill_order that prescribes nothing yet.
Entry(proposal) ==
  IF proposal # TeamFinish THEN proposal
  ELSE IF team.fallback # NoAgent THEN team.fallback ELSE Order[1]

\* Mutant of Guarded: a premature finish is taken at its word.
GuardedHastily(proposal) == IF proposal \in filled THEN TeamFinish ELSE proposal

\* decide without fill_order: a premature finish goes to the fallback, and an
\* agent whose slot is filled is not picked again.
Guarded(proposal) ==
  IF proposal = TeamFinish /\ team.fallback # NoAgent /\ team.done \cap filled = {}
  THEN team.fallback
  ELSE IF proposal \in filled THEN TeamFinish ELSE proposal

Resolve(word) ==
  LET proposal == IF word = NoAgent THEN TeamFinish ELSE word
  IN  CASE Done                                          -> TeamFinish
        [] ~Done /\ team.ordered /\ ChainRoute # NoAgent -> ChainRoute
        [] ~Done /\ team.ordered /\ ChainRoute = NoAgent -> Entry(proposal)
        [] ~Done /\ ~team.ordered                        -> Guarded(proposal)

-----------------------------------------------------------------------------
TeamInit ==
  /\ team \in Teams
  /\ turns \in {0, MaxTurns}
  /\ filled = {} /\ rounds = 0
  /\ route = "idle" /\ worker = NoAgent
  /\ ran = <<>> /\ fresh = TRUE

\* A turn begins: the transient keys are cleared, the rest of the state stays.
HearMessage ==
  /\ route = "idle" /\ turns > 0
  /\ turns' = turns - 1
  /\ filled' = IF team.transient THEN {} ELSE filled
  /\ rounds' = IF team.transient THEN 0 ELSE rounds
  /\ route' = "deciding"
  /\ ran' = <<>> /\ fresh' = (filled' = {} /\ rounds' = 0)
  /\ UNCHANGED <<team, worker>>

\* The conditional edges of the route: an agent, or the end of the flow.
Take(decision) ==
  /\ route' = IF decision = TeamFinish THEN "idle" ELSE decision
  /\ UNCHANGED <<team, turns, filled, worker, ran, fresh>>

CountRound(r) == r + 1

\* The budget is spent: finish without a model call.
ForceFinish ==
  /\ route = "deciding" /\ rounds + 1 >= MaxRounds
  /\ rounds' = CountRound(rounds)
  /\ Take(TeamFinish)

DecideAlone ==
  /\ route = "deciding" /\ rounds + 1 < MaxRounds /\ ~NeedsModel
  /\ rounds' = CountRound(rounds)
  /\ Take(Resolve(NoAgent))

\* The model's last word that is in the vocabulary, or none.
DecideWithModel ==
  /\ route = "deciding" /\ rounds + 1 < MaxRounds /\ NeedsModel
  /\ rounds' = CountRound(rounds)
  /\ \E word \in Agents \cup {TeamFinish, NoAgent} : Take(Resolve(word))

\* The model cannot be reached, or an agent fails: the turn is lost.
TurnFails ==
  /\ route \notin {"idle", "waiting"}
  /\ route' = "idle" /\ worker' = NoAgent
  /\ UNCHANGED <<team, turns, filled, rounds, ran, fresh>>

\* The context builder resets the agent's slot.
Cleared(agent) == filled \ {agent}

\* agent_step: the context builder empties the slot, the agent fills it (or
\* replies nothing), the reply is appended and control returns.
AgentReplies ==
  /\ route \in Agents
  /\ \E answered \in BOOLEAN :
       /\ filled' = Cleared(route) \cup (IF answered THEN {route} ELSE {})
       /\ fresh' = (fresh /\ answered)
  /\ ran' = Append(ran, route)
  /\ route' = "deciding" /\ worker' = NoAgent
  /\ UNCHANGED <<team, turns, rounds>>

\* An agent asks the operator in the middle of its work: nothing of the
\* sub-flow reaches the shared state, the turn ends, the answer resumes it.
\* Bound: one question in a visit.
AgentAsks ==
  /\ route \in Agents /\ worker = NoAgent
  /\ route' = "waiting" /\ worker' = route
  /\ UNCHANGED <<team, turns, filled, rounds, ran, fresh>>

OperatorAnswers ==
  /\ route = "waiting"
  /\ route' = worker
  /\ UNCHANGED <<team, turns, filled, rounds, worker, ran, fresh>>

Decide == ForceFinish \/ DecideAlone \/ DecideWithModel

TeamNext ==
  \/ HearMessage \/ Decide \/ TurnFails
  \/ AgentReplies \/ AgentAsks \/ OperatorAnswers

\* A supervisor and an agent go on; nobody has to send messages, ask, answer or
\* fail.
TeamFairness == WF_teamVars(Decide) /\ WF_teamVars(AgentReplies)

-----------------------------------------------------------------------------
(* Properties.                                                              *)

\* Whatever the model replies, a turn ends if its questions are answered: every
\* round counts in the state, no guard leads around the count, and a resumed
\* agent goes past its question.
EveryTurnEnds == []<>(route # "waiting") => ((route # "idle") ~> (route = "idle"))

\* The user gets an answer: with a fallback agent, a turn that starts afresh
\* ends only after an agent has run, even if the model finishes at once.
EveryTurnIsServed ==
  [][Decide /\ route' = "idle" /\ fresh /\ team.fallback # NoAgent /\ rounds' < MaxRounds
       => ran # <<>>]_teamVars

\* Finished work is not overwritten: the supervisor never routes to an agent
\* whose slot is filled, except the fallback while no done key is filled and,
\* in a team with a pipeline, an agent that is not in it.
FinishedWorkIsKept ==
  [][route = "deciding" /\ route' \in filled =>
       \/ route' = team.fallback /\ team.done \cap filled = {}
       \/ team.ordered /\ route' \notin Range(Order)]_teamVars

\* A pipeline of different agents that all answer runs in its order from its
\* entry, or one agent from its middle alone, unless an agent ran that is not
\* in it.
PipelineInOrder ==
  team.ordered /\ fresh /\ IsInjective(Order) /\ Range(ran) \subseteq Range(Order) =>
    IsPrefix(ran, Order) \/ Len(ran) = 1

\* So a turn is served, by the agents whose work is missing, in their order,
\* and ends.
TurnsAreServedInOrder ==
  EveryTurnIsServed /\ FinishedWorkIsKept /\ []PipelineInOrder /\ EveryTurnEnds
=============================================================================
