------------------------------ MODULE SubAgents ------------------------------
(***************************************************************************)
(* Sub-agents as tools: AgentTool (tool/agent.py) runs a loop of model     *)
(* calls of its own (harness/loop.py, run and step) over a copy of the     *)
(* workflow's state, and copies the state back when it is done.  A         *)
(* coordinator calls several in a round, and execute_tool_calls            *)
(* (harness/tools.py) runs these side by side, each within tool_timeout    *)
(* and with tool_retries more attempts.  The conversation of a sub-agent   *)
(* has no context limit (AgentTool._harness sets none): nothing of it goes *)
(* but in the end, so its messages are left out.                           *)
(*                                                                         *)
(* Every sub-agent has one key in writes; a value is the number of the     *)
(* round or retry that wrote it; NoValue: the state has no such key.       *)
(***************************************************************************)
EXTENDS Naturals, FiniteSets

CONSTANTS
    Agent,              \* the sub-agents, and the keys they write
    AgentRounds,        \* max_rounds of a sub-agent
    ToolAttempts,       \* tool_retries + 1
    MaxAttempts         \* bound: rounds and retries

NoValue == 0

ASSUME SubAgentsAssumption ==
    /\ IsFiniteSet(Agent)
    /\ {AgentRounds, ToolAttempts, MaxAttempts} \subseteq Nat
    /\ AgentRounds > 0
    /\ ToolAttempts > 0

VARIABLES
    flowState,      \* the state of the workflow
    sub,            \* the locals of every sub-agent
    attempted,      \* rounds and retries so far
    wrote,          \* history: what each sub-agent wrote last
    repliedBeside   \* history: those whose last reply came while another was at work

subVars == <<flowState, sub, attempted, wrote, repliedBeside>>

Idling == [pc |-> "idle", copy |-> <<>>, round |-> 0, tries |-> 0, number |-> 0]

SubInit ==
    /\ flowState = [k \in Agent |-> NoValue]
    /\ sub = [a \in Agent |-> Idling]
    /\ attempted = 0
    /\ wrote = [k \in Agent |-> NoValue]
    /\ repliedBeside = {}

AtWork == {a \in Agent : sub[a].pc # "idle"}

(* The first lines of arun: a snapshot of the state, and the first step of  *)
(* the loop.                                                                *)
Attempt(tries, number) ==
    [pc |-> "asking", copy |-> flowState, round |-> 1, tries |-> tries, number |-> number]

(* The coordinator's model asks for some of its sub-agents. *)
CallSubAgents ==
    /\ AtWork = {}
    /\ attempted < MaxAttempts
    /\ \E called \in SUBSET Agent \ {{}} :
        sub' = [a \in Agent |-> IF a \in called THEN Attempt(1, attempted + 1) ELSE Idling]
    /\ attempted' = attempted + 1
    /\ UNCHANGED <<flowState, wrote, repliedBeside>>

(* A step: the model asks for a tool of the slice, and hears its result.    *)
SubAgentUsesTool(a) ==
    /\ sub[a].pc = "asking"
    /\ sub[a].round < AgentRounds
    /\ sub' = [sub EXCEPT ![a].round = @ + 1]
    /\ UNCHANGED <<flowState, attempted, wrote, repliedBeside>>

(* What the history says of a reply.                                        *)
Recorded(a) ==
    /\ wrote' = [wrote EXCEPT ![a] = sub[a].number]
    /\ repliedBeside' = IF AtWork = {a} THEN repliedBeside \ {a} ELSE repliedBeside \cup {a}

(* Mutant: the copy is taken as it was when the attempt began, and the key  *)
(* of the sub-agent is not written in it.                                   *)
SubAgentRepliesNowhere(a) ==
    /\ sub[a].pc = "asking"
    /\ flowState' = [k \in Agent |-> IF sub[a].copy[k] # NoValue THEN sub[a].copy[k]
                                     ELSE flowState[k]]
    /\ sub' = [sub EXCEPT ![a] = Idling]
    /\ Recorded(a)
    /\ UNCHANGED attempted

(* The final reply, or whatever the last round said: handle_reply writes it *)
(* into the copy, and the whole copy updates the state of the workflow.     *)
SubAgentReplies(a) ==
    LET copy == [sub[a].copy EXCEPT ![a] = sub[a].number]
    IN  /\ sub[a].pc = "asking"
        /\ flowState' = [k \in Agent |-> IF copy[k] # NoValue THEN copy[k] ELSE flowState[k]]
        /\ sub' = [sub EXCEPT ![a] = Idling]
        /\ Recorded(a)
        /\ UNCHANGED attempted

(* The attempt raises, or is cancelled by its timeout: another one, or an   *)
(* error message for the coordinator.                                       *)
SubAgentFails(a) ==
    /\ sub[a].pc = "asking"
    /\ IF sub[a].tries < ToolAttempts /\ attempted < MaxAttempts
         THEN /\ attempted' = attempted + 1
              /\ sub' = [sub EXCEPT ![a] = Attempt(sub[a].tries + 1, attempted')]
         ELSE /\ sub' = [sub EXCEPT ![a] = Idling]
              /\ UNCHANGED attempted
    /\ UNCHANGED <<flowState, wrote, repliedBeside>>

SubNext ==
    \/ CallSubAgents
    \/ \E a \in Agent : SubAgentUsesTool(a) \/ SubAgentReplies(a) \/ SubAgentFails(a)

-----------------------------------------------------------------------------
(* Properties. *)

(* tool/agent.py:41: "anything handle_reply writes into state is copied     *)
(* back into the enclosing workflow state".  What a sub-agent wrote last,   *)
(* with no other at work, is what the state holds from then on, whatever    *)
(* the others do next to each other, fail at, time out in or try again, and *)
(* as long as it does not itself reply beside another.                      *)
SubAgentsAreCalls ==
    \A a \in Agent \ repliedBeside : wrote[a] # NoValue => flowState[a] = wrote[a]
===============================================================================
