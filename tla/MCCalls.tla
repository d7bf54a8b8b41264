-------------------------------- MODULE MCCalls --------------------------------
(***************************************************************************)
(* Calls of a model: three harnesses of one provider (with a max_parallel, *)
(* or one of them without), runs of an llm_chat node, or sub-agents that   *)
(* are called as tools.  Init chooses which; the others stay at rest.      *)
(***************************************************************************)
EXTENDS ProviderConcurrency, ModelCalls, SubAgents

Harnesses == {"narrow", "wide", "wide too", "uncapped"}
MCMaxParallel == [c \in Harnesses |->
    CASE c = "narrow" -> 1 [] c = "uncapped" -> 0 [] OTHER -> 2]

\* Plain replies are cached, as those of nodes without tools are; a node with
\* tools is run for what becomes of its rounds.
MCLlmConfigs ==
  {c \in LlmConfig : /\ c.mode = "stream" => ~c.cache
                     /\ c.tools # "none" => ~c.cache /\ c.mode = "structured"
                     /\ c.mode \in {"plain", "parse"} => c.cache
                     /\ c.runs = IF c.cache THEN 2 ELSE 1}

VARIABLE carrier
callVars == <<carrier, vars, llmVars, subVars>>

\* Three capped harnesses show a guard that grows from one slot to two: were
\* it replaced under the call that holds the one, three would be in flight.
\* (An explicit cap, which never grows, is set for the others.)
GuardCarriers == {"guard", "guard and uncapped"}
Built == IF carrier = "guard" THEN Harnesses \ {"uncapped"} ELSE Harnesses \ {"wide too"}
GuardNext ==
  /\ Next
  /\ \A c \in Harnesses \ Built : UNCHANGED call[c]
  /\ carrier = "guard" => UNCHANGED reconfigured

NodeRests == llmConfig = CHOOSE c \in MCLlmConfigs : c.runs = 1

CallsInit ==
  /\ carrier \in GuardCarriers \cup {"node", "sub_agents"}
  /\ Init /\ LlmInit /\ SubInit
  /\ carrier # "node" => NodeRests

CallsNext ==
  /\ UNCHANGED carrier
  /\ \/ carrier \in GuardCarriers /\ GuardNext /\ UNCHANGED <<llmVars, subVars>>
     \/ carrier = "node" /\ LlmNext /\ UNCHANGED <<vars, subVars>>
     \/ carrier = "sub_agents" /\ SubNext /\ UNCHANGED <<vars, llmVars>>

CallsSpec ==
  /\ CallsInit /\ [][CallsNext]_callVars
  /\ \A c \in Call : WF_vars(carrier \in GuardCarriers /\ c \in Built /\ Advance(c))
  /\ \A n \in LlmNode : WF_llmVars(carrier = "node" /\ LlmStep(n))

\* A reply was got with the requests a harness may send, and is what it says.
RepliesAreEarned == RequestsAreBounded /\ RepliesAreWhatTheySay

\* Every call of a guarded provider ends, and every node that makes calls.
CallsAndNodesEnd ==
  /\ carrier \in GuardCarriers => \A c \in Call : c \in Built => CallEnds(c)
  /\ carrier = "node" => EveryNodeEnds
=============================================================================
