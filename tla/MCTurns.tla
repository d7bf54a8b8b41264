-------------------------------- MODULE MCTurns --------------------------------
(***************************************************************************)
(* The turns of a session and what they lean on: two callers of one        *)
(* conversation; a travel assistant that searches freely, pays with a      *)
(* sign-off, never wipes an account and asks for the city and the date;    *)
(* turns streamed to a client that may go away; a reply and what is read   *)
(* from it; the MCP servers of two tool groups; ticks that share a lock.   *)
(* Init chooses which; the others stay at rest.                            *)
(***************************************************************************)
EXTENDS Conversation, AgentLoop, StreamedTurn, ReplyParsing, McpServers, SharedTools, TLC

Callers == Permutations(Caller)

MCApprover == [tool \in {"search", "pay", "wipe"} |->
    CASE tool = "search" -> "approve" [] tool = "pay" -> "pause" [] tool = "wipe" -> "deny"]

MCBatches == { <<"search", "pay">>, <<"wipe", "search">>, <<"city">>,
               <<"city", "pay">>, <<"date", "city">> }

VARIABLE carrier
vars == <<carrier, conversationVars, agentVars, strVars, parsingVars, mcpVars, sharedVars>>

MCToolGroups == <<"drive", "git">>
MCTokenOf == <<"a", "b", "b">>    \* the second and third tick share a tool

Init ==
  /\ carrier \in {"conversation", "agent", "stream", "reply", "servers", "ticks"}
  /\ ConversationInit /\ AgentInit /\ StrInit /\ McpInit /\ SharedInit
  /\ carrier # "stream" => endpoint = "stops"
  /\ carrier # "servers" => named = [g \in Group |-> "drive"]
  /\ IF carrier = "reply" THEN ParsingInit
     ELSE reading = Unread /\ reply = [kind |-> "text", text |-> <<>>]

Next ==
  /\ UNCHANGED carrier
  /\ \/ /\ carrier = "conversation" /\ ConversationNext
        /\ UNCHANGED <<agentVars, strVars, parsingVars, mcpVars, sharedVars>>
     \/ /\ carrier = "agent" /\ AgentNext
        /\ UNCHANGED <<conversationVars, strVars, parsingVars, mcpVars, sharedVars>>
     \/ /\ carrier = "stream" /\ StrNext
        /\ UNCHANGED <<conversationVars, agentVars, parsingVars, mcpVars, sharedVars>>
     \/ /\ carrier = "reply" /\ ParsingNext
        /\ UNCHANGED <<conversationVars, agentVars, strVars, mcpVars, sharedVars>>
     \/ /\ carrier = "servers" /\ McpNext
        /\ UNCHANGED <<conversationVars, agentVars, strVars, parsingVars, sharedVars>>
     \/ /\ carrier = "ticks" /\ SharedNext
        /\ UNCHANGED <<conversationVars, agentVars, strVars, parsingVars, mcpVars>>

Spec == Init /\ [][Next]_vars
=============================================================================
