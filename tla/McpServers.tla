------------------------------ MODULE McpServers ------------------------------
(***************************************************************************)
(* MCP servers as tools of a graph: McpToolGroup (tool/mcp/bridge.py) and  *)
(* what Graph keeps of them (_expand_tools and aclose, graph/graph.py).    *)
(* Every run opens the groups among its tools, or takes the members the    *)
(* graph has cached under the group's id.  Opening awaits, so do calls and *)
(* the closing of a connection: runs and aclose interleave there.          *)
(***************************************************************************)
EXTENDS Naturals, Sequences, FiniteSets

CONSTANTS
  McpRun,          \* runs of the graph
  ToolGroups,      \* the groups among the tools, in their order
  GroupIds,        \* what the groups may be called
  MaxConnections,  \* bound: connections opened
  MaxMcpTrouble    \* bound: failed and cancelled opens

Group == DOMAIN ToolGroups

\* A list of groups; the ids are those the list can have.
ASSUME McpAssumption ==
  /\ Group = 1..Len(ToolGroups) /\ Len(ToolGroups) \in Nat
  /\ IsFiniteSet(GroupIds)
  /\ {MaxConnections, MaxMcpTrouble} \subseteq Nat

VARIABLES
  named,       \* the id of every group
  connections, \* every connection: whose, and what it is like
  group,       \* the connection a group has (_stack, _tools); 0: none
  cached,      \* _tool_groups: what an id stands for
  mcpRun,      \* the runs
  closing,     \* aclose in progress
  reached,     \* history: the calls made
  strays,      \* history: connections opened beside another, or cancelled
  mishaps      \* troubles so far

mcpVars == <<named, connections, group, cached, mcpRun, closing, reached, strays, mishaps>>

NoMembers == [of |-> 0, connection |-> 0]
NewRun == [pc |-> "new", position |-> 1, members |-> <<>>, opening |-> 0]
NotClosing == [pc |-> "idle", left |-> <<>>, size |-> 0, of |-> 0]

McpInit ==
  /\ named \in [Group -> GroupIds]
  /\ connections = <<>>
  /\ group = [g \in Group |-> 0]
  /\ cached = [i \in GroupIds |-> NoMembers]
  /\ mcpRun = [r \in McpRun |-> NewRun]
  /\ closing = NotClosing
  /\ reached = {} /\ strays = {} /\ mishaps = 0

\* The group a run comes to next.
NextGroup(r) == mcpRun[r].position
Expanding(r) == mcpRun[r].pc = "new" /\ NextGroup(r) \in Group
Given(run, connection) ==
  [run EXCEPT !.pc = "new", !.position = @ + 1, !.opening = 0,
              !.members = Append(@, connection)]
NamesCached == {i \in GroupIds : cached[i] # NoMembers}

-----------------------------------------------------------------------------
(* _expand_tools.                                                          *)

\* The id is known: its members, whichever group they came from.
MembersCached(r) ==
  /\ Expanding(r) /\ cached[named[NextGroup(r)]] # NoMembers
  /\ mcpRun' = [mcpRun EXCEPT ![r] = Given(@, cached[named[NextGroup(r)]].connection)]
  /\ UNCHANGED <<named, connections, group, cached, closing, reached, strays, mishaps>>

\* open(): the group is connected already, by another graph or another name.
AlreadyOpen(r) ==
  /\ Expanding(r) /\ cached[named[NextGroup(r)]] = NoMembers /\ group[NextGroup(r)] # 0
  /\ cached' = [cached EXCEPT ![named[NextGroup(r)]] =
                  [of |-> NextGroup(r), connection |-> group[NextGroup(r)]]]
  /\ mcpRun' = [mcpRun EXCEPT ![r] = Given(@, group[NextGroup(r)])]
  /\ UNCHANGED <<named, connections, group, closing, reached, strays, mishaps>>

(* open(): a connection of its own.  Another run may be opening the same    *)
(* group: neither the group nor the cache says so yet.                      *)
OpenStarts(r) ==
  /\ Expanding(r) /\ cached[named[NextGroup(r)]] = NoMembers /\ group[NextGroup(r)] = 0
  /\ Len(connections) < MaxConnections
  /\ connections' = Append(connections, [of |-> NextGroup(r), status |-> "opening"])
  /\ mcpRun' = [mcpRun EXCEPT ![r].pc = "opening", ![r].opening = Len(connections')]
  /\ LET beside == {c \in DOMAIN connections :
                      connections[c] = [of |-> NextGroup(r), status |-> "opening"]}
     IN  strays' = strays \cup beside \cup
                   (IF beside = {} THEN {} ELSE {Len(connections')})
  /\ UNCHANGED <<named, group, cached, closing, reached, mishaps>>

\* The session is ready: the group and the cache have it, whatever they had.
OpenEnds(r) ==
  /\ mcpRun[r].pc = "opening"
  /\ LET c == mcpRun[r].opening
         g == NextGroup(r)
     IN  /\ connections' = [connections EXCEPT ![c].status = "open"]
         /\ group' = [group EXCEPT ![g] = c]
         /\ cached' = [cached EXCEPT ![named[g]] = [of |-> g, connection |-> c]]
         /\ mcpRun' = [mcpRun EXCEPT ![r] = Given(@, c)]
  /\ UNCHANGED <<named, closing, reached, strays, mishaps>>

\* Mutant: the stack is not closed when the server does not come up.
OpenFailsOpen(r) ==
  /\ mcpRun[r].pc = "opening" /\ mishaps < MaxMcpTrouble
  /\ mishaps' = mishaps + 1
  /\ connections' = [connections EXCEPT ![mcpRun[r].opening].status = "open"]
  /\ mcpRun' = [mcpRun EXCEPT ![r] = [@ EXCEPT !.pc = "done", !.opening = 0]]
  /\ UNCHANGED <<named, group, cached, closing, reached, strays>>

\* The server does not come up: what was entered is left again.
OpenFails(r) ==
  /\ mcpRun[r].pc = "opening" /\ mishaps < MaxMcpTrouble
  /\ mishaps' = mishaps + 1
  /\ connections' = [connections EXCEPT ![mcpRun[r].opening].status = "closed"]
  /\ mcpRun' = [mcpRun EXCEPT ![r] = [@ EXCEPT !.pc = "done", !.opening = 0]]
  /\ UNCHANGED <<named, group, cached, closing, reached, strays>>

\* The run is cancelled under open(): `except Exception` does not see it.
OpenCancelled(r) ==
  /\ mcpRun[r].pc = "opening" /\ mishaps < MaxMcpTrouble
  /\ mishaps' = mishaps + 1
  /\ connections' = [connections EXCEPT ![mcpRun[r].opening].status = "open"]
  /\ strays' = strays \cup {mcpRun[r].opening}
  /\ mcpRun' = [mcpRun EXCEPT ![r] = [@ EXCEPT !.pc = "done", !.opening = 0]]
  /\ UNCHANGED <<named, group, cached, closing, reached>>

-----------------------------------------------------------------------------
(* The run.                                                                *)

\* McpTool.arun: the session the member was made with.
CallTool(r) ==
  /\ mcpRun[r].pc = "new" /\ NextGroup(r) \notin Group
  /\ \E g \in Group :
       reached' = reached \cup {[meant |-> g,
                                 by |-> connections[mcpRun[r].members[g]].of]}
  /\ UNCHANGED <<named, connections, group, cached, mcpRun, closing, strays, mishaps>>

McpRunEnds(r) ==
  /\ mcpRun[r].pc = "new" /\ NextGroup(r) \notin Group
  /\ mcpRun' = [mcpRun EXCEPT ![r].pc = "done", ![r].members = <<>>]
  /\ UNCHANGED <<named, connections, group, cached, closing, reached, strays, mishaps>>

\* A finished caller runs the graph again.
McpRunAgain(r) ==
  /\ mcpRun[r].pc = "done" /\ Len(connections) < MaxConnections
  /\ mcpRun' = [mcpRun EXCEPT ![r] = NewRun]
  /\ UNCHANGED <<named, connections, group, cached, closing, reached, strays, mishaps>>

-----------------------------------------------------------------------------
(* aclose of the graph: the cached groups one after the other.             *)

CloseStarts ==
  /\ closing.pc = "idle" /\ NamesCached # {}
  /\ \E order \in [1..Cardinality(NamesCached) -> NamesCached] :
       /\ \A i, j \in DOMAIN order : i # j => order[i] # order[j]
       /\ closing' = [pc |-> "next", left |-> order, size |-> Cardinality(NamesCached),
                      of |-> 0]
  /\ UNCHANGED <<named, connections, group, cached, mcpRun, reached, strays, mishaps>>

\* The dictionary grew under the iteration: aclose raises and clears nothing.
CloseRaises ==
  /\ closing.pc = "next" /\ Cardinality(NamesCached) # closing.size
  /\ closing' = NotClosing
  /\ UNCHANGED <<named, connections, group, cached, mcpRun, reached, strays, mishaps>>

\* McpToolGroup.aclose awaits the end of its connection ...
GroupCloses ==
  /\ closing.pc = "next" /\ Cardinality(NamesCached) = closing.size /\ closing.left # <<>>
  /\ LET g == cached[Head(closing.left)].of
     IN  /\ connections' = IF group[g] = 0 THEN connections
                           ELSE [connections EXCEPT ![group[g]].status = "closed"]
         /\ closing' = [closing EXCEPT !.pc = "closed", !.of = g]
  /\ UNCHANGED <<named, group, cached, mcpRun, reached, strays, mishaps>>

\* ... and forgets it.
GroupClosed ==
  /\ closing.pc = "closed"
  /\ group' = [group EXCEPT ![closing.of] = 0]
  /\ closing' = [closing EXCEPT !.pc = "next", !.left = Tail(@), !.of = 0]
  /\ UNCHANGED <<named, connections, cached, mcpRun, reached, strays, mishaps>>

CloseEnds ==
  /\ closing.pc = "next" /\ closing.left = <<>> /\ Cardinality(NamesCached) = closing.size
  /\ cached' = [i \in GroupIds |-> NoMembers] /\ closing' = NotClosing
  /\ UNCHANGED <<named, connections, group, mcpRun, reached, strays, mishaps>>

McpNext ==
  \/ \E r \in McpRun :
       \/ MembersCached(r) \/ AlreadyOpen(r) \/ OpenStarts(r) \/ OpenEnds(r) \/ OpenFails(r)
       \/ OpenCancelled(r) \/ CallTool(r) \/ McpRunEnds(r) \/ McpRunAgain(r)
  \/ CloseStarts \/ CloseRaises \/ GroupCloses \/ GroupClosed \/ CloseEnds
McpSpec == McpInit /\ [][McpNext]_mcpVars

-----------------------------------------------------------------------------
(* Properties.                                                             *)

DistinctNames == \A g, h \in Group : named[g] = named[h] => g = h

(* A connection that is open is one aclose will find, unless two runs       *)
(* opened the group at once or a run was cancelled while it opened: "safe   *)
(* to call after a partial or cancelled run" (graph/graph.py:138) leaves    *)
(* these out.                                                               *)
OnlyRacesAndCancelsLeak ==
  DistinctNames =>
    \A c \in DOMAIN connections :
      connections[c].status = "open" /\ c \notin strays =>
        /\ group[connections[c].of] = c
        /\ \E i \in GroupIds : cached[i].of = connections[c].of

(* "the same connection instead of re-spawning the server": a group has a   *)
(* second live connection only if two runs opened it at once, or a run was  *)
(* cancelled there.                                                         *)
OneConnectionPerGroup ==
  \A c, d \in DOMAIN connections :
    /\ c < d /\ connections[c].of = connections[d].of
    /\ connections[c].status \in {"open", "opening"}
    /\ connections[d].status \in {"open", "opening"}
    => c \in strays

(* Members are named after their group "so tools from different servers     *)
(* never collide": a call reaches the server of the group it was meant for, *)
(* if the groups have names of their own.                                   *)
CallsReachTheirServer ==
  DistinctNames => \A call \in reached : call.by = call.meant

(* A run that starts after aclose has cleared the cache does not get the    *)
(* members of a connection that was closed, unless a race left them.        *)
ClosedMembersAreForgotten ==
  DistinctNames /\ closing.pc = "idle" /\ strays = {} =>
    \A g \in Group : group[g] # 0 => connections[group[g]].status # "closed"

\* So a connection is opened once, used by its own group, and closed.
ConnectionsAreKept ==
  OnlyRacesAndCancelsLeak /\ OneConnectionPerGroup /\ CallsReachTheirServer /\ ClosedMembersAreForgotten
=============================================================================
