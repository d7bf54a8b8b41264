-------------------------- MODULE MCGraphExecution --------------------------
(***************************************************************************)
(* A publishing workflow: a draft, an audit done by a sub-flow, a review   *)
(* the operator answers, a publication that may stop, jump back or name a  *)
(* node that does not exist.  It has a cycle, an error edge to another     *)
(* node, an error edge of a node to itself, and a node without an edge for *)
(* every value.  Either the caller runs the id again and again, or the     *)
(* calls of the nodes and the deaths are counted and it gives up after     *)
(* MaxDeaths; Init chooses which.                                          *)
(***************************************************************************)
EXTENDS GraphExecutionHistory

MCNode == {"draft", "audit", "review", "publish", "repair"}

MCValue == {"unset", "approve", "reject"}

MCEdges == <<
    [source |-> "draft",   target |-> "audit",   condition |-> Always],
    [source |-> "draft",   target |-> "draft",   condition |-> OnError],
    [source |-> "audit",   target |-> "publish", condition |-> "approve"],
    [source |-> "audit",   target |-> "review",  condition |-> Always],
    [source |-> "audit",   target |-> "repair",  condition |-> OnError],
    [source |-> "repair",  target |-> "review",  condition |-> Always],
    [source |-> "review",  target |-> "publish", condition |-> "approve"],
    [source |-> "review",  target |-> "draft",   condition |-> "reject"] >>

MCCommands == [n \in MCNode |->
    IF n = "publish" THEN {Stop, "audit", "archive"} ELSE {}]

VARIABLE carrier
executionVars == <<carrier, vars, history>>

ExecutionInit == carrier \in {"persistent", "counted"} /\ HistoryInit

ExecutionNext ==
    /\ UNCHANGED carrier
    /\ \/ carrier = "persistent" /\ Next /\ UNCHANGED history
       \/ carrier = "counted" /\ HistoryNext

ExecutionSpec ==
    /\ ExecutionInit /\ [][ExecutionNext]_executionVars
    /\ carrier = "persistent" => WF_vars(Step) /\ WF_vars(Start)

\* The properties of GraphExecution, of a caller that does not give up: every
\* run ends or waits for an answer, and the id gets to its end once trouble stops.
PersistenceIsRewarded ==
    carrier = "persistent" => EveryRunEnds /\ TroubleDelaysButNeverWedges
=============================================================================
