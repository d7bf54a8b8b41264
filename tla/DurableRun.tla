------------------------------ MODULE DurableRun ------------------------------
(***************************************************************************)
(* What a checkpointed run promises whoever calls Graph.run with the same  *)
(* checkpoint id again and again: the durable record of the run moves      *)
(* exactly as one uninterrupted walk of the graph would, one completed     *)
(* node, one handled failure, one pause or one answer at a time.  Crashes, *)
(* restarts and repeated executions of the node in flight do not show.     *)
(*                                                                         *)
(* GraphExecution implements this specification.                           *)
(***************************************************************************)
EXTENDS Naturals, Sequences

CONSTANTS
    Node,           \* the nodes of the graph
    Entry,          \* where a fresh run begins
    NoNode,         \* not a node
    Successors,     \* node -> where the walk may go after it; NoNode: it ends
    Handler,        \* node -> target of its error edge, or NoNode
    Pausing,        \* the nodes that may ask the operator
    Reentered,      \* those of them that run again on the answer
    MaxIterations   \* node executions one run may record

VARIABLES
    phase,          \* "new", "running", "paused" or "done"
    at,             \* the node to run, or the node that asked
    merged,         \* the nodes whose updates the recorded state contains
    spent           \* node executions recorded

durable == <<phase, at, merged, spent>>

TypeOK ==
    /\ phase \in {"new", "running", "paused", "done"}
    /\ at \in Node \cup {NoNode}
    /\ merged \in Seq(Node)
    /\ spent \in Nat

Init ==
    /\ phase = "new"
    /\ at = NoNode
    /\ merged = <<>>
    /\ spent = 0

MoveTo(node) ==
    /\ phase' = IF node = NoNode THEN "done" ELSE "running"
    /\ at' = node

Begin ==
    /\ phase = "new"
    /\ MoveTo(Entry)
    /\ UNCHANGED <<merged, spent>>

Spend ==
    /\ phase = "running"
    /\ spent < MaxIterations
    /\ spent' = spent + 1

Complete ==
    /\ Spend
    /\ merged' = Append(merged, at)
    /\ \E node \in Successors[at] : MoveTo(node)

Recover ==
    /\ Spend
    /\ Handler[at] # NoNode
    /\ MoveTo(Handler[at])
    /\ UNCHANGED merged

Pause ==
    /\ Spend
    /\ at \in Pausing
    /\ phase' = "paused"
    /\ UNCHANGED <<at, merged>>

Answer ==
    /\ phase = "paused"
    /\ IF at \in Reentered
         THEN MoveTo(at)
         ELSE \E node \in Successors[at] : MoveTo(node)
    /\ UNCHANGED <<merged, spent>>

Next == Begin \/ Complete \/ Recover \/ Pause \/ Answer

Spec == Init /\ [][Next]_durable
===============================================================================
