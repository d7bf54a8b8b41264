------------------------------- MODULE MCStorage -------------------------------
(***************************************************************************)
(* What is kept of a run: the checkpoints of three keys, of which the      *)
(* owners "j.doe" and "j_doe" share a directory; the history of a run that *)
(* is rewound and run on; and its trace.  Init chooses which; the others   *)
(* stay at rest.                                                           *)
(***************************************************************************)
EXTENDS Checkpointers, StateHistory, GraphTrace

MCPath == [key \in {"a", "j.doe", "j_doe"} |-> IF key = "a" THEN "a" ELSE "j_doe"]

\* A Parallel node or a Loop, and a plain node behind it.
MCPaths == {<<{1, 2}, {}>>, <<{1}, {}>>}

VARIABLE carrier
storageVars == <<carrier, vars, histVars, traceVars>>

StorageInit ==
  /\ carrier \in {"checkpoints", "history", "trace"}
  /\ Init /\ HistInit /\ TraceInit
  /\ carrier # "checkpoints" => backend = "file"
  /\ carrier # "trace" => path = <<{1}, {}>>

StorageNext ==
  /\ UNCHANGED carrier
  /\ \/ carrier = "checkpoints" /\ Next /\ UNCHANGED <<histVars, traceVars>>
     \/ carrier = "history" /\ HistNext /\ UNCHANGED <<vars, traceVars>>
     \/ carrier = "trace" /\ TraceNext /\ UNCHANGED <<vars, histVars>>

StorageSpec == StorageInit /\ [][StorageNext]_storageVars
=============================================================================
