-------------------------------- MODULE MCTasks --------------------------------
(***************************************************************************)
(* Work that runs under other work: a sub-flow with a question, three      *)
(* branches (a branch of one node between two of two), a map or a loop     *)
(* under a retry, and the run under a stream whose client may go away.     *)
(* Init chooses which; the others stay at rest.                            *)
(***************************************************************************)
EXTENDS SubFlow, ParallelBranches, RepeatingNodes, StreamedTurn

MCLengths == <<2, 1, 2>>
AllCases == [reducer : Reducer, present : BOOLEAN]

VARIABLE carrier
vars == <<carrier, subFlowVars, branchesVars, repVars, strVars>>

Init ==
  /\ carrier \in {"sub_flow", "parallel", "repeating", "stream"}
  /\ SubFlowInit /\ BranchesInit /\ RepInit /\ StrInit
  /\ carrier # "parallel" => case = [reducer |-> "keep", present |-> FALSE]
  /\ carrier # "repeating" => repeating = "map"
  /\ carrier # "stream" => endpoint = "stops"

Next ==
  /\ UNCHANGED carrier
  /\ \/ /\ carrier = "sub_flow" /\ SubFlowNext
        /\ UNCHANGED <<branchesVars, repVars, strVars>>
     \/ /\ carrier = "parallel" /\ BranchesNext
        /\ UNCHANGED <<subFlowVars, repVars, strVars>>
     \/ /\ carrier = "repeating" /\ RepNext
        /\ UNCHANGED <<subFlowVars, branchesVars, strVars>>
     \/ /\ carrier = "stream" /\ StrNext
        /\ UNCHANGED <<subFlowVars, branchesVars, repVars>>

Spec ==
  /\ Init /\ [][Next]_vars
  /\ carrier = "sub_flow" => SubFlowFairness
  /\ carrier = "stream" => StrFairness

\* The property of SubFlow, of the behaviours that are its own.
SubFlowCompletes == carrier = "sub_flow" => CompletesOnceTroubleStops
=============================================================================
