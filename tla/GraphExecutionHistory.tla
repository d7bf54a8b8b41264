------------------------ MODULE GraphExecutionHistory ------------------------
(***************************************************************************)
(* GraphExecution with the history of the calls of node.execute over all   *)
(* the runs of one checkpoint id, for what the caller pays (model calls,   *)
(* side effects of tools) rather than what the checkpoint records.         *)
(***************************************************************************)
EXTENDS GraphExecution

CONSTANT
    MaxDeaths       \* bound: runs that may die before the caller gives up

ASSUME DeathAssumption == MaxDeaths \in Nat

VARIABLES
    executions,     \* calls of node.execute so far
    deaths          \* runs that crashed or raised, interrupts aside

history == <<executions, deaths>>

HistoryInit ==
    /\ Init
    /\ executions = 0
    /\ deaths = 0

Restart ==
    /\ deaths < MaxDeaths
    /\ Start
    /\ UNCHANGED history

Execute ==
    /\ SaveBeforeNode
    /\ executions' = executions + 1
    /\ UNCHANGED deaths

(* Whether the step ends the run by an exception. *)
CountDeath == deaths' = IF run' = Idle THEN deaths + 1 ELSE deaths

Return ==
    /\ \/ \E value \in Value : NodeReturns(value)
       \/ \E value \in Value, goto \in UNION {Commands[n] : n \in Node} :
            NodeReturnsCommand(value, goto)
    /\ CountDeath
    /\ UNCHANGED executions

Fail ==
    /\ NodeFails
    /\ CountDeath
    /\ UNCHANGED executions

Exceed ==
    /\ ExceedIterations
    /\ deaths' = deaths + 1
    /\ UNCHANGED executions

Killed ==
    /\ Crash
    /\ deaths' = deaths + 1
    /\ UNCHANGED executions

Settle ==
    /\ NodeInterrupts \/ SaveAtEnd
    /\ UNCHANGED history

HistoryNext == Restart \/ Execute \/ Return \/ Fail \/ Exceed \/ Killed \/ Settle

HistorySpec == HistoryInit /\ [][HistoryNext]_<<vars, history>>

-----------------------------------------------------------------------------
(* Every call of node.execute is accounted for: it is in the checkpoint's   *)
(* iteration count, it is the one in flight, or it was the last of a run    *)
(* that died.  A run that dies repeats at most one node.                    *)
EachDeathRepeatsAtMostOneNode ==
    executions <= Recorded + deaths + (IF run = Idle THEN 0 ELSE 1)

(* max_iterations bounds the calls of node.execute over all the runs of the *)
(* id, not per run: the count is durable, and only a death adds a call.     *)
IterationsBoundAllRuns ==
    executions <= MaxIterations + deaths + (IF run = Idle THEN 0 ELSE 1)
=============================================================================
