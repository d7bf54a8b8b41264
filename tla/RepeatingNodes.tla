---------------------------- MODULE RepeatingNodes ----------------------------
(***************************************************************************)
(* The nodes that run other nodes over and over: Map (node/map.py), one    *)
(* copy of the state for each chunk of a list, a few at a time; Loop       *)
(* (node/loop.py), a body repeated on the live state until a condition     *)
(* holds; and Retry (node/retry.py) around either, as the retry: block of a*)
(* step puts it, with a timeout for each attempt.                          *)
(*                                                                         *)
(* A Loop's body is two nodes.  Each appends itself to a list (the append  *)
(* reducer), and the second also writes the key the condition reads.       *)
(***************************************************************************)
EXTENDS Naturals, Sequences, FiniteSets, SequencesExt

CONSTANTS
    Chunks,             \* number of chunks of the list Map is given
    MaxConcurrency,     \* its max_concurrency
    LoopRounds,         \* max_rounds of Loop
    NodeAttempts        \* max_retries of Retry: attempts, the first included

ASSUME RepeatingAssumption ==
    {Chunks, MaxConcurrency, LoopRounds, NodeAttempts} \subseteq Nat \ {0}

VARIABLES
    repeating,      \* which node this is
    rep,            \* its locals, and those of the Retry around it
    chunk,          \* Map: what each chunk is doing
    produced,       \* Map: results in the order they came; history
    log, verdict    \* Loop: the two keys of the live state

repVars == <<repeating, rep, chunk, produced, log, verdict>>

Chunk == 1..Chunks

Waiting == [c \in Chunk |-> "waiting"]

RepInit ==
    /\ repeating \in {"map", "loop"}
    /\ rep = [pc |-> "running", attempt |-> 1, round |-> 1, node |-> 1, output |-> <<>>]
    /\ chunk = Waiting
    /\ produced = <<>>
    /\ log = <<>>
    /\ verdict = "again"

MapRuns == repeating = "map" /\ rep.pc = "running"
LoopRuns == repeating = "loop" /\ rep.pc = "running"

(* What an attempt ends in.  gather_or_cancel cancels the chunks that are   *)
(* left, and waits for them, before the exception goes on.                  *)
Cancelled ==
    [c \in Chunk |-> IF chunk[c] \in {"waiting", "running"} THEN "cancelled" ELSE chunk[c]]

(* Mutant: the exception goes on and the chunks run on. *)
AttemptFailsAlone(retryable) ==
    IF retryable /\ rep.attempt < NodeAttempts
      THEN /\ rep' = [rep EXCEPT !.pc = "backoff"]
           /\ UNCHANGED <<repeating, chunk, produced, log, verdict>>
      ELSE /\ rep' = [rep EXCEPT !.pc = "failed"]
           /\ UNCHANGED <<repeating, chunk, produced, log, verdict>>

(* An exception: retry_on may match it or not.                              *)
AttemptFails(retryable) ==
    /\ rep' = [rep EXCEPT !.pc = IF retryable /\ rep.attempt < NodeAttempts
                                   THEN "backoff" ELSE "failed"]
    /\ chunk' = Cancelled
    /\ UNCHANGED <<repeating, produced, log, verdict>>

(* A node in the middle asks the operator: never retried. *)
AttemptInterrupted ==
    /\ rep' = [rep EXCEPT !.pc = "interrupted"]
    /\ chunk' = Cancelled
    /\ UNCHANGED <<repeating, produced, log, verdict>>

AttemptRaises ==
    /\ rep.pc = "running"
    /\ repeating = "map" => \E c \in Chunk : chunk[c] = "running"
    /\ (\E retryable \in BOOLEAN : AttemptFails(retryable)) \/ AttemptInterrupted

(* wait_for gives the whole attempt its timeout. *)
AttemptTimesOut ==
    /\ rep.pc = "running"
    /\ \E retryable \in BOOLEAN : AttemptFails(retryable)

(* The next attempt starts the node from its beginning.                     *)
NextAttempt ==
    /\ rep.pc = "backoff"
    /\ rep' = [rep EXCEPT !.pc = "running", !.attempt = @ + 1, !.round = 1, !.node = 1]
    /\ chunk' = Waiting
    /\ produced' = <<>>
    /\ UNCHANGED <<repeating, log, verdict>>

-----------------------------------------------------------------------------
(* Map. *)

ChunkStarts(c) ==
    /\ MapRuns
    /\ chunk[c] = "waiting"
    /\ Cardinality({d \in Chunk : chunk[d] = "running"}) < MaxConcurrency
    /\ chunk' = [chunk EXCEPT ![c] = "running"]
    /\ UNCHANGED <<repeating, rep, produced, log, verdict>>

ChunkEnds(c) ==
    /\ MapRuns
    /\ chunk[c] = "running"
    /\ chunk' = [chunk EXCEPT ![c] = "done"]
    /\ produced' = Append(produced, [chunk |-> c, attempt |-> rep.attempt])
    /\ UNCHANGED <<repeating, rep, log, verdict>>

(* gather returns the results in the order of its arguments. *)
MapReturns ==
    /\ MapRuns
    /\ \A c \in Chunk : chunk[c] = "done"
    /\ rep' = [rep EXCEPT !.pc = "done",
                          !.output = [c \in Chunk |->
                              CHOOSE result \in ToSet(produced) : result.chunk = c]]
    /\ UNCHANGED <<repeating, chunk, produced, log, verdict>>

-----------------------------------------------------------------------------
(* Loop. *)

Entry(node) == [attempt |-> rep.attempt, round |-> rep.round, node |-> node]

FirstOfBody ==
    /\ LoopRuns
    /\ rep.node = 1
    /\ log' = Append(log, Entry(1))
    /\ rep' = [rep EXCEPT !.node = 2]
    /\ UNCHANGED <<repeating, chunk, produced, verdict>>

(* The last node of the body, and the condition after it. *)
SecondOfBody ==
    /\ LoopRuns
    /\ rep.node = 2
    /\ log' = Append(log, Entry(2))
    /\ verdict' \in {"again", "enough"}
    /\ rep' = IF verdict' = "enough" \/ rep.round = LoopRounds
                THEN [rep EXCEPT !.pc = "done"]
                ELSE [rep EXCEPT !.round = @ + 1, !.node = 1]
    /\ UNCHANGED <<repeating, chunk, produced>>

RepNext ==
    \/ AttemptRaises \/ AttemptTimesOut \/ NextAttempt
    \/ \E c \in Chunk : ChunkStarts(c) \/ ChunkEnds(c)
    \/ MapReturns \/ FirstOfBody \/ SecondOfBody

-----------------------------------------------------------------------------
(* Properties. *)

(* What Map returns is one result for each chunk, in the order of the list, *)
(* all of them made in the last attempt: nothing of an attempt that failed, *)
(* timed out or was interrupted lives on, neither a result nor a chunk.     *)
MapGathersOneAttempt ==
    repeating = "map" =>
        /\ rep.pc = "done" =>
             rep.output = [c \in Chunk |-> [chunk |-> c, attempt |-> rep.attempt]]
        /\ rep.pc # "running" => \A c \in Chunk : chunk[c] \notin {"waiting", "running"}

(* A Loop works on the live state, so what failed attempts appended stays;  *)
(* but its last attempt ran whole rounds, as many as it took for the        *)
(* condition to hold once, and stopped there.                               *)
LoopRunsWholeRounds ==
    LET made == 2 * rep.round
        before == Len(log) - made
    IN  (repeating = "loop" /\ rep.pc = "done") =>
            /\ before >= 0
            /\ \A i \in 1..before : log[i].attempt # rep.attempt
            /\ \A i \in 1..made : log[before + i] =
                  [attempt |-> rep.attempt, round |-> (i + 1) \div 2,
                   node |-> IF i % 2 = 1 THEN 1 ELSE 2]
            /\ verdict = "enough" \/ rep.round = LoopRounds

(* So a node that repeats returns the work of its last attempt and all of   *)
(* it, however the attempts before it ended (node/map.py, node/loop.py,     *)
(* node/retry.py).                                                          *)
LastAttemptIsWhole == MapGathersOneAttempt /\ LoopRunsWholeRounds
===============================================================================
