--------------------------- MODULE ParallelBranches ---------------------------
(***************************************************************************)
(* A Parallel node (node/parallel.py) under the executor: branches of      *)
(* nodes run concurrently, each on a copy of the state's dict, and what    *)
(* they return is merged with the reducer of its key (state/state.py,      *)
(* apply_reducers), first into the copy and into the branch's delta, then  *)
(* delta by delta into one update, then into the state.                    *)
(*                                                                         *)
(* The copies are shallow and one reducer extends lists in place, so what  *)
(* matters is which dicts hold the same list object.  One key of the state *)
(* is followed: a dict is the reference it has for the key, or Absent, and *)
(* heap holds the contents of every list.                                  *)
(***************************************************************************)
EXTENDS Naturals, Sequences, SequencesExt

CONSTANTS
    Lengths,        \* the number of nodes of each branch, in branch order
    Cases,          \* the reducer of the key, and whether the state has it
    Absent

ASSUME LengthsAssumption == Lengths \in Seq(Nat \ {0})

Branch == DOMAIN Lengths

Reducer == {"append", "combine", "override", "keep"}

ASSUME CasesAssumption == Cases \subseteq [reducer : Reducer, present : BOOLEAN]

(* Item <<b, i>> is what the i-th node of branch b contributes; <<0, 0>> is *)
(* what the key held before.                                                *)
Old == <<0, 0>>
Item == {Old} \cup UNION {{b} \X (1..Lengths[b]) : b \in Branch}

(* List objects: the state's, the one each node returns, and those a        *)
(* callable reducer builds for a dict.                                      *)
Shared == <<"state", 0, 0>>
Returned(b, i) == <<"returned", b, i>>
Built(owner, b) == <<owner, b, 0>>

List == {Shared, Built("merged", 0), Built("final", 0)}
          \cup {Returned(item[1], item[2]) : item \in Item \ {Old}}
          \cup {Built(owner, b) : owner \in {"branch", "delta"}, b \in Branch}

ASSUME AbsentAssumption == Absent \notin List

VARIABLES
    case,           \* the member of Cases at work
    heap,           \* the contents of every list object
    state,          \* the workflow state
    branchState,    \* branch_state of every branch
    delta,          \* delta of every branch
    position,       \* the nodes of the branch that have returned
    said,           \* history: what they returned, in order
    outcome         \* of Parallel.execute and the merge of what it returns

branchesVars == <<case, heap, state, branchState, delta, position, said, outcome>>

Before == IF case.present THEN <<Old>> ELSE <<>>

BranchesInit ==
    /\ case \in Cases
    /\ heap = [l \in List |-> IF l = Shared THEN Before ELSE <<>>]
    /\ state = IF case.present THEN Shared ELSE Absent
    /\ branchState = [b \in Branch |-> state]
    /\ delta = [b \in Branch |-> Absent]
    /\ position = [b \in Branch |-> 0]
    /\ said = [b \in Branch |-> <<>>]
    /\ outcome = "running"

-----------------------------------------------------------------------------
(* Memory is a heap and the reference of the dict at hand. *)
Memory(h, dict) == [heap |-> h, dict |-> dict]

ApplyReducerSwapped(memory, value, built) ==
    IF memory.dict = Absent \/ case.reducer = "override"
      THEN Memory(memory.heap, value)
    ELSE IF case.reducer = "combine"
      THEN Memory([memory.heap EXCEPT ![built] =
                      memory.heap[value] \o memory.heap[memory.dict]], built)
    ELSE memory

(* apply_reducers(dict, {key: value}).  "append" extends the dict's own     *)
(* list; a callable, here concatenation, builds a new one.                  *)
ApplyReducer(memory, value, built) ==
    IF memory.dict = Absent \/ case.reducer = "override"
      THEN Memory(memory.heap, value)
    ELSE IF case.reducer = "append"
      THEN Memory([memory.heap EXCEPT ![memory.dict] = @ \o memory.heap[value]],
                  memory.dict)
    ELSE IF case.reducer = "combine"
      THEN Memory([memory.heap EXCEPT ![built] =
                      memory.heap[memory.dict] \o memory.heap[value]], built)
    ELSE memory

(* What a node returns for the key: under "override" the whole value it     *)
(* read with its item added, else its item.                                 *)
Contribution(b, item) ==
    IF case.reducer = "override" /\ branchState[b] # Absent
      THEN Append(heap[branchState[b]], item)
      ELSE <<item>>

-----------------------------------------------------------------------------
CanRun(b) ==
    /\ outcome \in {"running", "raised"}
    /\ position[b] < Lengths[b]

(* The next node of a branch returns an update of the key. *)
NodeReturns(b) ==
    /\ CanRun(b)
    /\ LET i == position[b] + 1
           value == Returned(b, i)
           written == [heap EXCEPT ![value] = Contribution(b, <<b, i>>)]
           inBranch == ApplyReducer(Memory(written, branchState[b]), value,
                                    Built("branch", b))
           inDelta == ApplyReducer(Memory(inBranch.heap, delta[b]), value,
                                   Built("delta", b))
       IN  /\ heap' = inDelta.heap
           /\ branchState' = [branchState EXCEPT ![b] = inBranch.dict]
           /\ delta' = [delta EXCEPT ![b] = inDelta.dict]
           /\ position' = [position EXCEPT ![b] = i]
           /\ said' = [said EXCEPT ![b] = Append(@, <<b, i>>)]
    /\ UNCHANGED <<case, state, outcome>>

NodeReturnsNothing(b) ==
    /\ CanRun(b)
    /\ position' = [position EXCEPT ![b] = @ + 1]
    /\ UNCHANGED <<case, heap, state, branchState, delta, said, outcome>>

(* The first failure is the one gather raises; until its waiter runs, the   *)
(* other branches go on.                                                    *)
NodeRaises(b) ==
    /\ CanRun(b)
    /\ outcome = "running"
    /\ outcome' = "raised"
    /\ UNCHANGED <<case, heap, state, branchState, delta, position, said>>

(* gather_or_cancel cancels the siblings and waits for them; a node_timeout *)
(* of the executor cancels every branch.                                    *)
CancelSiblings ==
    /\ outcome = "raised"
    /\ outcome' = "failed"
    /\ UNCHANGED <<case, heap, state, branchState, delta, position, said>>

Timeout ==
    /\ outcome = "running"
    /\ \E b \in Branch : CanRun(b)
    /\ outcome' = "failed"
    /\ UNCHANGED <<case, heap, state, branchState, delta, position, said>>

(* The update, after the deltas of the branches up to b.                    *)
MergedUpTo[b \in 0..Len(Lengths)] ==
    IF b = 0 THEN Memory(heap, Absent)
    ELSE IF delta[b] = Absent THEN MergedUpTo[b - 1]
    ELSE ApplyReducer(MergedUpTo[b - 1], delta[b], Built("merged", 0))

(* Every branch has returned: the deltas, in branch order, make one update, *)
(* which the executor merges into the state.                                *)
MergeDeltas ==
    /\ outcome = "running"
    /\ \A b \in Branch : position[b] = Lengths[b]
    /\ LET merged == MergedUpTo[Len(Lengths)]
           final == IF merged.dict = Absent THEN Memory(heap, state)
                    ELSE ApplyReducer(Memory(merged.heap, state), merged.dict,
                                      Built("final", 0))
       IN  /\ heap' = final.heap
           /\ state' = final.dict
    /\ outcome' = "merged"
    /\ UNCHANGED <<case, branchState, delta, position, said>>

Done ==
    /\ outcome \in {"failed", "merged"}
    /\ UNCHANGED branchesVars

BranchesNext ==
    \/ \E b \in Branch : NodeReturns(b) \/ NodeReturnsNothing(b) \/ NodeRaises(b)
    \/ CancelSiblings
    \/ Timeout
    \/ MergeDeltas
    \/ Done

BranchesSpec == BranchesInit /\ [][BranchesNext]_branchesVars

-----------------------------------------------------------------------------
(* Properties. *)

Contents(dict) == IF dict = Absent THEN <<>> ELSE heap[dict]

Speakers == {b \in Branch : said[b] # <<>>}

(* "append" extends in place a list that the dicts share: the state's own,  *)
(* which every branch's copy holds, or the first one a branch's node        *)
(* returned, which its copy and its delta hold.                             *)
ExtendsShared ==
    /\ case.reducer = "append"
    /\ case.present \/ \E b \in Branch : Len(said[b]) > 1

(* What the merged state holds, whatever the interleaving was: under an     *)
(* accumulating reducer everything that was returned, once, branch after    *)
(* branch; under "override" what the last branch made of the value it was   *)
(* given; under "keep" what was there first.  (Where "append" extends a     *)
(* shared list, its items come more than once.)                             *)
Expected ==
    CASE case.reducer \in {"append", "combine"} -> Before \o FlattenSeq(said)
      [] case.reducer = "override" /\ Speakers # {} ->
           Before \o said[CHOOSE b \in Speakers : \A c \in Speakers : c <= b]
      [] case.reducer = "keep" /\ ~case.present /\ Speakers # {} ->
           <<Head(said[CHOOSE b \in Speakers : \A c \in Speakers : b <= c])>>
      [] OTHER -> Before

MergedOnceInBranchOrder ==
    (outcome = "merged" /\ ~ExtendsShared) => Contents(state) = Expected

(* A Parallel node that raised or timed out has left the state as it was:   *)
(* the executor's save on the error edge holds nothing of it (unless its    *)
(* list is the one "append" extends).                                       *)
FailureLeavesStateAlone ==
    (outcome = "failed" /\ ~(case.reducer = "append" /\ case.present)) =>
        Contents(state) = Before

(* No branch sees or returns what another one wrote (parallel.py:16-17),    *)
(* but through the list of the state that "append" extends.                 *)
BranchesAreIsolated ==
    (outcome # "merged" /\ ~(case.reducer = "append" /\ case.present)) =>
        \A b \in Branch :
            \A item \in ToSet(Contents(branchState[b])) \cup ToSet(Contents(delta[b])) :
                item = Old \/ item[1] = b

(* An accumulating reducer loses nothing, shared list or not.               *)
NothingIsLost ==
    (outcome = "merged" /\ case.reducer \in {"append", "combine"}) =>
        ToSet(Before \o FlattenSeq(said)) \subseteq ToSet(Contents(state))

\* A Parallel node changes the state once, by all its branches and by nothing
\* else, or not at all.
MergedOrUntouched ==
    /\ MergedOnceInBranchOrder /\ FailureLeavesStateAlone
    /\ BranchesAreIsolated /\ NothingIsLost
===============================================================================
