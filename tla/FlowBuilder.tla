----------------------------- MODULE FlowBuilder -----------------------------
(***************************************************************************)
(* The fluent builder (teff/flow): every call appends nodes to a flow and  *)
(* wires them with ordered, conditional edges; the compiled graph follows  *)
(* the first edge whose condition holds.                                   *)
(*                                                                         *)
(* Nodes are numbered in the order of _nodes.  A condition is the set of   *)
(* values of the decision key for which conditions.evaluate returns true,  *)
(* so "key=a" is {a}, "key!=a,b" is Values \ {a, b} and no condition is    *)
(* Values.  A call that raises ends the building, so what it raises on is  *)
(* the negation of a guard here.  Ids, prompts and node configurations are *)
(* left out.                                                               *)
(***************************************************************************)
EXTENDS Integers, Sequences, SequencesExt, FiniteSets

CONSTANTS
  Values,      \* what the decision key may hold (None and "" are among them)
  Pass,        \* the value that ends a loop
  Unclear,     \* the value that asks again without running the body
  Finish,      \* the value that leaves a route
  ToolCalls,   \* the value that stands for "the agent called tools", which
               \* decides at an agent before the decision key does
  MaxCalls,    \* bound: builder calls
  MaxBuild     \* bound: builder calls and nodes of a flow, together

ASSUME BuilderAssumption ==
  /\ {Pass, Unclear, Finish, ToolCalls} \subseteq Values
  /\ Cardinality({Pass, Unclear, Finish, ToolCalls}) = 4
  /\ {MaxCalls, MaxBuild} \subseteq Nat

VARIABLES
  flow,        \* the Flow object
  calls,       \* how many calls were made
  loops,       \* history: what each loop() promised
  stops,       \* history: <<node, value>> at which a call says the flow may end
  plain        \* history: no call joined ends that go on elsewhere, or
               \* re-used a node in the middle of a loop body

builderVars == <<flow, calls, loops, stops, plain>>

NoNode == 0
Always == Values                    \* an edge without a condition

EmptyFlow ==
  [size |-> 0, edges |-> <<>>, last |-> NoNode, ends |-> {}, guard |-> NoNode,
   decider |-> NoNode, label |-> NoNode, jumps |-> <<>>, asks |-> {},
   agents |-> {}, over |-> FALSE]

-----------------------------------------------------------------------------
(* What a compiled graph does after a node: a Command's goto, else the      *)
(* first edge that matches.                                                 *)

Target(list, n, v) ==
  LET matching == SelectSeq(list, LAMBDA e : e.src = n /\ v \in e.on)
  IN  IF matching = <<>> THEN NoNode ELSE matching[1].tgt

Successor(f, n, v) ==
  IF Target(f.jumps, n, v) # NoNode
  THEN Target(f.jumps, n, v)
  ELSE Target(f.edges, n, v)

Successors(f, n) == {Successor(f, n, v) : v \in Values} \ {NoNode}

\* Everything a run that starts at one of the nodes `from' may visit.
Reachable(f, from) ==
  FoldLeft(LAMBDA seen, i : seen \cup UNION {Successors(f, n) : n \in seen},
           from, [i \in 1..f.size |-> i])

-----------------------------------------------------------------------------
(* The builder methods, as functions from a flow to a flow.                 *)

Edge(s, t, on) == [src |-> s, tgt |-> t, on |-> on]

Wired(f, s, t, on) ==
  IF s = NoNode THEN f ELSE [f EXCEPT !.edges = Append(@, Edge(s, t, on))]

Grown(f) == [f EXCEPT !.size = @ + 1]

\* step(node, when=on): a condition makes the previous node the guarded one.
Step(f, on) ==
  [Wired(Grown(f), f.last, f.size + 1, on) EXCEPT
     !.decider = NoNode,
     !.guard = IF on = Always THEN NoNode ELSE f.last,
     !.last = f.size + 1]

Steps(f, k) == FoldLeft(LAMBDA g, i : Step(g, Always), f, [i \in 1..k |-> i])

\* add_flow(): one node in the chain; the loop decider is kept.
AddFlow(f) ==
  [Wired(Grown(f), f.last, f.size + 1, Always) EXCEPT
     !.guard = NoNode, !.last = f.size + 1]

\* map(): the same for a Map node.
MapNode(f) == AddFlow(f)

\* parallel(): the node is also the only branch end.
ParallelNode(f) == [AddFlow(f) EXCEPT !.ends = {f.size + 1}]

\* harness() and react(): an agent and its tools, which return to the agent.
HarnessNodes(f) ==
  LET agent == f.size + 1
      tools == f.size + 2
      looped == [f EXCEPT !.size = @ + 2,
                          !.edges = @ \o <<Edge(agent, tools, {ToolCalls}),
                                           Edge(tools, agent, Always)>>]
  IN  [Wired(looped, f.last, agent, Always) EXCEPT
         !.last = agent, !.ends = {}, !.guard = NoNode, !.agents = @ \cup {agent}]

\* len new nodes in a row behind src, entered under the condition on.
Chain(f, src, on, len) ==
  [f EXCEPT
     !.size = @ + len,
     !.edges = @ \o [i \in 1..len |->
                       IF i = 1 THEN Edge(src, f.size + 1, on)
                                ELSE Edge(f.size + i - 1, f.size + i, Always)]]

CaseValues(cases) == {cases[i].value : i \in DOMAIN cases}

\* branch(key, *cases, default=...): one conditional chain per case, and a
\* default for the values no case names.
Branch(f, cases, hasDefault) ==
  LET Ended(g, len) ==
        IF len = 0 THEN g ELSE [g EXCEPT !.ends = @ \cup {g.size}]
      AddCase(g, c) == Ended(Chain(g, f.last, {c.value}, c.len), c.len)
      cased == FoldLeft(AddCase, [f EXCEPT !.ends = {}, !.guard = NoNode], cases)
      all == IF hasDefault
             THEN Ended(Chain(cased, f.last, Values \ CaseValues(cases), 1), 1)
             ELSE cased
  IN  [all EXCEPT !.last = IF all.ends = {} THEN @ ELSE all.size]

\* default(node): the fallback of the guarded step.
Default(f) ==
  [Wired(Grown(f), f.guard, f.size + 1, Always) EXCEPT
     !.guard = NoNode, !.ends = @ \cup {f.size + 1}, !.last = f.size + 1]

\* converge(node): every branch end goes on to the node.
Converge(f) ==
  [f EXCEPT
     !.size = @ + 1,
     !.edges = @ \o SetToSeq({Edge(end, f.size + 1, Always) : end \in f.ends}),
     !.last = f.size + 1, !.ends = {}, !.guard = NoNode]

\* loop()'s add_chain: the nodes of chain in a row behind the decider, where
\* NoNode stands for a new node and any other entry for one already added.
LoopChain(f, on, chain) ==
  LET Add(acc, x) ==
        LET n == IF x = NoNode THEN acc.f.size + 1 ELSE x
            g == IF x = NoNode THEN Grown(acc.f) ELSE acc.f
        IN  IF acc.prev = NoNode
            THEN [f |-> Wired(g, f.last, n, on), first |-> n, prev |-> n]
            ELSE [f |-> Wired(g, acc.prev, n, Always), first |-> acc.first, prev |-> n]
  IN  FoldLeft(Add, [f |-> f, first |-> NoNode, prev |-> NoNode], chain)

\* Mutant of Loop: the body does not go back to the decider.
LoopOnce(f, until, done, body) ==
  LET ended == LoopChain([f EXCEPT !.decider = f.last, !.guard = NoNode],
                         {until}, done)
  IN  [LoopChain(ended.f, Values \ {until}, body).f EXCEPT !.last = ended.prev]

\* loop(key, until, done, body): decider -until-> done, otherwise the body,
\* which goes back to the decider unless it already ends on it.
Loop(f, until, done, body) ==
  LET decider == f.last
      ended == LoopChain([f EXCEPT !.decider = decider, !.guard = NoNode],
                         {until}, done)
      looped == LoopChain(ended.f, Values \ {until}, body)
      closed == IF looped.prev # decider
                THEN Wired(looped.f, looped.prev, decider, Always)
                ELSE looped.f
  IN  [closed EXCEPT !.last = ended.prev]

\* loop(..., max_rounds): one loop node, then the done chain.
LoopBounded(f, doneLen) == Steps(f, 1 + doneLen)

\* interrupt(key, accept=...): interrupt, optional classifier, validate.
AskLength(classified) == IF classified THEN 3 ELSE 2

Interrupt(f, classified) ==
  [Steps(f, AskLength(classified)) EXCEPT
     !.asks = @ \cup {[at |-> f.size + 1, len |-> AskLength(classified)]}]

\* interrupt_loop(): the clarify edge comes before the edges of loop(), which
\* re-uses the question's nodes at the end of its body.
InterruptLoop(f, classified, clarifies, body, doneLen) ==
  LET asked == Interrupt(f, classified)
      question == [i \in 1..AskLength(classified) |-> f.size + i]
      clear == IF clarifies
               THEN Wired(asked, asked.last, f.size + 1, {Unclear})
               ELSE asked
  IN  Loop(clear, Pass, [i \in 1..doneLen |-> NoNode], body \o question)

\* route(key, finish=..., **agents): each agent's chain returns to the
\* decider; without a finish chain the flow takes no further nodes.
Route(f, agents, finishLen) ==
  LET decider == f.last
      finished == Chain([f EXCEPT !.guard = NoNode], decider, {Finish}, finishLen)
      AddAgent(g, a) ==
        LET chained == Chain(g, decider, {a.value}, a.len)
        IN  Wired(chained, chained.size, decider, Always)
  IN  [FoldLeft(AddAgent, finished, agents) EXCEPT
         !.last = IF finishLen = 0 THEN decider ELSE finished.size,
         !.ends = {},
         !.over = (finishLen = 0)]

\* team(): a supervisor as decider, then one routed agent per role.
Team(f, agents, finishLen) == Route(Step(f, Always), agents, finishLen)

\* label(): the loop decider if there is one, else the last node.
Label(f) ==
  [f EXCEPT !.label = IF f.decider # NoNode THEN f.decider ELSE f.last]

\* command(routes=[{when: on, goto: label}]): the goto wins over the edges.
Command(f, on) ==
  LET g == Step(f, Always)
  IN  [g EXCEPT !.jumps = IF f.label = NoNode THEN @
                          ELSE Append(@, Edge(g.last, f.label, on))]

-----------------------------------------------------------------------------
(* The calls.                                                               *)

\* The ends that a call other than converge() and default() leaves behind.
LeftBehind(f) == (f.ends \ {f.last}) \X Values

\* One successful call that yields g; `announced' are the points at which its
\* documentation lets the flow end.
Built(g, announced) ==
  /\ ~flow.over                       \* _check_continuation
  /\ calls < MaxCalls /\ calls + 1 + g.size <= MaxBuild
  /\ flow' = g
  /\ calls' = calls + 1
  /\ stops' = stops \cup announced

Unchanged == UNCHANGED <<loops, plain>>

Call(g, announced) == Built(g, announced \cup LeftBehind(flow)) /\ Unchanged

Conditions == {{Pass}, Values \ {Pass}}

CallStep == Call(Step(flow, Always), {})

CallGuardedStep ==
  /\ flow.last # NoNode
  /\ \E on \in Conditions :
       Call(Step(flow, on), {flow.last} \X (Values \ on))

\* The guarded handler is not joined with the fallback: a path ends there.
CallDefault ==
  /\ flow.guard # NoNode
  /\ Built(Default(flow), {flow.last} \X Values)
  /\ Unchanged

CallAddFlow == Call(AddFlow(flow), {})

CallMap == Call(MapNode(flow), {})

CallHarness == Call(HarnessNodes(flow), {})

CallParallel == Call(ParallelNode(flow), {})

\* One or two cases; they leave at least one value to the default.
CaseLists(lengths) ==
  {<<[value |-> Pass, len |-> k]>> : k \in lengths}
    \cup {<<[value |-> Pass, len |-> j], [value |-> Unclear, len |-> k]>> :
            j \in lengths, k \in lengths}

Unmatched(cases, hasDefault) ==
  {cases[i].value : i \in {j \in DOMAIN cases : cases[j].len = 0}}
    \cup (IF hasDefault THEN {} ELSE Values \ CaseValues(cases))

CallBranch ==
  /\ flow.last # NoNode
  /\ \E cases \in CaseLists(0..2), hasDefault \in BOOLEAN :
       Call(Branch(flow, cases, hasDefault),
            {flow.last} \X Unmatched(cases, hasDefault))

\* The ends converge() joins are those of the call before it, all still open.
JoinsOpenEnds(f) ==
  f.last \in f.ends /\ \A end \in f.ends : Successors(f, end) = {}

CallConverge ==
  /\ Built(Converge(flow), {})
  /\ plain' = (plain /\ JoinsOpenEnds(flow))
  /\ UNCHANGED loops

CallInterrupt == \E classified \in BOOLEAN : Call(Interrupt(flow, classified), {})

\* loop() with new nodes and nodes that are already in the flow.
Bodies(f) ==
  {<<NoNode>>, <<NoNode, NoNode>>}
    \cup {<<n>> : n \in 1..f.size}
    \cup {<<NoNode, n>> : n \in 1..f.size}
    \cup {<<n, NoNode>> : n \in 1..f.size}

\* Re-using a node keeps the edges it has, and they come first.
KeepsOrder(f, body) == \A i \in 1..(Len(body) - 1) : body[i] = NoNode
ReturnsFreely(f, body) ==
  Last(body) = NoNode \/ Successors(f, Last(body)) \subseteq {f.last}

CallLoop ==
  /\ flow.last # NoNode
  /\ \E body \in Bodies(flow), doneLen \in 1..2 :
       LET g == Loop(flow, Pass, [i \in 1..doneLen |-> NoNode], body)
           first == IF body[1] # NoNode THEN body[1] ELSE flow.size + doneLen + 1
       IN  /\ Built(g, LeftBehind(flow))
           /\ loops' = loops \cup {[decider |-> flow.last, again |-> first,
                                    done |-> flow.size + 1, body |-> first]}
           /\ plain' = (plain /\ KeepsOrder(flow, body)
                              /\ ReturnsFreely(flow, body))

CallLoopBounded ==
  /\ flow.last # NoNode
  /\ \E doneLen \in 1..2 : Call(LoopBounded(flow, doneLen), {})

CallInterruptLoop ==
  \E classified, clarifies \in BOOLEAN :
    LET decider == flow.size + AskLength(classified)
        body == decider + 2
    IN  /\ Built(InterruptLoop(flow, classified, clarifies, <<NoNode>>, 1),
                 LeftBehind(flow))
        /\ loops' = loops \cup
             {[decider |-> decider, done |-> decider + 1, body |-> body,
               again |-> IF clarifies THEN flow.size + 1 ELSE body]}
        /\ UNCHANGED plain

\* A route ends the flow at its decider for a value it does not name, and for
\* Finish when it has no finish chain.
RouteStops(decider, agents, finishLen) ==
  {decider} \X (Values \ (CaseValues(agents)
                            \cup (IF finishLen = 0 THEN {} ELSE {Finish})))

CallRoute ==
  /\ flow.last # NoNode
  /\ \E agents \in CaseLists(1..2), finishLen \in 0..1 :
       Call(Route(flow, agents, finishLen),
            RouteStops(flow.last, agents, finishLen))

CallTeam ==
  \E agents \in CaseLists({1}), finishLen \in 0..1 :
    Call(Team(flow, agents, finishLen),
         RouteStops(flow.size + 1, agents, finishLen))

CallLabel ==
  /\ flow.last # NoNode
  /\ flow' = Label(flow) /\ flow' # flow
  /\ UNCHANGED <<calls, loops, stops, plain>>

CallCommand == Call(Command(flow, Values \ {Pass}), {})

BuilderInit ==
  /\ flow = EmptyFlow
  /\ calls = 0
  /\ loops = {} /\ stops = {} /\ plain = TRUE

BuilderCall ==
  \/ CallStep \/ CallGuardedStep \/ CallDefault
  \/ CallAddFlow \/ CallMap \/ CallParallel \/ CallHarness
  \/ CallBranch \/ CallConverge
  \/ CallInterrupt \/ CallLoop \/ CallLoopBounded \/ CallInterruptLoop
  \/ CallRoute \/ CallTeam
  \/ CallLabel \/ CallCommand

-----------------------------------------------------------------------------
(* Properties.                                                              *)

\* No edge is written in vain: for some value of the decision key the graph
\* takes it.  Edges are tried in the order of the calls and the first match
\* wins, so an edge added too late, or twice, is a path nobody can run.
EveryEdgeDecides ==
  plain => \A i \in 1..Len(flow.edges) :
             LET e == flow.edges[i]
             IN  \E v \in e.on : \/ Target(flow.edges, e.src, v) = e.tgt

\* A run ends only at the end of the flow or where a call says that it may:
\* no later call leaves an earlier path without its continuation.
NoPathEndsUnannounced ==
  plain => \A n \in Reachable(flow, {1} \cap (1..flow.size)), v \in Values :
             Successor(flow, n, v) = NoNode =>
               n = flow.last \/ n \in flow.ends \/ <<n, v>> \in stops

\* A loop is left through its done chain exactly when its value passes, asks
\* again when the answer is unclear, otherwise runs its body, and from either
\* the run can come back to decide again.  An agent runs its tools first.
LoopsRepeatAndEnd ==
  plain => \A l \in loops :
    /\ \A v \in Values \ (IF l.decider \in flow.agents THEN {ToolCalls} ELSE {}) :
         Target(flow.edges, l.decider, v) =
           IF v = Pass THEN l.done ELSE IF v = Unclear THEN l.again ELSE l.body
    /\ l.decider \in Reachable(flow, {l.body}) \cap Reachable(flow, {l.again})

\* So a flow that is built goes where its calls say (flow/control.py).
BuiltFlowsAreWired ==
  EveryEdgeDecides /\ NoPathEndsUnannounced /\ LoopsRepeatAndEnd
=============================================================================
