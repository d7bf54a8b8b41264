------------------------------ MODULE GraphTrace ------------------------------
(***************************************************************************)
(* What GraphObserver (observability/collector.py) makes of a run: a span  *)
(* for each node, and on each span the model calls that were reported      *)
(* while it was on top of _active, one stack for the whole run.  The       *)
(* executor brackets its nodes with node_start and node_end or node_error, *)
(* and so do Parallel, Map and Loop for the nodes inside them.  A branch   *)
(* that is cancelled reports nothing, and a node that pauses reports no    *)
(* end.                                                                    *)
(***************************************************************************)
EXTENDS Naturals, Sequences, FiniteSets, SequencesExt

CONSTANTS
  Paths,      \* of the graph: the branches of each node, {} for a plain node, one
              \* for a Loop and its body, several for Parallel or Map
  MaxVisits,  \* bound: visits of a node, by an edge back or a round of a Loop
  MaxCalls    \* bound: model calls of a run

ASSUME PathsAssumption == \A p \in Paths : p \in Seq(SUBSET (Nat \ {0}))

VARIABLES
  trace,     \* the observer: spans, the stack, the status of the run
  path,      \* the member of Paths at work
  step,      \* the node of the path the run is at
  phase,     \* of that node: "before", "running", "failing", "pausing"
  running,   \* the nodes at work: it, and those inside it
  finished,  \* those inside it that have ended in this visit
  talk,      \* model calls of the visit; all but the last asked for a tool
  reporting, \* leaves whose call is counted and whose payload is not yet sent
  visits,
  ended,     \* history: how the last visit of each node ended
  counted,   \* history: calls the RunTracer has counted, of each node
  dropped,   \* history: those cancelled before their payload was sent
  used,      \* history: tool calls whose result went back to the model
  crowded    \* history: two leaves were at work at once, or one was cancelled

traceVars == <<trace, path, step, phase, running, finished, talk, reporting, visits,
               ended, counted, dropped, used, crowded>>

Top(s) == <<s, 0>>
Inner(s) == {s} \X path[s]
TracedNode == UNION {{Top(s)} \cup Inner(s) : s \in DOMAIN path}
Leaves == {n \in TracedNode : n[2] # 0 \/ path[n[1]] = {}}

NoSpan == [seen |-> FALSE, status |-> "ok", calls |-> <<>>, tools |-> <<>>, events |-> <<>>]
TraceInit ==
  /\ path \in Paths
  /\ trace = [spans |-> [n \in TracedNode |-> NoSpan], active |-> <<>>, status |-> "running"]
  /\ step = 1 /\ phase = "before" /\ running = {} /\ finished = {} /\ reporting = {}
  /\ talk = [n \in TracedNode |-> 0] /\ visits = [n \in TracedNode |-> 0]
  /\ ended = [n \in TracedNode |-> "never"]
  /\ counted = [n \in TracedNode |-> 0] /\ dropped = [n \in TracedNode |-> 0]
  /\ used = [n \in TracedNode |-> 0]
  /\ crowded = FALSE

-----------------------------------------------------------------------------
(* GraphObserver.  A span that is not on top when it ends stays on the     *)
(* stack until the run ends, which ends it once more, as "ok".             *)

StartSpan(t, n) == [t EXCEPT !.spans[n].seen = TRUE, !.active = Append(@, n)]

Pop(stack, n) == IF stack # <<>> /\ Last(stack) = n THEN Front(stack) ELSE stack

\* Mutant: the status is set once.
EndSpanFirst(t, n, status) ==
  [t EXCEPT !.spans[n].status = IF @ = "error" THEN @ ELSE status, !.active = Pop(@, n)]

EndSpan(t, n, status) ==
  [t EXCEPT !.spans[n].status = status, !.active = Pop(@, n)]

EndRun(t, status) ==
  [FoldLeft(LAMBDA u, n : EndSpan(u, n, "ok"), t, t.active) EXCEPT !.status = status]

\* A model call, and the tool call it asked for: its result is part of the
\* payload of the next model call.
ToolCall(n, i) == [node |-> n, visit |-> visits[n], round |-> i]
Shown(n) == [i \in 1..(talk[n] - 1) |-> ToolCall(n, i)]

\* The tool calls the payload shows are taken up once for each id, before the
\* model call itself.  An event is a place in one of the two lists.
Payload(t, n) ==
  IF t.active = <<>> THEN t
  ELSE LET top == Last(t.active)
           span == t.spans[top]
           unseen == SelectSeq(Shown(n), LAMBDA c : c \notin ToSet(span.tools))
           taken == [i \in DOMAIN unseen |-> <<"tool", Len(span.tools) + i>>]
       IN  [t EXCEPT !.spans[top].calls = Append(@, ToolCall(n, talk[n])),
                     !.spans[top].tools = @ \o unseen,
                     !.spans[top].events = @ \o taken \o <<<<"llm", Len(span.calls) + 1>>>>]

-----------------------------------------------------------------------------
(* What SQLiteExporter keeps of the trace: a row for each span, and one    *)
(* table for the calls of all of them, each with the node_id it was given; *)
(* and what get_run makes of the rows for the dashboard.                   *)

SpanRows(t) ==
  LET opened == SetToSeq({n \in TracedNode : t.spans[n].seen})
  IN  [i \in DOMAIN opened |-> [id |-> opened[i], status |-> t.spans[opened[i]].status,
           tools |-> t.spans[opened[i]].tools, events |-> t.spans[opened[i]].events]]

CallRows(t) ==
  LET Of(row) == [i \in DOMAIN t.spans[row.id].calls |->
                     [node_id |-> row.id, call |-> t.spans[row.id].calls[i]]]
  IN  FoldLeft(LAMBDA rows, row : rows \o Of(row), <<>>, SpanRows(t))

GetRun(spanRows, callRows) ==
  [i \in DOMAIN spanRows |->
     [span |-> spanRows[i],
      calls |-> SelectSeq(callRows, LAMBDA c : c.node_id = spanRows[i].id)]]

-----------------------------------------------------------------------------
(* The executor and the containers.                                        *)

OnPath == trace.status = "running" /\ step <= Len(path)
Visit(n) ==
  /\ visits' = [visits EXCEPT ![n] = @ + 1]
  /\ talk' = [talk EXCEPT ![n] = 0]

StartNode ==
  /\ OnPath /\ phase = "before"
  /\ trace' = StartSpan(trace, Top(step))
  /\ Visit(Top(step)) /\ phase' = "running" /\ running' = {Top(step)} /\ finished' = {}
  /\ UNCHANGED <<path, step, reporting, ended, counted, dropped, used, crowded>>

\* The branches start in order; a Loop starts its body again.
StartBranch ==
  /\ OnPath /\ phase = "running"
  /\ \E n \in Inner(step) :
       /\ n \notin running
       /\ Cardinality(path[step]) > 1 =>
             n \notin finished /\ \A m \in Inner(step) : m[2] < n[2] => m \in running \cup finished
       /\ visits[n] < MaxVisits + visits[Top(step)] - 1
       /\ trace' = StartSpan(trace, n)
       /\ Visit(n) /\ running' = running \cup {n}
       /\ crowded' = (crowded \/ running # {Top(step)})
  /\ UNCHANGED <<path, step, phase, finished, reporting, ended, counted, dropped, used>>

\* RunTracer.llm, and after an await the payload.
CallModel ==
  /\ OnPath /\ phase # "before"
  /\ \E n \in running \cap Leaves :
       /\ n \notin reporting /\ MapThenSumSet(LAMBDA m : counted[m], Leaves) < MaxCalls
       /\ talk' = [talk EXCEPT ![n] = @ + 1]
       /\ counted' = [counted EXCEPT ![n] = @ + 1]
       /\ reporting' = reporting \cup {n}
  /\ UNCHANGED <<trace, path, step, phase, running, finished, visits, ended, dropped, used, crowded>>

SendPayload ==
  /\ OnPath
  /\ \E n \in reporting :
       /\ trace' = Payload(trace, n) /\ reporting' = reporting \ {n}
       /\ used' = [used EXCEPT ![n] = IF talk[n] > 1 THEN @ + 1 ELSE @]
  /\ UNCHANGED <<path, step, phase, running, finished, talk, visits, ended, counted, dropped, crowded>>

\* The end of a node inside a container.  Its siblings go on until the
\* container is told of the first failure.
EndBranch ==
  /\ OnPath
  /\ \E n \in running \cap Inner(step), how \in {"ok", "error", "interrupt"} :
       /\ n \notin reporting
       /\ how = "interrupt" => phase = "running"
       /\ trace' = EndSpan(trace, n, IF how = "ok" THEN "ok" ELSE "error")
       /\ ended' = [ended EXCEPT ![n] = IF how = "ok" THEN "ok" ELSE "error"]
       /\ running' = running \ {n} /\ finished' = finished \cup {n}
       /\ phase' = IF phase # "running" \/ how = "ok" THEN phase
                   ELSE IF how = "error" THEN "failing" ELSE "pausing"
  /\ UNCHANGED <<path, step, talk, reporting, visits, counted, dropped, used, crowded>>

\* What is still at work inside the node is cancelled, and says nothing.
Cancelled == running \ {Top(step)}
CancelInner ==
  /\ dropped' = [n \in TracedNode |-> dropped[n] + Cardinality({n} \cap reporting)]
  /\ reporting' = {} /\ running' = {} /\ finished' = {}
  /\ crowded' = (crowded \/ Cancelled # {})

Leave(t) ==
  /\ phase' = "before"
  /\ \/ step' = step + 1
     \/ visits[Top(step)] < MaxVisits /\ step' = step
  /\ trace' = IF step' > Len(path) THEN EndRun(t, "ok") ELSE t

IsLeaf(s) == path[s] = {}
NodeEnds ==
  /\ OnPath /\ phase = "running" /\ running = {Top(step)} /\ reporting = {}
  /\ finished = Inner(step)
  /\ ended' = [ended EXCEPT ![Top(step)] = "ok"]
  /\ Leave(EndSpan(trace, Top(step), "ok"))
  /\ CancelInner
  /\ UNCHANGED <<path, talk, visits, counted, used>>

\* It raises, the container has its siblings cancelled, or its time is up; an
\* error edge may take the run on.
NodeFails ==
  /\ OnPath
  /\ phase = "failing" \/ phase = "running"
  /\ ended' = [ended EXCEPT ![Top(step)] = "error"]
  /\ LET t == EndSpan(trace, Top(step), "error") IN
       \/ Leave(t)
       \/ trace' = EndRun(t, "error") /\ UNCHANGED <<step, phase>>
  /\ CancelInner
  /\ UNCHANGED <<path, talk, visits, counted, used>>

NodePauses ==
  /\ OnPath
  /\ phase = "pausing" \/ (phase = "running" /\ IsLeaf(step) /\ reporting = {})
  /\ ended' = [ended EXCEPT ![Top(step)] = "interrupted"]
  /\ trace' = EndRun(trace, "interrupted")
  /\ CancelInner
  /\ UNCHANGED <<path, step, phase, talk, visits, counted, used>>

TraceNext ==
  \/ StartNode \/ StartBranch \/ CallModel \/ SendPayload \/ EndBranch
  \/ NodeEnds \/ NodeFails \/ NodePauses

-----------------------------------------------------------------------------
(* Properties.                                                             *)

Count(seq, n) == Cardinality({i \in DOMAIN seq : seq[i].node = n})
Spans == trace.spans
TraceOver == trace.status # "running"

\* Every call RunTracer counted is on one span (unless it was cancelled before
\* its payload was sent), and that span is of the node's own step; outside
\* Parallel and Map it is the node's own.
CallsStayInTheirStep ==
  \A n \in Leaves :
     /\ counted[n] = dropped[n] + Cardinality({n} \cap reporting)
                       + MapThenSumSet(LAMBDA m : Count(Spans[m].calls, n), TracedNode)
     /\ \A m \in TracedNode : Count(Spans[m].calls, n) > 0 =>
           m = n \/ (m[1] = n[1] /\ Cardinality(path[n[1]]) > 1)

\* observability.md:10-15: "one span per visited node (timing, status, errors)"
\* and every tool call.  So it is as long as one leaf is at work at a time and
\* none is cancelled (and the ids of the tool calls tell visits apart).
SequentialTraceIsFaithful ==
  (TraceOver /\ ~crowded) => \A n \in TracedNode :
     /\ Spans[n].seen = (visits[n] > 0)
     /\ (Spans[n].status = "error") = (ended[n] = "error")
     /\ \A i \in DOMAIN Spans[n].tools : Spans[n].tools[i].node = n
     /\ Len(Spans[n].tools) = used[n]

\* model.py:104-108: the events "let a UI render the exact sequence a node
\* followed - LLM call, tool call and its result, next LLM call, and so on".
\* Read back from the rows, they point at calls of the node in the order in
\* which those were made, over all its visits; again with one leaf at a time.
EventsReplayTheNode ==
  (TraceOver /\ ~crowded) =>
     LET run == GetRun(SpanRows(trace), CallRows(trace)) IN
     \A i \in DOMAIN run :
       LET Made(e) == IF e[1] = "tool" THEN run[i].span.tools[e[2]] ELSE run[i].calls[e[2]].call
           Place(e) == 2 * Made(e).round + (IF e[1] = "tool" THEN 1 ELSE 0)
           events == run[i].span.events
       IN  /\ Len(events) = Len(run[i].calls) + Len(run[i].span.tools)
           /\ \A j, k \in DOMAIN events : j < k =>
                 \/ Made(events[j]).visit < Made(events[k]).visit
                 \/ /\ Made(events[j]).visit = Made(events[k]).visit
                    /\ Place(events[j]) < Place(events[k])

\* So a trace tells its run: what ran, how it ended, what it called and when.
TraceTellsTheRun ==
  SequentialTraceIsFaithful /\ CallsStayInTheirStep /\ EventsReplayTheNode
=============================================================================
