--------------------------- MODULE WorkflowDocument ---------------------------
(***************************************************************************)
(* Workflow documents (teff/yaml.py, teff/flow/compiler).  The idioms of   *)
(* the authoring layer compile through the builder's methods.  A flow can  *)
(* be written as a low-level document of steps and edges, where a question *)
(* that interrupt(accept=...) built may stand as one interrupt step with a *)
(* strategy; such a document is loaded as it is or included, under         *)
(* prefixes, in another one.                                               *)
(*                                                                         *)
(* A step's id is the prefix it was included under, the node it stands for *)
(* and the suffix the expansion of a strategy gave it.                     *)
(***************************************************************************)
EXTENDS FlowBuilder

CONSTANT MaxWritten   \* bound: calls of a flow that is written as a document

VARIABLES
  stage,      \* "building", "written", "loaded" or "rejected"
  document,   \* the document, then the graph loaded from it
  byHand,     \* whether its questions are written as strategies
  copies      \* the prefixes under which the flow is in the document

documentVars == <<stage, document, byHand, copies>>
authoringVars == <<flow, calls, loops, stops, plain, stage, document, byHand, copies>>

-----------------------------------------------------------------------------
(* The idioms of the authoring layer, one action per handler.               *)

IdiomNode == Call(Step(flow, Always), {})        \* llm, transform, agent, ...

IdiomParallel ==
  \E joined \in BOOLEAN :
    Call(IF joined THEN Converge(ParallelNode(flow)) ELSE ParallelNode(flow), {})

IdiomMap == Call(MapNode(flow), {})

\* The nodes of one step in a loop: a strategy interrupt is a chain.
StepLengths == {1} \cup {AskLength(classified) : classified \in BOOLEAN}

\* body and done are new nodes.
\* label: names the node the loop decides on, whatever was added meanwhile.
IdiomLoop ==
  /\ flow.last # NoNode
  /\ \E bodyLen \in StepLengths, doneLen \in 1..2, bounded, labelled \in BOOLEAN :
       LET New(k) == [i \in 1..k |-> NoNode]
           g == IF bounded THEN LoopBounded(flow, doneLen)
                ELSE Loop(flow, Pass, New(doneLen), New(bodyLen))
           first == flow.size + doneLen + 1
       IN  /\ Built(IF labelled THEN [g EXCEPT !.label = flow.last] ELSE g,
                    LeftBehind(flow))
           /\ loops' = IF bounded THEN loops ELSE
                loops \cup {[decider |-> flow.last, again |-> first,
                             done |-> flow.size + 1, body |-> first]}
           /\ UNCHANGED plain

IdiomInterrupt ==
  \/ Call(Step(flow, Always), {})
  \/ \E classified \in BOOLEAN : Call(Interrupt(flow, classified), {})

\* Every case has at least one step; converge: joins the ends at once.
IdiomBranch ==
  /\ flow.last # NoNode
  /\ \E cases \in CaseLists({1, 2}), hasDefault, joined \in BOOLEAN :
       LET g == Branch(flow, cases, hasDefault)
       IN  Call(IF joined THEN Converge(g) ELSE g,
                {flow.last} \X Unmatched(cases, hasDefault))

IdiomRoute == Call(Command(flow, Values \ {Pass}), {})

IdiomTeam ==
  \E agents \in CaseLists({1}), finishLen \in 0..1 :
    Call(Team(flow, agents, finishLen),
         RouteStops(flow.size + 1, agents, finishLen))

\* supervisor: with agents: is a team; without, it is one decider node.
IdiomSupervisor == IdiomTeam \/ IdiomNode

IdiomSupervise ==
  /\ flow.last # NoNode
  /\ \E agents \in CaseLists({1, 2}), finishLen \in 0..1 :
       Call(Route(flow, agents, finishLen),
            RouteStops(flow.last, agents, finishLen))

CompileStep ==
  \/ IdiomNode \/ IdiomParallel \/ IdiomMap \/ IdiomLoop \/ IdiomInterrupt
  \/ IdiomBranch \/ IdiomRoute \/ IdiomTeam \/ IdiomSupervisor \/ IdiomSupervise

-----------------------------------------------------------------------------
(* Low-level documents.                                                     *)

Id(n, suffix) == [prefix |-> "", node |-> n, suffix |-> suffix]

\* The question that node n is the classifier or the validate step of.
Inside(f, n) == {a \in f.asks : n \in (a.at + 1)..(a.at + a.len - 1)}

\* By hand, those steps are named after the interrupt step they expand from.
IdOf(f, hand, n) ==
  IF ~hand \/ Inside(f, n) = {} THEN Id(n, "")
  ELSE LET a == CHOOSE x \in Inside(f, n) : TRUE
       IN  Id(a.at, IF n = a.at + a.len - 1 THEN "validate" ELSE "classifier")

\* The suffixes of the steps that step n expands to.
Parts(f, hand, n) ==
  IF ~hand \/ \A a \in f.asks : a.at # n THEN <<>>
  ELSE IF \E a \in f.asks : a.at = n /\ a.len = 3
       THEN <<"classifier", "validate">> ELSE <<"validate">>

\* The edges inside a question, which by hand are left to the expansion.
Internal(f, e) ==
  \E a \in f.asks : e.src \in a.at..(a.at + a.len - 2) /\ e.tgt = e.src + 1

\* workflow_to_yaml, or the document an author writes for the same flow: there
\* a question is one step, and what leaves the question leaves that step.
Written(f, hand) ==
  LET shown == SelectSeq([n \in 1..f.size |-> n],
                         LAMBDA n : ~hand \/ Inside(f, n) = {})
      edges == SelectSeq(f.edges, LAMBDA e : ~hand \/ ~Internal(f, e))
      Source(n) == [IdOf(f, hand, n) EXCEPT !.suffix = ""]
      Name(n) == IdOf(f, hand, n)
  IN  [steps |-> [i \in DOMAIN shown |->
                    [id |-> Id(shown[i], ""), parts |-> Parts(f, hand, shown[i])]],
       edges |-> [i \in DOMAIN edges |->
                    Edge(Source(edges[i].src), Name(edges[i].tgt), edges[i].on)],
       jumps |-> [i \in DOMAIN f.jumps |->
                    Edge(Name(f.jumps[i].src), Name(f.jumps[i].tgt),
                         f.jumps[i].on)]]

\* Only the last step of a question has edges that leave it.
CanBeWrittenByHand(f) ==
  \A i \in DOMAIN f.edges, a \in f.asks :
    f.edges[i].src \in a.at..(a.at + a.len - 2) => Internal(f, f.edges[i])

Suffixed(id, suffix) == [id EXCEPT !.suffix = suffix]

\* Mutant of Expand: the author's edges stay at the interrupt step.
ExpandUnwired(doc) ==
  LET PartsOf(s) == [k \in DOMAIN s.parts |->
                       [id |-> Suffixed(s.id, s.parts[k]), parts |-> <<>>]]
      AutoEdges(s) == [k \in DOMAIN s.parts |->
                         Edge(IF k = 1 THEN s.id ELSE Suffixed(s.id, s.parts[k - 1]),
                              Suffixed(s.id, s.parts[k]), Always)]
  IN  [doc EXCEPT
         !.steps = FlattenSeq([i \in DOMAIN @ |-> <<@[i]>> \o PartsOf(@[i])]),
         !.edges = FlattenSeq([i \in DOMAIN doc.steps |-> AutoEdges(doc.steps[i])]) \o @]

\* _expand_interrupt_strategy: the steps of each question behind its interrupt
\* step, their edges before all others, and the author's edges that leave the
\* interrupt step re-pointed at the validate step.
Expand(doc) ==
  LET PartsOf(s) == [k \in DOMAIN s.parts |->
                       [id |-> Suffixed(s.id, s.parts[k]), parts |-> <<>>]]
      AutoEdges(s) == [k \in DOMAIN s.parts |->
                         Edge(IF k = 1 THEN s.id ELSE Suffixed(s.id, s.parts[k - 1]),
                              Suffixed(s.id, s.parts[k]), Always)]
      Rewired(id) == IF \E i \in DOMAIN doc.steps :
                          doc.steps[i].id = id /\ doc.steps[i].parts # <<>>
                     THEN Suffixed(id, "validate") ELSE id
  IN  [doc EXCEPT
         !.steps = FlattenSeq([i \in DOMAIN @ |-> <<@[i]>> \o PartsOf(@[i])]),
         !.edges = FlattenSeq([i \in DOMAIN doc.steps |-> AutoEdges(doc.steps[i])])
                     \o [i \in DOMAIN @ |-> [@[i] EXCEPT !.src = Rewired(@)]]]

\* _resolve_includes: an included document is expanded, then its step ids, its
\* edges and its goto targets get the prefix.
Included(doc, p) ==
  LET sub == Expand(doc)
      Name(id) == [id EXCEPT !.prefix = p]
      Renamed(list) == [i \in DOMAIN list |->
                          [list[i] EXCEPT !.src = Name(@), !.tgt = Name(@)]]
  IN  [steps |-> [i \in DOMAIN sub.steps |-> [sub.steps[i] EXCEPT !.id = Name(@)]],
       edges |-> Renamed(sub.edges),
       jumps |-> Renamed(sub.jumps)]

\* The steps and edges of two includes, in the order of the include list.
Merged(one, two) ==
  [steps |-> one.steps \o two.steps, edges |-> one.edges \o two.edges,
   jumps |-> one.jumps \o two.jumps]

\* validate_workflow: every edge joins steps of the document.
Valid(doc) ==
  LET ids == {doc.steps[i].id : i \in DOMAIN doc.steps}
  IN  \A i \in DOMAIN doc.edges : {doc.edges[i].src, doc.edges[i].tgt} \subseteq ids

-----------------------------------------------------------------------------
Build ==
  /\ stage = "building"
  /\ BuilderCall \/ CompileStep
  /\ UNCHANGED documentVars

Write ==
  /\ stage = "building" /\ flow.size > 0 /\ calls <= MaxWritten
  /\ \E hand \in BOOLEAN :
       /\ hand => flow.asks # {} /\ CanBeWrittenByHand(flow)
       /\ document' = Written(flow, hand)
       /\ byHand' = hand
  /\ stage' = "written" /\ copies' = {""}
  /\ UNCHANGED builderVars

Include ==
  /\ stage = "written" /\ copies = {""}
  /\ document' = Merged(Included(document, "one_"), Included(document, "two_"))
  /\ copies' = {"one_", "two_"}
  /\ UNCHANGED <<flow, calls, loops, stops, plain, stage, byHand>>

\* from_yaml: expand what is left, validate, build the graph.
FromYaml(doc) == [graph |-> Expand(doc), accepted |-> Valid(Expand(doc))]

\* load_workflow does the same, and reads tools and state besides.
Load ==
  /\ stage = "written"
  /\ document' = FromYaml(document).graph
  /\ stage' = IF FromYaml(document).accepted THEN "loaded" ELSE "rejected"
  /\ UNCHANGED <<flow, calls, loops, stops, plain, byHand, copies>>

DocumentInit ==
  /\ BuilderInit
  /\ stage = "building"
  /\ document = [steps |-> <<>>, edges |-> <<>>, jumps |-> <<>>]
  /\ byHand = FALSE /\ copies = {}

DocumentNext == Build \/ Write \/ Include \/ Load

DocumentSpec == DocumentInit /\ [][DocumentNext]_authoringVars

-----------------------------------------------------------------------------
(* Properties.                                                              *)

\* Where the loaded graph goes after a step: at most one id.
Following(doc, id, v) ==
  LET Matching(list) == SelectSeq(list, LAMBDA e : e.src = id /\ v \in e.on)
      all == Matching(doc.jumps) \o Matching(doc.edges)
  IN  IF all = <<>> THEN {} ELSE {all[1].tgt}

\* The copy of the flow under the prefix p runs the way the builder wired it.
RunsAsBuilt(p) ==
  LET At(n) == [IdOf(flow, byHand, n) EXCEPT !.prefix = p]
  IN  \A n \in 1..flow.size, v \in Values :
        Following(document, At(n), v) = {At(m) : m \in {Successor(flow, n, v)} \ {NoNode}}

\* A flow that is exported, or written by hand with its questions as
\* strategies, and loaded again is accepted and runs as the builder wired it;
\* so does every copy of a document that is included, unless the document
\* writes a question as a strategy.
DocumentsRunAsBuilt ==
  /\ stage # "rejected"
  /\ stage = "loaded" =>
       \A p \in copies : p = "" \/ ~byHand => RunsAsBuilt(p)

=============================================================================
