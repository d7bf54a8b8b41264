------------------------- MODULE DocumentValidation -------------------------
(***************************************************************************)
(* The checks a workflow document goes through before its graph runs.      *)
(*                                                                         *)
(* First, what `teff validate` reports of it (teff/yaml_schema.py) and     *)
(* what the loader makes of the same document (teff/yaml.py,               *)
(* teff/flow/compiler, teff/tool/mcp/bridge.py).  The two are written      *)
(* apart: the validator looks at keys, the loader at what it can build,    *)
(* and a document of the authoring layer is loaded without being           *)
(* validated.  A document is one step, after what was built before it, one *)
(* MCP tool and the state block; it is wrong in one of them at most.       *)
(*                                                                         *)
(* Then its references to providers: the registry it declares (yaml.py,    *)
(* provider/registry.py), the checks of the names at load and at the start *)
(* of a run (yaml.py, provider/resolve.py), and the entry the harness of a *)
(* node resolves (harness/loop.py).  The checks take a name as it is       *)
(* written, the harness in lower case.                                     *)
(***************************************************************************)
EXTENDS Naturals, Sequences, FiniteSets, SequencesExt

CONSTANTS MaxEntries   \* bound: entries of the providers block

\* What stands under a key: nothing, a blank, an empty value, one of another
\* type, one of the right type that is wrong inside (a step that does not
\* compile, a name that nothing declares), and a right one.
UnderKey == {"absent", "null", "empty", "other", "odd", "good"}

Missing == {"absent", "null"}
Falsy == Missing \cup {"empty"}
Full == {"odd", "good"}                       \* of the right type, not empty

\* The keys of an idiom that the validator or the compiler looks at.  "graph"
\* stands for a document of the lower layer, with one step and one edge.
Keys == [llm        |-> {},
         transform  |-> {},
         agent      |-> {},
         team       |-> {"roles", "leader", "lead", "finish"},
         supervisor |-> {"agents", "finish"},
         supervise  |-> {"key", "agents", "finish"},
         parallel   |-> {"branches", "converge"},
         map        |-> {"processor"},
         loop       |-> {"key", "until", "body", "done", "max_rounds"},
         interrupt  |-> {"key", "strategy"},
         branch     |-> {"key", "cases", "default", "converge"},
         route      |-> {"routes"},
         type       |-> {"type", "config"},
         unknown    |-> {},
         graph      |-> {"type", "config", "strategy", "to", "provider"}]

\* named: the step names a model and a provider, or the document a default;
\* before: no node, a node, or a team without finish: that ends the flow.
WantsModel == {"llm", "agent", "team", "supervisor"}
PaperStep ==
  UNION {[idiom : {i}, at : [Keys[i] -> UnderKey],
          named : IF i \in WantsModel THEN BOOLEAN ELSE {TRUE},
          before : {"nothing", "node", "ended"}] : i \in DOMAIN Keys}

\* An MCP server; the library's presets all launch commands.
Tool == [type : {"absent", "other", "good"},
         at : [{"url", "command", "preset", "id"} -> UnderKey]]

\* "other" for initial is a list; "odd" is a mapping that fails the schema.
StateBlock == [block : {"other", "good"}, initial : UnderKey]

GoodStep == [idiom |-> "llm", at |-> [k \in {} |-> "good"], named |-> TRUE,
             before |-> "nothing"]
GoodTool == [type |-> "good",
             at |-> [k \in {"url", "command", "preset", "id"} |->
                      IF k = "url" THEN "good" ELSE "absent"]]
GoodState == [block |-> "good", initial |-> "good"]

Papers == [step : PaperStep, tool : {GoodTool}, state : {GoodState}]
          \cup [step : {GoodStep}, tool : Tool, state : {GoodState}]
          \cup [step : {GoodStep}, tool : {GoodTool}, state : StateBlock]

VARIABLES
  paper,      \* the document
  reported,   \* what validate said of it: "unread", "valid" or "errors"
  loading     \* what load_workflow did: "unread", "loaded" or "refused"

paperVars == <<paper, reported, loading>>

-----------------------------------------------------------------------------
(* The validator.                                                           *)

\* looks_like_flow: an idiom key; `type:` counts only with a mapping under it
\* that names a type, and any other step of an authoring document is one.
LooksLikeFlow(s) ==
  \/ s.before # "nothing"
  \/ s.idiom \notin {"graph", "unknown", "type"}
  \/ IF s.idiom = "type" THEN s.at["type"] \notin Falsy ELSE FALSE

\* MUTANT of FlowReports: agents are only wanted present, as `key` is.
FlowReportsKeysOnly(s) ==
  LET at == s.at IN
  CASE s.idiom = "supervise" -> at["key"] = "absent" \/ at["agents"] = "absent"
    [] OTHER -> FALSE

\* validate_flow: what it reports of one step.
FlowReports(s) ==
  LET at == s.at IN
  CASE s.idiom = "team" -> at["roles"] \notin Full \/ at["leader"] \notin Full \cup {"empty"}
    [] s.idiom = "map" -> at["processor"] = "absent"
    [] s.idiom = "loop" -> \E k \in {"key", "body", "until"} : at[k] = "absent"
    [] s.idiom = "interrupt" -> at["key"] = "absent"
    [] s.idiom = "supervisor" -> at["agents"] \notin Full \cup {"absent"}
    [] s.idiom = "supervise" -> at["key"] = "absent" \/ at["agents"] \notin Full
    [] s.idiom = "parallel" -> at["branches"] \notin Full
    [] s.idiom \in {"unknown", "graph"} -> TRUE
    [] OTHER -> FALSE

\* validate_workflow; a step of an idiom has neither id nor type.  `expanded`:
\* the edges may name the steps that a strategy is expanded to, which is what
\* an "odd" end of the edge is.
GraphReports(s, expanded) ==
  IF s.idiom # "graph" THEN TRUE
  ELSE \/ s.at["type"] # "good"
       \/ s.at["config"] \in {"null", "other"}
       \/ s.at["provider"] \in {"null", "other"}
       \/ s.at["to"] # "good" /\ ~(expanded /\ s.at["to"] = "odd")

\* The block both validators have for tools.
ToolReports(t) ==
  LET hasUrl == t.at["url"] \in {"empty", "odd", "good"}
      hasCommand == t.at["command"] \in {"empty", "odd", "good"}
      hasPreset == t.at["preset"] \in {"odd", "good"}
  IN  \/ t.type # "good"
      \/ ~hasPreset /\ (hasUrl = hasCommand)
      \/ t.at["preset"] = "odd"                           \* unknown
      \/ t.at["id"] \in {"null", "empty", "other"}

StateReports(b) == b.block = "other"

\* validate_workflow_file: the document as it is written, not expanded.
Reports(d) ==
  \/ IF LooksLikeFlow(d.step) THEN FlowReports(d.step) ELSE GraphReports(d.step, FALSE)
  \/ ToolReports(d.tool)
  \/ StateReports(d.state)

-----------------------------------------------------------------------------
(* The loader.                                                              *)

\* A chain of node-level steps; an empty list is a chain of none.
IsChain(v) == v \in {"empty", "good"}
Optional(v) == v \in Missing \/ IsChain(v)

\* The builder's own checks, which every idiom but a plain node relies on.
Continues(s) ==
  /\ s.before # "ended"
  /\ s.idiom \in {"loop", "supervise", "branch"} => s.before = "node"

\* _h_loop: the bounded loop is a node and may have an empty body.
CompilesLoop(at) ==
  /\ at["key"] \notin Falsy /\ at["until"] \notin Missing
  /\ IsChain(at["body"]) /\ at["done"] = "good"
  /\ at["max_rounds"] \notin {"empty", "other"}
  /\ at["max_rounds"] \in Missing => at["body"] = "good"

\* A case lacks a value or steps when the list of cases is "odd".
CompilesBranch(at) ==
  /\ at["key"] \notin Falsy /\ at["cases"] = "good"
  /\ at["default"] \in Missing \cup {"good"}
  /\ at["converge"] \in Missing \cup {"good"}

\* A leader that is blank or empty gives way to `lead`, then to {}.
CompilesTeam(at) ==
  /\ LET leader == IF at["leader"] \in Falsy THEN at["lead"] ELSE at["leader"]
     IN  leader # "other"
  /\ at["roles"] = "good" /\ Optional(at["finish"])

\* With agents the decider is routed at once; a blank is no agents.
CompilesSupervisor(at) ==
  at["agents"] \in Missing \/ (at["agents"] = "good" /\ Optional(at["finish"]))

CompilesIdiom(s) ==
  LET at == s.at IN
  CASE s.idiom = "team" -> CompilesTeam(at)
    [] s.idiom = "supervisor" -> CompilesSupervisor(at)
    [] s.idiom = "supervise" -> /\ at["key"] \notin Falsy /\ at["agents"] = "good"
                                /\ Optional(at["finish"])
    [] s.idiom = "parallel" -> at["branches"] = "good" /\ at["converge"] \in Missing \cup {"good"}
    [] s.idiom = "map" -> at["processor"] = "good"
    [] s.idiom = "loop" -> CompilesLoop(at)
    [] s.idiom = "interrupt" -> at["key"] \notin Falsy /\ at["strategy"] \in Missing \cup {"good"}
    [] s.idiom = "branch" -> CompilesBranch(at)
    [] s.idiom = "route" -> at["routes"] # "other"
    [] s.idiom = "type" -> at["type"] = "good" /\ at["config"] # "other"
    [] s.idiom \in {"unknown", "graph"} -> FALSE
    [] OTHER -> TRUE

\* flow_from_yaml: every step through its handler, and no validation.
Compiles(s) ==
  /\ Continues(s)
  /\ s.idiom \in WantsModel => s.named
  /\ CompilesIdiom(s)

\* The step a strategy is expanded to is one that an edge may name; the graph
\* is validated after the expansion, then its providers are looked up.
LoadsGraph(s) ==
  /\ s.idiom = "graph"
  /\ LET asked == s.at["config"] \in Full /\ s.at["strategy"] # "absent"
     IN  /\ asked => s.at["strategy"] = "good"
         /\ ~GraphReports(s, asked)
  /\ s.at["provider"] # "odd"

\* _mcp_group_from_config and McpToolGroup: exactly one transport is given, or
\* a preset brings its command; what is given beside a preset replaces it.
OpensTool(t) ==
  LET Given(k) == t.at[k] \notin Missing
      command == IF t.at["preset"] # "absent" /\ t.at["command"] = "absent"
                 THEN TRUE ELSE Given("command")
  IN  /\ t.type = "good"
      /\ t.at["preset"] \in {"absent", "good"}
      /\ Given("url") # command

LoadsState(b) == b.block = "good" => b.initial \in {"absent", "empty", "good"}

Loads(d) ==
  /\ IF LooksLikeFlow(d.step) THEN Compiles(d.step) ELSE LoadsGraph(d.step)
  /\ OpensTool(d.tool)
  /\ LoadsState(d.state)

-----------------------------------------------------------------------------
(* `teff validate`, and `teff run` whatever it said.                        *)

PaperInit == paper \in Papers /\ reported = "unread" /\ loading = "unread"

ValidatePaper ==
  /\ reported = "unread"
  /\ reported' = IF Reports(paper) THEN "errors" ELSE "valid"
  /\ UNCHANGED <<paper, loading>>

LoadPaper ==
  /\ reported # "unread" /\ loading = "unread"
  /\ loading' = IF Loads(paper) THEN "loaded" ELSE "refused"
  /\ UNCHANGED <<paper, reported>>

PaperNext == ValidatePaper \/ LoadPaper
PaperSpec == PaperInit /\ [][PaperNext]_paperVars

-----------------------------------------------------------------------------
(* Where the two part.                                                      *)

\* What the validator does not look at: the model of a step, what was built
\* before it, the value under a key it only wants present, what is inside a
\* list, and the idioms and blocks it has no check for.
Overlooked(d) ==
  LET s == d.step
      at == s.at
      Wrong(k) == k \in DOMAIN at /\ at[k] \notin {"absent", "good"}
  IN  \/ ~s.named \/ ~Continues(s)
      \/ s.idiom \in {"branch", "route", "type"}
      \/ \E k \in DOMAIN at : at[k] = "odd"
      \/ \E k \in {"key", "until", "body", "processor", "max_rounds", "strategy",
                  "finish", "converge", "lead"} : Wrong(k)
      \/ s.idiom = "loop" /\ at["done"] # "good"
      \/ d.tool.at["preset"] \in {"null", "empty", "other"}
      \/ d.tool.at["preset"] = "good"
           /\ (d.tool.at["url"] \notin Missing \/ d.tool.at["command"] = "null")
      \/ \E k \in {"url", "command"} : d.tool.at[k] = "other"
      \/ d.state.initial \notin {"absent", "empty", "good"}

\* What it reports and the loader lets pass: a team whose leader is left to its
\* defaults or spelled `lead`, blank agents, a transport or an id of another
\* type, a state block that is no mapping, an edge to an expanded step.
Pedantic(d) ==
  \/ d.step.idiom = "team" /\ d.step.at["leader"] \in Missing
  \/ d.step.idiom = "supervisor" /\ d.step.at["agents"] = "null"
  \/ d.step.idiom = "graph" /\ d.step.at["to"] = "odd" /\ d.step.at["strategy"] = "good"
  \/ \E k \in {"url", "command"} : d.tool.at[k] = "other"
  \/ d.tool.at["id"] \in {"null", "empty", "other"}
  \/ d.state.block = "other"

\* A document that `teff validate` passes loads, unless it is wrong where the
\* validator is known not to look (yaml_schema.py validate_flow and
\* validate_workflow against the handlers of flow/compiler).
ValidDocumentsLoad ==
  reported = "valid" /\ loading = "refused" => Overlooked(paper)

\* And what it reports is broken, unless it is one of the known cases that the
\* loader has a default for.
ReportedDocumentsAreBroken ==
  reported = "errors" /\ loading = "loaded" => Pedantic(paper)

\* So `teff validate` tells what the loader will do, both ways.
ValidationTellsTheLoader ==
  ValidDocumentsLoad /\ ReportedDocumentsAreBroken

-----------------------------------------------------------------------------
(* The references to providers.                                            *)

VARIABLES
  lookup,    \* what is written: the block, the references, the environment
  registry,  \* the names registered, in order; "none" before the load
  progress      \* "written", "loaded", "running", "refused", "called", "failed"
lookupVars == <<lookup, registry, progress>>

\* Names with an upper-case letter, and in lower case.
Lower == [ollama |-> "ollama", vllm |-> "vllm", VLLM |-> "vllm"]
ProviderNames == DOMAIN Lower
Unnamed == ""

\* shape: a bare string, a mapping with an unknown key, or a good one.
BlockEntry == [name : ProviderNames \cup {Unnamed}, shape : {"text", "unknown", "good"}]

LookupConfig ==
  [layer : {"graph", "flow", "python"},
   block : UNION {[1 .. n -> BlockEntry] : n \in 0 .. MaxEntries},
   default : ProviderNames \cup {Unnamed},
   node : ProviderNames \cup {Unnamed},
   nested : BOOLEAN]      \* the node is inside a map, a loop or a parallel

NamesOf(block) == [i \in DOMAIN block |-> block[i].name]

-----------------------------------------------------------------------------
\* register: a name, and a new one.  A bare string and an unknown key are
\* turned away before; a dict of Python has neither, nor a name twice.
EntryRegisters(block, i) ==
  /\ block[i].shape = "good" /\ block[i].name # Unnamed
  /\ \A j \in 1 .. (i - 1) : block[j].name # block[i].name

BlockRegisters(block) == \A i \in DOMAIN block : EntryRegisters(block, i)

Declared(name) == name = Unnamed \/ name \in ToSet(registry)

\* The lower layer looks at the steps of the document, at load; a nested node
\* is not a step.
StepRefsValid == Declared(lookup.default) /\ (lookup.nested \/ Declared(lookup.node))

\* Mutant: the default is not looked at when the run starts.
NodeRefsValid == lookup.nested \/ Declared(lookup.node)

\* validate_provider_refs: the default and the nodes of the graph.
RefsValid == Declared(lookup.default) /\ (lookup.nested \/ Declared(lookup.node))

\* The flow compiler wants a name for a node of the document, and writes the
\* default into the node that has none.
NodeIsNamed == lookup.layer = "flow" => lookup.node # Unnamed \/ lookup.default # Unnamed

LookupInit ==
  /\ lookup \in LookupConfig
  /\ lookup.layer = "python" => BlockRegisters(lookup.block)
  /\ registry = <<>> /\ progress = "written"

LoadProviders ==
  /\ progress = "written"
  /\ IF BlockRegisters(lookup.block) /\ NodeIsNamed
     THEN /\ registry' = NamesOf(lookup.block)
          /\ progress' = "loaded"
     ELSE UNCHANGED registry /\ progress' = "refused"
  /\ UNCHANGED lookup

\* from_yaml and load_workflow check the references of the lower layer only.
RefsRefused ==
  /\ progress = "loaded" /\ lookup.layer = "graph" /\ ~StepRefsValid
  /\ progress' = "refused"
  /\ UNCHANGED <<lookup, registry>>

GraphStarts ==
  /\ progress = "loaded"
  /\ lookup.layer = "graph" => StepRefsValid
  /\ progress' = IF RefsValid THEN "running" ELSE "refused"
  /\ UNCHANGED <<lookup, registry>>

\* resolve_provider: the node's, else the default, in lower case.
Key == LET name == IF lookup.node # Unnamed THEN lookup.node ELSE lookup.default
       IN IF name = Unnamed THEN Unnamed ELSE Lower[name]

\* ProviderRegistry.resolve: what is registered, and nothing else.
HasEntry(key) == key # Unnamed /\ key \in ToSet(registry)

\* The harness of the node is built, and calls.
NodeCalls ==
  /\ progress = "running" /\ HasEntry(Key)
  /\ progress' = "called"
  /\ UNCHANGED <<lookup, registry>>

\* ConfigError, inside the node.
NodeUnresolved ==
  /\ progress = "running" /\ ~HasEntry(Key)
  /\ progress' = "failed"
  /\ UNCHANGED <<lookup, registry>>

LookupNext ==
  LoadProviders \/ RefsRefused \/ GraphStarts \/ NodeCalls \/ NodeUnresolved
LookupSpec == LookupInit /\ [][LookupNext]_lookupVars

-----------------------------------------------------------------------------
Reference == IF lookup.node # Unnamed THEN lookup.node ELSE lookup.default

(* A reference that passed the checks resolves in the node, but for a name  *)
(* with an upper-case letter, although provider/registry.py has "reference  *)
(* them by name anywhere a provider key is expected"; a node inside another *)
(* is not checked.                                                          *)
OnlyUpperCaseIsLost ==
  progress = "failed" =>
    Reference = Unnamed \/ lookup.nested \/ Lower[Reference] # Reference

(* A call goes to a provider that was declared: no preset stands in for a   *)
(* name that the registry does not have (registry.py: "the single source of *)
(* truth").                                                                 *)
CallsGoToDeclaredProviders ==
  progress = "called" => \E i \in DOMAIN lookup.block : lookup.block[i].name = Key

(* So what a node calls is what its document says.                          *)
ReferencesAreKept == OnlyUpperCaseIsLost /\ CallsGoToDeclaredProviders
=============================================================================
