# teff in TLA+

teff runs workflows of LLM calls, tools and questions to a human as graphs, and
checkpoints them, so that a run that crashed or paused goes on where it
stopped. These modules specify teff from the document an author writes to the
channels a run is started from and the stores it leaves behind: how a flow is
built, loaded and validated, how its graph is executed and checkpointed, what
happens in a turn of a session, in a call of a model and in the tools, and how
traces, documents, notes and jobs are kept. TLC checks them on small
instances; TLAPS proves, for every instance, the main results about the
executor, the provider guard, sub-flows and repeated nodes, the turns of a
session, the agent's rounds, the tools that share something, and the stores
with their history.

Paths below are relative to `src/teff/` unless they start with `docs/` or `tests/`.

## 1. The system

### Parts, state, operations

| Part | State | Operations | Hard behaviour |
|---|---|---|---|
| Graph executor (`graph/execution.py`, `conditions.py`, `edge.py`) | volatile: current node, state, iteration; durable: one checkpoint per (owner, id) | start, resume, save, execute a node, merge, route, error edge, interrupt, final save | a crash or cancellation at any await; answers; cycles |
| Sub-flow (`flow/sub_flow.py`) | a second checkpoint `{id}:sub:{node}` | enter, resume, pause, leave (delete the record) | one step of the run is several saves of two records |
| Parallel, reducers (`node/parallel.py`, `state/state.py`, `_async_util.py`) | a shallow copy of the state and a delta per branch | run branches, merge, cancel siblings | interleaving, aliasing, failure of one branch, timeout |
| Map, Loop, Retry (`node/map.py`, `loop.py`, `retry.py`) | a copy per chunk, or the live state; the attempt | run a node again and again | what a failed attempt leaves behind |
| Conversation and streams (`graph/graph.py`, `stream.py`, `channels/reply.py`) | the session's checkpoint; per stream a task and a queue | a turn: pending, seed or extend, save, run or resume, read the reply | overlapping turns, deaths, clients that leave, threads that stay |
| Agent (`node/agent.py`, `harness/tools.py`) | messages, tool calls, round count, answer and approval keys of the state | model round, tools, ask_human, approval | pauses in the middle of a batch, concurrent tools, stale keys |
| Sub-agents (`tool/agent.py`) | a copy of the state for each call | a loop of model calls, copy back | siblings and retries over one state |
| Provider guard (`provider/concurrency.py`, `harness/loop.py`) | process-wide: semaphore, explicit limit, active count; per call: attempt, transport | set a limit, grow the guard, acquire, post, retry, fall back, release, cancel | replacing a semaphore that is in use, slots lost on some path |
| Model calls (`node/llm.py`, `extract.py`, `harness/`) | rounds and attempts; the reply cache | ask, stream, run tools, validate, ask again, fall back | budgets that are shared, replies that are another's |
| Supervisor, Gate, Ask (`node/supervisor.py`, `gate.py`, `ask.py`, `interrupt.py`) | counters, slots and answers in state keys | decide, guard, classify, validate | what earlier rounds and turns left |
| Builder, documents (`flow/`, `yaml.py`, `yaml_schema.py`) | nodes, edges and loose ends under construction | the builder's idioms, export, include, expand, validate, load | order of calls, shadowed edges, two readings of one format |
| Providers (`provider/`) | a registry per run | load, check references, resolve | names checked in one form and used in another |
| Checkpoint stores (`checkpoint/`) | files and temp files, rows, history rows | save, load, delete, cleanup, load_at, history, update_state | threads that outlive their callers, crashes between steps, saves in two transactions |
| MCP servers, shared tools (`tool/mcp/`, `tool/builtin/`) | connections and cached members; leases in redis | open, call, aclose; acquire, renew, release, wait, alert | opening twice, leaking, expiry |
| Channels (`channels/`, `assistant.py`) | Telegram's offset, sessions | receive a message, run a turn, answer | redelivery, overlap, restarts |
| Commands (`cli.py`, `eval.py`) | one loaded workflow, its initial state | run, daemon, chat, serve, prune, eval | runs that share the initial state, ticks that fail |
| Daemon queue (`scaffold/daemon`) | a directory of job files | enqueue, drain, complete | a crash between result and unlink, half-written jobs |
| Memory and retrieval (`memory/`, `rag/`, `scaffold/variants/rag`) | vector stores, a catalog, notes that expire | add, search, ingest, remember, recall, clean up | awaits between check and write, partial batches, two processes |
| Observability (`observability/`, `trace.py`) | spans in memory, a local file, an export queue | collect, export, patch, list | attribution under concurrency, lost answers |

### How they interact

A document or a program builds a flow, which compiles to a graph. A channel, a
command or a program calls `Graph.run`. With `message=` that is a conversation
turn, which reads and writes the session's checkpoint and then calls the
executor; otherwise it is the executor at once. The executor calls
`checkpointer.load` at its start and `checkpointer.save` before every node, on
an error edge, on an interrupt and at the end; nothing else is durable. A node
may run a nested graph (sub-flow), several nodes (Parallel, Loop, Map), the
model (through a Harness, whose requests share the provider guard of the
process) or tools, some of which are servers, stores or agents of their own.
An interrupt travels as the exception `GraphInterrupt` through all of them; an
answer comes back as `run(resume=...)`. A tracer listens to all of it and
exports what it heard when the run has ended.

Everything runs in one event loop: the code between two awaits is atomic, and
so are the actions. The only threads are those of `asyncio.to_thread` (file
and SQLite stores, synchronous tools) and the exporter's pool. What several
processes share is the store, redis, the job directory and the catalog.

### What makes each part correct

- **executor**: however often a run dies, the record is that of one
  uninterrupted walk; a question leaves with its answer; a death costs at most
  one node; a caller that persists gets the run ended.
- **work under work**: input, question, answer and result of a sub-flow belong
  together; branches and attempts are merged as a whole, once, in order, or
  leave the state alone.
- **turns**: a message is heard exactly once; every call of a round gets its
  result; gated tools run only with a sign-off; a client that is told of a
  question can answer it; a stream ends, and ends with its turn's reply.
- **model calls**: the cap holds and nobody waits for ever; a reply is one
  attempt's, validated if a schema was given, the primary's if it is cached.
- **authoring**: every path of a built flow decides and ends; a document runs
  as the flow it was exported from; validation tells what the loader does.
- **deciders**: every turn is served and ends, finished work is kept, nothing
  is done without a yes.
- **stores**: a snapshot is replaced as a whole or removed; the timeline has
  the checkpoint and a rewind keeps the past.
- **delivery**: updates, jobs and runs arrive, in order, once where that is
  possible, and an answer finds its question.
- **knowledge**: a search finds what an exhaustive one would; the catalog
  counts what is embedded; a note is not kept twice.

## 2. The modules

    FlowBuilder -- WorkflowDocument        from builder calls to a loaded graph
    DocumentValidation                     what is checked of a document, and when
         |
    DurableRun <== GraphExecution -- GraphExecutionHistory
                    |  checkpoint = an entry of CheckpointRegister <== Checkpointers
                    |               and a row of StateHistory
                    +- SubFlow, ParallelBranches, RepeatingNodes   inside one node execution
                    +- SupervisedTeam, ReviewLoop                  cycles of deciding nodes
                    +- Conversation, StreamedTurn                  around a run
                    +- AgentLoop                                   a two-node cycle in a session
                         +- ModelCalls, ReplyParsing               one visit of a model node
                         |    +- ProviderConcurrency               one request
                         +- SubAgents, McpServers, SharedTools     tools
    Channels, WorkflowCommands, DaemonQueue                  where runs come from
    GraphTrace -- TraceExport                                what is kept of them
    VectorStores, DocumentCatalog, MemoryNotes               what they know

`A <== B`: B implements A, checked as a refinement. The modules meet at the
executor's save points: a module about a part contains the executor's actions
restricted to its own small graph, and splits them only where its own question
needs it.

**`DurableRun`** (abstract). The durable record of a run as its caller sees it:
new, running at a node, paused, done; the nodes merged so far; the budget
spent. `Complete`, `Recover`, `Pause` and `Answer` are its only steps; crashes
do not exist.

**`GraphExecution`**. `_execute_impl` for one checkpoint id on any graph.
`checkpoint` is what `load` returns; `run` holds the locals: `pc` is the top of
the loop (`top`), inside `node.execute` (`executing`), past the loop (`end`) or
no run. `StartFresh`, `StartSaved` and `Resume` are lines 202-267;
`SaveBeforeNode` 269-337; `NodeReturns`, `NodeReturnsCommand` the merge and
routing of 431-498 (an unknown goto raises past the error edges);
`NodeInterrupts` 338-387; `NodeFails` 388-429; `SaveAtEnd` 500-520; `Crash` a
death, cancellation, or exception of a save or hook at any await. The state
is the sequence of merged nodes and the one value conditions read. A node is
assumed to return its update and not to write to the state it is given (Loop,
ToolExec's `state.pop` and a Parallel under `append` do; section 6).

**`GraphExecutionHistory`** adds two counters, node executions and dead runs.

**`SubFlow`**. The smallest workflow with all the interactions: prepare, sub
(ask, work), publish. `parent` and `nested` are the two records, `call` the
locals of both runs. `EnterSubFlow` is `SubFlow.execute` up to the nested run's
start, `LeaveSubFlow` the delete and `_passthrough_delta`; `Inner*`, `Ask` and
`Work` the nested run. `ResumeByException` is an answer sent to the id that
`GraphInterrupt.checkpoint_id` names, which is the nested one.
`strayed` records the two ways in which the records are separated (a failure
routed past the nested run, an answer to its id), so that the properties say
exactly when they hold.

**`ParallelBranches`**. `dict(state)` is shallow and one reducer extends in place,
so the model has a heap: `heap` holds the lists, and `state`, `branchState`,
`delta` are references. `ApplyReducer` is `apply_reducers` for one key; it is
used in the three places the code uses it (branch copy, delta, merge).
`NodeReturns`, `NodeReturnsNothing` and `NodeRaises` end a node of a branch,
`CancelSiblings` is `gather_or_cancel`, `Timeout` the executor's `wait_for`.

**`Conversation`**. Callers run `run(message=...)`: `Send` (`pending`),
`LoadOrSeed`, `SaveExtended`, `Start` (the executor loads again), the walk,
`SaveAtEnd`, `Reply` (`last_reply`, then `reply_text`), with other callers in
between and `Fail` and `Die` anywhere.

**`AgentLoop`**. `AgentReplies` is `ReActAgent.execute`; `PauseForAnswer`,
`PauseForApproval`, `StartTools`, `ToolEnds`, `ToolExecFails` and
`ToolExecReturns` are `ToolExec.execute`. After a pause the executor goes on
past ToolExec, at the agent: the model has to make its calls again. `history`
variables record which rounds paused or were given up, which calls ran and
what the operator signed.

**`ProviderConcurrency`**. `ConcurrencySemaphore` is
`_concurrency_semaphore` with its condition for growth, `Issue` the
`async with` of `_post_with_retries`, `PostSucceeds` ... `PostFails` the cycle of
attempts and transports, `Leave` the release of `asyncio.Semaphore`, `Cancel` a
cancelled task. The streaming twin of the cycle has the same control.

**`CheckpointRegister`** (abstract): one snapshot per key, replaced or removed
as a whole. **`Checkpointers`**: the file store with inodes, one action per
system call (open with truncation, write, rename; exists, unlink; listing,
stat), and the SQLite store, one action per transaction. A cancelled caller
leaves its thread running (`Cancel`). Keys whose caller was cancelled, and keys
whose paths collide, are `Outside` the promise in the file store: two threads
may share one temp file there.

**`RepeatingNodes`**. `Map._run_chunk` under its semaphore (`ChunkStarts`,
`ChunkEnds`), `Loop.execute` on the live state (`FirstOfBody`, `SecondOfBody`),
and around either the attempts of `Retry` with its timeout (`AttemptRaises`,
`AttemptTimesOut`, `NextAttempt`). `made` remembers which attempt a result is of.

**`StreamedTurn`**. `Graph.stream` with its three parties: the runner task, whose
`load`, `save` and nodes are steps, the queue of events, and an endpoint of one
of three kinds (the http channel, the routers that relay, the fastapi
example). `LeaveStream` is a client that goes away; the generators are then
finalised and the task cancelled, while a save that is in its thread goes on.

**`SupervisedTeam`** is `Supervisor.decide` (guards, chain, model, fallback) over
the slots its agents fill, turn after turn of a session; **`ReviewLoop`** the
cycles of Gate and of Ask with Classify and Validate, with their counters.

**`FlowBuilder`** appends nodes and ordered, conditional edges as
`ControlBuilder` does, including the loose ends (`_last`, `branch_ends`, pending
conditions) a later call ties; a call that raises ends the building.
**`WorkflowDocument`** writes the flow as a low-level document, includes it under
a prefix, expands strategies and loads it. **`DocumentValidation`** is a document
reduced to what stands under each key (absent, blank, empty, of another type,
wrong inside, right), read by the validator and by the loader; the part about
flow steps was compared with the real functions on 36,231 documents. Its last
part is what the document says of providers: the registry, the checks at load
and at start, and the resolution in the node.

**`ModelCalls`**. `LLM.execute` round by round: cache, retries, stream, fallback
models, tool rounds, validation. The model may reply anything of a few kinds.
**`ReplyParsing`** has one behaviour per reply, up to 7 characters of the five
kinds that the scanner tells apart. **`SubAgents`** runs `HarnessLoop.run` for
two agents over copies of a state; nothing limits their conversations, which are
left out.

**`McpServers`**. `_expand_tools`, `McpToolGroup.open` and `aclose`, split at their
awaits. **`SharedTools`**: ticks that follow `docs/recipes/ops-daemon.md` over one
redis, which is external.

**`StateHistory`**. `save` of a history store as two transactions, `load_at`,
`update_state`, a rewind to another id, pauses, new turns and crashes.
**`GraphTrace`** is `GraphObserver` with its one stack of active spans, fed by
sequential nodes and by branches, down to the rows and what `get_run` makes of
them. **`TraceExport`** is `CompositeExporter` over the SQLite file and the HTTP
pool, with lost posts, lost answers, an open transaction, and a dashboard that
pages through the list while it changes.

**`Channels`** has the Telegram service (external) and the bot by polling,
draining (`once`) or webhook; `Crash` forgets the offset. **`DaemonQueue`** has producer and worker
with every write in two steps. **`WorkflowCommands`** keeps list objects apart
from the states that share them, and runs `run`, `daemon`, `eval` and the
assistant over one loaded workflow.

**`VectorStores`** describes the ten stores by profiles (how many rows they look
at, who filters, what an id that exists does, what is persisted when, which
searches they refuse), compares what each lists with what it was told, and each
search it answers with an exhaustive one less what lies behind the window. **`DocumentCatalog`** ingests in batches
from two processes; its last part is the rag tool, which seeds lazily and chunks.
**`MemoryNotes`** remembers in two awaited steps, under a key that the agent gives
or a fresh one unless a similar note is found; the extractor writes under the hash
of the fact with a time to live of its own. A search covers the namespaces below
the agent's.

`MC*` modules compose the modules of one subject: `Init` chooses a `carrier`, the
module whose actions are taken, and the others stay at rest. They do not
interact in the run; where components do interact, one module has both
(GraphExecution with its record, SubFlow with two, StreamedTurn with task,
queue, store and client, TraceExport with both sinks). `*Proofs` modules hold
the theorems.

## 3. The runs

| Run | Modules | Instance | Distinct states | Shows |
|---|---|---|---|---|
| `execution` | GraphExecutionHistory | 5 nodes with a cycle, two error edges (one to itself), a nested asker, an asker, a Command node with a goto to an unknown node; `max_iterations` 7; crashes unbounded, or 3 deaths counted | 20,229 | refinement of DurableRun; answers leave with questions; the price of a death; `PersistenceIsRewarded` |
| `flows` | WorkflowDocument, DocumentValidation, SupervisedTeam, ReviewLoop | 4 idioms, 8 nodes, 2 rewrites; all papers with one wrong part; registries of 2 entries; teams of 4 agents, one outside the pipeline, 5 rounds, 2 turns; 2 and 3 rounds of the loops | 999,012 | built flows are wired, documents run as built, validation and loader agree but for named cases, references resolve, turns are served and end, nothing is done without a yes |
| `tasks` | SubFlow, ParallelBranches, RepeatingNodes, StreamedTurn | 3 inputs; branches of 2, 1 and 2 nodes, 4 reducers; 4 chunks by 2, 3 rounds, 3 attempts; 2 messages, 1 client that leaves | 28,121 | inputs and answers match, deltas are merged once or not at all, the last attempt is whole, sub-flows complete, streams end |
| `turns` | Conversation, AgentLoop, StreamedTurn, ReplyParsing, McpServers, SharedTools | 2 callers, 3 messages; 2 questions, 3 tools, 5 batches, 3 rounds; 3 streamed messages; replies of 7 characters, 3 members, 3 blocks; 2 groups, 3 connections; 3 ticks | 1,270,948 | heard once, requests answered, gates, durable questions, streams, readings, connections, ticks |
| `calls` | ProviderConcurrency, ModelCalls, SubAgents | caps 1, 2 and 2, or 1, 2 and none with an explicit cap, 1 retry, 1 fallback; 2 nodes sharing a cache, 3 tool rounds; 2 sub-agents, 3 rounds, 2 attempts | 393,117 | the cap, also while the guard grows, what a reply is, sub-agents as calls, every call and node ends |
| `storage` | Checkpointers, StateHistory, GraphTrace | 3 keys (2 share a directory), 3 operations, both stores; 4 steps, 2 turns, 2 edits, 1 crash; 2 visits, 3 model calls | 980,825 | refinement of CheckpointRegister; the timeline; the trace and its events |
| `delivery` | Channels, DaemonQueue, WorkflowCommands, TraceExport | 2 updates, 2 deaths; 3 jobs, 2 deaths; 4 rounds, 3 examples, 2 troubles; 3 runs, 1 retry, 3 troubles, pages of 1 | 171,809 | updates, jobs and runs arrive; runs keep their own |
| `knowledge` | VectorStores, DocumentCatalog, MemoryNotes | 3 vectors, 8 filters, k of 1 and 2, 3 operations, 1 death; 3 documents in batches of 1, 2 ingestions, 3 edits, failures and restarts; 2 concurrent searches; 3 facts, 3 agents in 2 nested namespaces | 372,099 | searches, catalog, index and notes are right |

Four more runs check one property each that a docstring or page states and the
code does not keep; TLC finds a counterexample:

| Run | Statement | Counterexample |
|---|---|---|
| `shared_seed` (`RunsAreIndependent`) | `docs/guide/durable.md:47`, `channels/telegram.py:14`: each user's conversations are isolated | a list in the workflow's initial state is one object; what a turn of one session appends, a new session starts with |
| `tools_wait` (`MetMeansSeen`) | `tool/builtin/wait_for.py:20`: poll the URL until it responds | the async twin tests the coroutine of the check, which is true, and reports the condition met without a request |
| `structured` (`StructuredIsValidated`) | `docs/guide/structured-output.md:32-34`: if all attempts fail, an error is raised | tool rounds use up the budget, and the node returns the last, unvalidated content |
| `text_calls` (`AnswersAreNotCalls`) | `harness/formats.py:89-91`: only a single `{name, arguments}` object is a call | an answer with a nested "name" is run as a call |

### Bounds, and why they are enough

- *execution*: 7 iterations let the cycle close once with pauses or failures on
  the way and every node run; with the deaths counted, 3 of them reach every
  pair of save points. The theorems of section 5 remove the bound and the graph.
- *flows*: an idiom ties at most the loose ends of the call before it, and the
  longest tie spans three calls; 4 calls follow it with one more. A paper is
  wrong in one part because no check reads two parts. A team of 3 with one
  agent out of order tells order, done and fallback apart; two turns show
  what a turn leaves to the next.
- *tasks*: two distinguishable inputs are needed to see an old one, a third
  separates "the last" from "another". Three branches tell branch order from
  end order. Four chunks by two make a chunk start while others are done,
  running and waiting. Streams: a message sent while an abandoned turn is
  still at work is the case that matters; `turns` adds a third message.
- *turns*: two callers make every pairwise overlap, three messages a question,
  its answer and a turn after it. Three rounds make a call, its repetition
  after an answer and one more. Seven characters are the shortest text with an
  object in prose whose string has an escaped quote. Two runs and two groups make every
  race of opening and closing. Three ticks: a holder, one that took the
  expired lease over, one that shares a tool with it.
- *calls*: three capped calls show a growing guard (1 to 2): were it replaced
  under the call that holds the one slot, three would be in flight. In other
  behaviours the third is an uncapped bystander, and an explicit cap is set
  between calls. One retry and one fallback
  reset the attempt count once. Two nodes share one cache entry. Two siblings
  and one retry make every overlap of copies.
- *storage*: three operations are a save, a conflicting operation and a
  cleanup; they are also crashed and cancelled. Four steps with a question at
  the second, two turns and two edits have rows of one iteration written by
  another story. Two visits make a node's spans ambiguous.
- *delivery*: two updates and a batch of two have one handled and one not when
  the process dies. Three jobs order the list. With pages of one row, three
  runs give a page before, at and behind a change.
- *knowledge*: the code looks at 4 k rows, the model at 2 k, so that three
  vectors reach behind the window for k = 1; the words of the question reverse
  the order of the vectors, so that the best hit of a hybrid search is there. Three documents in batches of
  one fail in the middle. Of the rag tool's five documents, two share an id. Three
  notes by three agents, two of one namespace and one above it, have two of a kind.

The bounds are CONSTANTS of their modules, commented "bound". Symmetry is used for
the callers of `turns` and for the requests, calls and agents of one user of
`knowledge`; neither run has a liveness property.
`CHECK_DEADLOCK FALSE` stands in every run, as each subject really stops when
its messages, deaths or operations are used up or its work has ended.

### Fairness

- `execution`: weak fairness of `Step` and `Start` for the persistent carrier: the
  event loop resumes a run that can go on, a node is bounded by
  `node_timeout`, and the caller runs the id again and answers. Crashes are
  not fair and need only stop some time.
- `flows`: weak fairness of the supervisor and its agents, and of the nodes of
  the review loops. Nobody has to send a message or to answer:
  `EveryTurnEnds` and `LoopsEnd` have the operator's answers as a hypothesis.
- `tasks`: weak fairness of the sub-flow's steps, `Run` and `Resume` (not of
  `ResumeByException` and `UpdateState`); of each part of a stream (`StrWork`):
  tasks are scheduled, threads run, generators that nobody holds are
  finalised. Clients need not stay.
- `calls`: weak fairness of each call's `Advance` and of each node's `LlmStep`: a
  request answers or fails within the timeout of its HTTP client and a backoff
  ends. Nothing is assumed of the queue: `Leave` hands the slot to any waiter.
- `delivery`: the service repeats a webhook, the bot polls, its tasks run, and
  whoever deployed bot and worker starts them again.
- The other runs have no liveness property and assume none.

## 4. Properties and the code they are about

Each property stands in its module under "Properties" with the code behaviour
it is about, and a mutant in `PROJECT.json` (definitions commented "Mutant") that
breaks it: a dropped count, a save moved, a cursor confirmed too early, a
record kept, a swapped reducer. Most are conjunctions whose parts are named one
by one in the modules.

| Property (run) | Module | Says |
|---|---|---|
| `ImplementsDurableRun`, `QuestionLeavesWithItsAnswer`, `EachDeathRepeatsAtMostOneNode`, `PersistenceIsRewarded` (`execution`) | GraphExecution, -History | what crashes, pauses and answers leave of a run is one uninterrupted run of the graph; the price of a death; a caller that persists gets to the end |
| `BuiltFlowsAreWired` (`flows`) | FlowBuilder | every edge can decide, no path ends unannounced, loops repeat and end |
| `DocumentsRunAsBuilt` | WorkflowDocument | exported, included and loaded, each copy routes as the builder wired it |
| `ValidationTellsTheLoader`, `ReferencesAreKept` | DocumentValidation | what validates loads and what is reported breaks; a call goes to a provider that was declared |
| `TurnsAreServedInOrder` | SupervisedTeam | a turn gets an answer, finished work is kept, pipelines run in order, turns end |
| `AnswersDecide` | ReviewLoop | nothing is done without a yes, an unclear answer asks again, loops end |
| `VisitsAreWhole`, `SubFlowCompletes` (`tasks`) | SubFlow | input, question, answer and result of a visit belong together; it completes |
| `MergedOrUntouched` | ParallelBranches | the state changes once, by all branches in order, or not at all |
| `LastAttemptIsWhole` | RepeatingNodes | what Map and Loop return under Retry is the last attempt's, all of it |
| `WaitingIsDurable`, `StreamTellsItsTurn`, `StreamsEnd` (`tasks`, `turns`) | StreamedTurn | the question is durable before the client sees it; the message is this turn's; task and save end |
| `TurnsAreExchanges` (`turns`) | Conversation | a message is heard exactly once, the reply is the turn's own |
| `RoundsAreWhole`, `GatedToolsNeedASignOff` | AgentLoop | each call of a round has one result; no gated tool runs unsigned |
| `RepliesAreRead` | ReplyParsing | objects, calls and typed replies are found in the text and sent back whole |
| `ConnectionsAreKept` | McpServers | a group has one connection, calls reach its server, aclose finds it |
| `TicksActAlone` | SharedTools | the lock, the wait and the alert of concurrent ticks |
| `CapIsRespected`, `CallsAndNodesEnd` (`calls`) | ProviderConcurrency, ModelCalls | no more requests than the cap; each call and node ends |
| `RepliesAreEarned` | ModelCalls | a reply is one attempt's, within the budget, and cached as what it is |
| `SubAgentsAreCalls` | SubAgents | what a sub-agent wrote with no other at work stays until it replies again |
| `StoresKeepTheirPromise` (`storage`) | Checkpointers | the stores implement CheckpointRegister |
| `HistoryTellsTheStory` | StateHistory | the timeline has the checkpoint, a rewind keeps the past, rows count their steps |
| `TraceTellsTheRun` | GraphTrace | spans, calls and events are those of the run |
| `RunsAreExported` (`delivery`) | TraceExport | a run arrives once and in order at each sink, and paging skips nothing |
| `RunsKeepTheirOwn` | WorkflowCommands | a tick that was saved stays, only a seeded list is shared |
| `UpdatesGetTheirTurn` | Channels | no update is forgotten unheard or heard twice without a fault |
| `JobsGetTheirResults` | DaemonQueue | no job is lost, only half a file holds up others |
| `SearchesAreRight` (`knowledge`) | VectorStores | stores list what they were told and answer alike but for what is behind the window; hits satisfy the filter |
| `CatalogIsTrue`, `SearchSeesEveryDocument` | DocumentCatalog | what count and fingerprint vouch for is stored; no query misses part of a configured or ingested document |
| `NotesAreOneAndFound` | MemoryNotes | one live note of a kind, and recall finds the best |

Several properties state the condition under which they hold, because without
it the code does not keep them: `strayed` in SubFlow, `overlapped` and `output`
in Conversation (two overlapping turns overwrite each other's save),
`ExtendsShared` in ParallelBranches, `reasked` in AgentLoop (the model may make
another call after an answer), `Outside` in Checkpointers, `Overlooked` and
`Pedantic` and upper-case provider names in DocumentValidation, races and
cancellations in McpServers, a reply beside another sub-agent (`repliedBeside`) in
SubAgents, a lost tag in TraceExport, refused searches, ids added again to a store
that does not replace them and list values in VectorStores, a half-written file in DaemonQueue, overlapping ingestions,
processes of other files and documents that share an id in DocumentCatalog.

## 5. The proofs

`GraphExecutionProofs`, for every graph, value set and `MaxIterations`, from
`GraphAssumption` and `CheckpointAssumption`:

- `TypeCorrect`, `RunsTrackCheckpoints`, `CompletedStaysQuiet`,
  `QuestionsAreAnswered` and `Refinement` (`Spec => Durable!Spec`).
- The inductive invariant is `Inv == TypeOK /\ RunTracksCheckpoint`. `TypeOK`
  alone says nothing about how the volatile run relates to the record. What
  makes a crash harmless is that the run is never more than one unrecorded
  step ahead: while a node executes, the run is exactly what the checkpoint
  says plus one iteration; at the top of the loop or at its end
  (`OneStepAhead`) it is what the checkpoint says, or what one returned node
  or one answer makes of it. `NextInv` has a lemma per action.
- For the refinement every save publishes that one step: `CatchUp` maps
  `SaveBeforeNode` and `SaveAtEnd` to `Begin`, `Complete`, `Answer` or a stutter
  by the cases of `OneStepAhead`; `PauseStep` and `FailStep` map the other saves;
  steps that save nothing stutter (`UnchangedReads`).

The same module, about GraphExecutionHistory: `DeathsRepeatAtMostOneNode` and
`IterationsBoundTheId` from `HistoryInv == Inv /\ Accounts`, where `Accounts`
balances executions against the recorded count, the run's lead and the deaths,
for every `MaxDeaths`.

`ProviderConcurrencyProofs`, for any finite set of calls, caps, retries and
fallbacks, from `ConcurrencyAssumption`: `TypeCorrect`, and under
`ReconfigureInUse = FALSE` (nobody calls `set_provider_concurrency` with calls in
flight) `CapsAreRespected` and `GuardsAreReplacedOnlyIdle`. The inductive
invariant is `IInv == TypeOK /\ GuardIsReplacedOnlyIdle /\ SlotsInv`: the cap
alone is not inductive, because a new semaphore starts empty; it takes that
the hand-kept active count is the number of users, so that a guard that is
replaced has no holders. With no such restriction:

- `RequestsStayBounded`, from `PostsInv`: a call has sent at most what `Sent` says of
  the model and the attempt it is at, and a call that sleeps has attempts left.
- `RepliesAreTrue`, for any tools, rounds, retries and fallbacks, from
  `ModelCallsAssumption` (a tool is not named like a kind of reply) and `LlmInv`. A
  round is a message more (`RoundsAreAttempts`), so the attempts at a structured
  reply are counted by what was said; what a streaming node has spoken is of the
  present attempt and the end of what it emitted (`SpeaksForItself`), which a retry
  keeps because it empties the reply and not the stream.
- `RepliesStayEarned` takes both to the specification of the run, which lets one of
  its parts move at a time.
- `ReferencesStayKept`, for a block of any length, from `LookupInv`: what runs was
  found when it started, and the registry is the block's names from then on.
- `FreshTurnsAreServed`, `RoutesSpareFinishedWork` and `PipelinesRunInOrder`, for any
  agents, pipeline and number of rounds, from `TeamInv`. In a fresh turn the filled
  slots are those of the agents that ran (`SlotsTellWhoRan`), so the first empty one
  is the next of the pipeline (`FirstOpen`, `NextAfterLead`). `FirstOpen` needs the
  least of a set of numbers, which `LeastNumber` takes from well-foundedness. An
  agent that is not in the pipeline is looked at by no guard of `_chain_route`: it
  may be picked again, and the pipeline may follow it. The run has such an agent.

`TurnsProofs`, for any number of callers, messages, tools and rounds:

- `TurnsStayExchanges`, from `ConversationInv`. That a turn was heard once when it
  has returned says nothing while it runs, so `Progress` says of every line of
  `Graph.run` what the turn's own state and the record have heard by then, as
  long as no two turns overlapped; `StatesAreSound` and `SeedingIsUnheard` hold
  even if they did. They give that no message is recorded twice: a message that
  is still to be added is in no state and not in the record.
- `AgentToolsAreGated` and `AgentRoundsAreWhole`, from `AgentInv`. `RecordIsSound`
  and `RunIsSound` describe the messages, answer and approval keys of the record
  and of the run at each point of `ToolExec.execute`; `RoundsArePast` relates the
  history of rounds to the messages, `ToolsAreSound` the tools at work to the
  round they belong to. The gate needs them because a pause leaves a signature
  in the state for a call that the model has yet to repeat.

- `QuestionsAreDurable` and `StreamsTellTheirTurn`, from `StreamedTurnAssumption` and
  `StrInv`. Only the last message has somebody listening (`OneListener`), a run
  that ended well puts nothing after that event but the end of the queue
  (`EventsAreInOrder`), and a reply that was sent was in the session when it was
  read (`RepliesAreSent`). `TurnProceeds` says what each point of the runner task and
  the copy its worker thread is saving mean for the session, as long as no
  earlier turn's thread saved during the last one.
- `DoneTakesAYes` and `UnreadAnswersAreAskedAgain`, from `ReviewAssumption` and `ReviewInv`: as
  long as no other decider counts under its key, the Ask has counted no more
  rounds than there were answers (`AnswersAreCounted`), and the decision the edges
  read is that of the last answer (`DecisionIsFresh`).

`TasksProofs`, for any inputs, chunks, rounds and attempts:

- `SubFlowVisitsAreWhole`, from `SubFlowInv`: what the nested record, the parent's
  record and the locals of both runs say of input, question and answer, as long
  as nothing strayed.
- `RepeatingKeepsTheLastAttempt`, from `RepInv`: every result, log entry and
  running chunk is of the attempt that is counted; Map's gathering is of one.
- `BranchesStayApart`, for any branches and nodes, from `LengthsAssumption` and
  `AbsentAssumption` (the absent value is not a list) and `BranchesInv`. It is about the
  lists, not about the dicts: those a branch can reach and another cannot
  (`OwnLists`) hold items of the branch and of the state only, and nobody has
  written into the state's (`HeapIsApart`). `ReducerStaysApart` shows that every
  reducer keeps it so, given a dict that is the branch's or absent, or one of the
  state's that the reducer does not extend.
- `BranchesMergeOnce`, which adds what the merge makes of the deltas, from
  `MergeInv`. While the branches run, `DeltaTells` says under each reducer what the
  list of a branch's delta holds of what its nodes returned (`AppendTells`,
  `CombineTells`, `OverrideTells`, `KeepTells`); under "override" that takes the copy of
  the state too, which is where the next node reads. The merge is a recursion over
  the deltas (`MergedUpTo`); `UpdateTells` proves by induction over the branches that
  the deltas still to come are as the branches left them (`FrameTells`), that the list
  in the making is the concatenation so far (`ListTells`), or that the value is
  that of the last or first branch that returned one (`ChoiceTells`).

`StorageProofs`, for any keys, operations, crashes and steps:

- `StoresImplementTheRegister` (`Spec => StoresKeepTheirPromise`), the refinement of
  `CheckpointRegister`, from `SnapshotAssumption` and `StoreAssumption` and the
  invariant `StoreInv == TypeOK /\ JobsAreSound /\ InodesHaveOnePath /\
  QuietKeysAreSound`. An inode is used under one path at a time (the file, or one
  temp file), so a rename publishes one operation's bytes; the temp file of a
  key that is not `Outside` is that of its one awaited save, so what is renamed
  is whole; and an operation that is on its way is among those a caller may yet
  be told of, which makes every system call a step of the register or a stutter.
- `HistoryIsTold`, from `HistoryAssumption` and `HistInv`: what each row tells of the
  steps that were done (`Tells`), with the row in the runner's hands
  (`RunnerIsSound`) between the two transactions of a save. That there is no
  branch before the rewind (`NoBranchYet`) makes the snapshot the past of all of
  the branch's rows.

`ToolsProofs`:

- `LeasedTicksActAlone`, for any ticks, tokens and polls, from `SharedAssumption` (a
  token is not the absent value) and `SharedInv`: until a lease runs out, who is
  inside holds the lease and is alone (`OneInside`), so the mark that was read
  before the alert is still the mark (`MarkIsTrue`).
- `McpConnectionsAreKept`, for any list of groups, names, runs and openings, from
  `McpAssumption` (ids are finitely many) and `McpInv`. A connection that is not a
  stray is the only one opening while the group and the cache know nothing of it
  (`AloneOpening`), and once open is the group's, with nobody opening another
  (`AloneOpen`). `ClosingIsSound` says how far `aclose` has come: the groups of all
  cached names but those left are closed, unless a name was added under it; then
  the dictionary has grown, `aclose` raises, and clears nothing.
- `TheCatalogIsTrue`, for any documents and size of batch, from `CatalogAssumption` (a
  batch is not empty) and `CatalogInv`. Rows are numbered by the counter as it is
  when a batch arrives, so what is stored has to be said of every batch under
  way: who is at work is alone (`IngestionsAreApart`), the files come first among the
  process's documents (`FilesComeFirst`), the rows are the first ones and as many as
  were counted, with those of the batches behind (`RowsAreCounted`), and the files
  of the fingerprint are under the first numbers (`FingerprintIsTrue`). The
  attempt corrected the property: it had blamed edits and foreign processes
  relative to the files of the moment, which an edit that is taken back evades
  (section 6), and the run's bound had been too small for that; both are now as
  they should be.
- `SearchesSeeWholeDocuments`, for any documents, strategy, size and overlap, from
  `RagAssumption` and `RagInv`: every row is one of a known document
  (`RowsAreOfDocuments`), what a call has added stays in the store
  (`AddedIsHeld`), and what the flag or a confirmation vouches for is there
  (`VouchedIsHeld`). That the chunks leave no part out (`Covers`) is arithmetic for
  the sliding windows (`SlidingChunksCover`) and induction over the sentences for
  the others (`SentenceChunksCover`). A document needs an id of its own: the rows of
  configured documents without an id are all called `chunk_<i>` (`rag/tool.py:378`)
  and replace each other.
- `UndisturbedWritesStay` (`SubAgentsAreCalls`), for any finite set of sub-agents, any
  rounds and attempts, from `SubAgentsAssumption` and `SubInv`. The property alone is not
  inductive: a sibling's reply updates the state with its whole copy. What a
  sub-agent wrote with no other at work is settled, and every copy that was taken
  since has it (`CopiesHaveWhatIsSettled`): nobody is at work beside a settled reply, so
  whoever is called later, or tries again, copies a state that has it
  (`WhatIsSettledStays`).
- `NotesStayOneAndFound`, for any agents, nested namespaces, facts, similarity and
  times to live, from `MemoryAssumption` and `MemoryInv`. A put replaces
  what has its id (`NotesDiffer`). While nothing is crowded, the live notes of one kind under
  keys that remember made are one (`KindsAreOne`), one agent at most is between search
  and put (`OneRemembers`), and the live notes of its fact's kind are under the key it
  is to write (`TheKindIsKnown`), whatever expires, is forgotten and cleaned up meanwhile.
  That a search for one note finds
  a similar one behind an expired note follows from the same lemma as the second part:
  of a ranking with no more than k expired notes the first 2 k hold the first k
  live ones (`TwiceAsManyAreEnough`).

`DeliveryProofs`:

- `CommandsKeepTheirRunsApart`, for any sessions, rounds and examples, from
  `CommandAssumption` and `CommandInv`. Every session's locals and record are sound
  (`SessionIsSound`): what was announced is in the record and in what the daemon
  works on (`TicksAreHeld`), at every point between the copy a run takes and the
  save that ends it; without a seeded list every list object has one session's
  marks (`MarksAreOwn`).
- `JobsAreNotLost` (`NoJobIsLost`), from `QueueInv`: while a job is in the worker's hands its
  file is there (`JobIsThere`), and the turns it has run are those the worker died
  under, and the present one (`RunsAreAccounted`). It is written and unlinked in
  steps of their own.
- `PolledUpdatesAreNotLost` and `MessagesAreHeardAgainOnlyBehindFaults`, for any updates,
  batches, deaths and failures, from `ChannelsAssumption` and `TelegramInv`. The batch
  is the run of updates behind the offset (`BatchFollows`), polling has one of them
  in hand at a time (`OneAtATime`), and all below the confirmed offset but that
  one have an outcome (`SettledSoFar`). `PollsAreCounted` and `CallsAreCounted` weigh an
  update's turns and the calls that will still run one against the faults.
- `RunsArriveAtTheirSinks`, for any number of runs, attempts and rows of a page, from
  `ExportAssumption` and `ExportInv`. Until the process dies, a run that ended has arrived,
  was given up or waits, and those that wait are behind those that arrived
  (`RunsAreSomewhere`, `PostsAreInOrder`); of the runs a walk wants, those it has not
  seen are behind its offset in the list as it is now (`WantedIsAhead`), since a
  new run comes in front of them and pushes them further down.

An invariant that is used in a proof was first checked by TLC on the module's
small instances. Each is a conjunction of named parts; a step that several
actions share is a lemma (`RunMoves`, `StatusChange`, `JobStep`, `AppendTells`), and
each action has one lemma, `...Inv` or `...Keeps`. No proof uses the bounds (`MaxTurns`,
`MaxOps`, ...) but as natural numbers.

Which properties of the runs are theorems:

| Run | Theorems | Model-checked only |
|---|---|---|
| `execution` | `TypeOK`, `EachDeathRepeatsAtMostOneNode`, `ImplementsDurableRun`, `QuestionLeavesWithItsAnswer` | `PersistenceIsRewarded` (liveness) |
| `flows` | `ReferencesAreKept`; the safety parts `DoneNeedsAYes` and `UnclearAsksAgain` of `AnswersDecide`, and `EveryTurnIsServed`, `FinishedWorkIsKept` and `PipelineInOrder` of `TurnsAreServedInOrder` | `BuiltFlowsAreWired`, `DocumentsRunAsBuilt`, `ValidationTellsTheLoader`; the liveness parts of these two |
| `tasks` | `VisitsAreWhole`, `MergedOrUntouched`, `LastAttemptIsWhole` | `SubFlowCompletes`, `StreamsEnd` (liveness) |
| `turns` | `TurnsAreExchanges`, `RoundsAreWhole`, `GatedToolsNeedASignOff`, `WaitingIsDurable`, `StreamTellsItsTurn`, `ConnectionsAreKept`, `TicksActAlone` | `RepliesAreRead` |
| `calls` | `CapIsRespected`, `RepliesAreEarned`, `SubAgentsAreCalls` | `CallsAndNodesEnd` (liveness) |
| `storage` | `StoresKeepTheirPromise`, `HistoryTellsTheStory` | `TraceTellsTheRun` |
| `delivery` | `RunsKeepTheirOwn`, `RunsAreExported`; the safety parts `ForgottenWasHandled` and `NoTurnTwiceForNothing` of `UpdatesGetTheirTurn`, `NoJobIsLost` of `JobsGetTheirResults` | the liveness parts of these two |
| `knowledge` | `CatalogIsTrue`, `SearchSeesEveryDocument`, `NotesAreOneAndFound` | `SearchesAreRight` |

Out of the prover's reach are liveness under fairness (also as a part of
`AnswersDecide`, `TurnsAreServedInOrder`, `UpdatesGetTheirTurn` and `JobsGetTheirResults`),
and what a RECURSIVE operator or one of the library's that selects or sorts
(`SelectSeq`, `SetToSortSeq`) computes for every input: the scanner of `ReplyParsing`, the
building of `FlowBuilder`, the rows `GraphTrace` flattens, the ranking of `VectorStores`. These are mostly data:
what they compute is compared with a reference definition over all inputs of the
bound. Of recursive functions something can be proved: the library's induction theorems
take an operator, but induction over a set of numbers follows from the
well-foundedness of `<` (`NumbersByInduction`), and with it that a value and a step
make a function (`Recursion`) and that `FlattenSeq` concatenates in order (`FlattenSteps`).
So are the chunks of `SentenceChunks`, and what is kept of a sequence
(`SelectedSelects`), which `MemoryNotes` writes as a recursive function.
`ValidationTellsTheLoader` is about finitely many documents, whatever the constants, and
the run reads all of them.

## 6. What is not modelled

- **Data**: prompts, replies but for their structure, token counts and prices,
  the expressions of conditions, rendering, the readers of file formats, the
  entries of the provider table, wording of errors.
- **Power loss**: neither store is modelled below the process; the file store
  does not `fsync`, so after a power loss the rename may precede the data.
- **Nodes that write to the state they are given** (`node/loop.py:137`, the
  `append` reducer in Parallel, ToolExec taking the answer out of the state):
  RepeatingNodes, ParallelBranches and AgentLoop model their own effects;
  GraphExecution assumes that a node returns its update.
- **Stateless tools** (`tool/builtin/http.py`, `shell.py`, mail, search, ...): one
  request of a service, no state to reason about.
- **Sessions of HTTP and webhook requests** (`channels/http.py:65-72`,
  `channels/webhook.py:62-73`): a function of one request, with no state of their own;
  where it does not lead back to a question is listed below.
- **The stores' own matching of ids and scores**: ids are opaque and a similarity
  is a constant (Weaviate tokenizes its ids, `rag/stores/weaviate.py:66-67`).
- **Skills, prompts, plugins, logging, test helpers** (`skill.py`, `prompt.py`,
  `plugins.py`, `logging.py`, `testing.py`): text and registration.
- **Copying a scaffold** (`scaffold/`): the overlays of the shipped templates never
  overlap; a copy that dies half way is refused on the next try
  (FileExistsError).
- **Formats of Langfuse and LangSmith, the pages of the dashboard** beyond the
  paging; **the making of connection pools** (`checkpoint/pg.py:35`: two first
  operations may each make one); **migration of old schemas**.

### Known divergences that no run covers

Between code and documentation, about the executor, sessions and stores:

- `provider/concurrency.py:39`: a limit set while calls are in flight starts an
  empty semaphore, so the old and the new calls together exceed the cap that
  `docs/reference/providers.md:168-169` calls global. The run assumes the limit is set
  between calls.
- `node/agent.py:236`: the round count is a key of the durable state that
  nothing resets; `docs/reference/nodes.md:125` says "per graph visit".
- `node/agent.py:461`: results are keyed by call id; calls with equal or
  empty ids all get the last result.
- `graph/graph.py:715-717` says that a paused run goes on with the edited state;
  a sub-flow that is resumed goes on with its own record and ignores the edit.
- `node/interrupt.py:23-24`: the id of a `GraphInterrupt` is the innermost run's,
  which is not the id to resume.
- `checkpoint/base.py:38` says different owners never collide; `checkpoint/file.py:44`
  maps "a.b" and "a_b" to one directory, and ids with "/" and "_" to one file.
- `checkpoint/history.py:104-108` promises the earlier snapshots; rows are keyed by
  iteration, so a pause overwrites the snapshot before the node and a new
  turn (`graph/graph.py:631` saves iteration 0) the earlier turns.
- `docs/why-teff.md:59` says that finished work is never run again; the node
  in flight at a crash is, once per death (`EachDeathRepeatsAtMostOneNode`).
- `flow/sub_flow.py:83` against 115-116: when the nested work raises, the record
  stays, and the next entry resumes it with its old input.
- `node/parallel.py:71` against 16-17: under the append reducer a branch extends
  the list that its siblings read.
- `channels/reply.py:63` against 72: if one turn replies as a message and the next
  under the output key, the second returns the first's reply.
- `node/agent.py:413` against 320-321: an approval stays in the state, and a tool
  denied by the policy runs in a later round.
- Without a checkpointer `resume` is ignored: `teff run --interactive` asks its
  first question for ever (`docs/getting-started/cli-cheatsheet.md:29`).

About authoring and deciding:

- An included document with an interrupt `strategy` is expanded twice
  (`yaml.py:126`, 414, 669), and an include drops the included document's
  initial state and schema (`yaml.py:202` against 90-91).
- Nodes that a loop body re-uses may be unreachable (`flow/control.py:349`); a
  guarded handler is not joined by `converge` after `default`.
- Flow documents are not validated when they are loaded (`yaml_schema.py:7-9`);
  `validate_flow` ignores `node_types`; duplicate ids are not detected.
- A provider registered with an upper-case letter passes every check of its
  references and is not found by the node (`provider/resolve.py`,
  `provider/registry.py:4-6`).
- A slot that is filled may be run again by the fallback
  (`node/supervisor.py:245-250`, `docs/guide/supervisors.md:102`) and, with a
  `fill_order`, by an agent that is not in it; the counters of Gate and Validate
  are never reset.

About calls and tools:

- Fallback models, "once each" (`harness/loop.py:535`), get a full cycle of
  retries; a stream that is retried sends its tokens again; a fallback's tokens
  are counted as the primary's, a cached reply's again.
- A sub-agent's write is overwritten by the older copy of a sibling
  (`tool/agent.py:203` against 41-42).
- A sub-agent gets no context limit (`tool/agent.py:170-180` sets neither
  `max_context_messages` nor `max_context_tokens`): its conversation grows by every round.
- A server whose opening is cancelled is leaked (`graph/graph.py:138`); two first
  runs open a group twice; two groups with one id share the first's tools; a
  group added while `aclose` awaits makes it raise.
- "A queueing clone can never double-run" (`docs/recipes/ops-daemon.md:93`) fails
  when the 30 s lease runs out during the wait of 120 s; `expire` without a ttl
  deletes the key.

About delivery:

- An update whose handling fails is confirmed by the next poll and not tried
  again (`channels/telegram.py:181-187`); one that is at work, or was handled, when the
  process dies before the next poll is delivered and heard again, as are all that a
  single pass (`once`) drained; every webhook route runs the last hook (`cli.py:863-871`).
- `channels/http.py:24-32` resumes a pause by sending the answer as the next message;
  `http.py:65-72` gives every request a session of its own, so the answer starts a
  new conversation.
- A hook without a key hashes the payload into the session
  (`channels/webhook.py:72-73`): an answer finds the question only if its payload is
  the one that asked.
- A half-written job file ends the worker at every restart; a job's owner is
  ignored.
- A tick that pauses keeps its in-place writes though it is reported as
  skipped; `prune` can delete a paused checkpoint; a judge that fails loses the
  whole evaluation; a plugin whose import failed is never retried.
- An abandoned turn's save may overwrite a later turn's (`graph/graph.py:591`);
  routers that ignore the status of `run_end` send the previous reply.

About what is kept:

- Deleting a checkpoint leaves its history rows.
- Failed nodes are not marked in the trace (`observability/collector.py:219-226`,
  `docs/guide/observability.md:13`); calls of concurrent branches are put on the
  branch that started last (`collector.py:122`); sub-flows are not traced.
- An export that fails midway leaves its transaction open, and a second export
  of a run raises (`observability/exporter.py`, "Idempotent").
- `remember` overwrites a similar item that "already exists in the namespace"
  (`memory/tool.py:28-30`); a search also covers deeper namespaces, and the key of an
  item found there makes a second one in the agent's own.
- Listing runs by tag page by page skips a run when another loses the tag.
- Two first searches embed the catalog's documents twice
  (`scaffold/variants/rag/src/rag/catalog.py:110-128`, "Safe to call
  repeatedly"); the catalog adopts rows by their number.
- An edit that is taken back, after the API process was restarted on it and has
  added its documents, leaves the old fingerprint standing over other rows: the
  task says "unchanged" (`scaffold/variants/celery/src/queue/ingest.py`).
- Stores differ on an id that exists (LanceDB and Milvus duplicate it, Chroma
  keeps the old row) and filter or blend only the first 4 k rows; FAISS is two
  files that a crash can separate.
- pgvector refuses every search: `rag/stores/pgvector.py:114` numbers the limit
  `len(params) + 1`, which is the parameter of the query vector or of the last
  condition, as `$1` is the vector (lines 66-67). `_connect` registers the vector type
  before it creates the extension (`pgvector.py:31-35`), on which a fresh database fails.
- Qdrant makes its collection at the first `add`; a search, an update, a delete
  or a count before it raises (`rag/stores/qdrant.py:103`) where other stores
  answer nothing. Chroma refuses a filter of two fields, and conjunctions of one
  or of mixed parts (`chroma.py:9-24`); Pinecone is given `None` for an empty part,
  and has no `entries`.

## 7. Plan

Done: the executor and its proofs, everything that runs under it, around it and
before it, and what is kept of it. What is left:

1. An abstract session: turns in order, each heard and answered once, with
   Conversation and StreamedTurn shown to implement it.
2. `set_provider_concurrency` under load (`ReconfigureInUse = TRUE`), once the
   intended behaviour is documented.

## 8. Running

    tlc -workers 2 -config MCGraphExecution.cfg MCGraphExecution
    tlapm GraphExecutionProofs.tla

`PROJECT.json` lists every run with its configuration, the source lines of every
definition, the mutants, the hazards and the theorems.
