------------------------------ MODULE ModelCalls ------------------------------
(***************************************************************************)
(* The llm_chat node (node/llm.py, execute): the rounds in which it asks a *)
(* model, runs the tools the model asks for, and asks again until a        *)
(* structured reply validates; the reply cache that nodes share and the    *)
(* retries and fallback models below it (harness/loop.py, call); the token *)
(* stream; and the Fallback nodes Extract puts behind it (node/extract.py).*)
(*                                                                         *)
(* A reply is one of a few kinds, and the model may give any.  The guard   *)
(* that bounds concurrent requests is ProviderConcurrency's subject.       *)
(***************************************************************************)
EXTENDS Naturals, Sequences, SequencesExt

CONSTANTS
    LlmNode,            \* runs of the node, numbered
    LlmConfigs,         \* the configurations it is checked with
    StructuredRetries,  \* max_retries, of the validation
    HttpRetries,        \* http_max_retries, of a request
    FallbackModels,     \* number of fallback models
    ToolRounds,         \* max_tool_rounds
    ReplyTokens,        \* bound: tokens in a streamed reply
    ToolPool,           \* names of the tools of the graph
    AllowedTools, DisallowedTools   \* of the node's skill

UnknownTool == "unknown"

(* mode: how the reply is used.  tools: the node has none, those of         *)
(* use_tools, or schemas of its own under "tools".  cache: the node has one.*)
(* runs: how many runs of it there are, at once (they share the cache only).*)
LlmConfig == [mode : {"stream", "plain", "parse", "structured"},
              tools : {"none", "scoped", "inline"}, cache : BOOLEAN,
              runs : LlmNode]

ASSUME ModelCallsAssumption ==
    /\ LlmNode \subseteq Nat
    /\ LlmConfigs \subseteq LlmConfig
    /\ {StructuredRetries, HttpRetries, FallbackModels, ToolRounds} \subseteq Nat
    /\ ToolRounds > 0
    /\ AllowedTools \cup DisallowedTools \subseteq ToolPool
    /\ ToolPool \cap {UnknownTool, "full", "sparse", "invalid"} = {}

VARIABLES
    llmConfig,      \* of the nodes
    replyCache,     \* request |-> the reply stored for it
    llm,            \* the locals of every run of the node
    toolsRun        \* history: the tools that were executed

llmVars == <<llmConfig, replyCache, llm, toolsRun>>

(* A request is what the messages hold beyond the prompt: the replies that  *)
(* were answered with tool results or with a validation error.              *)
NewLlm == [pc |-> "new", round |-> 0, attempts |-> 0, messages |-> <<>>,
           transport |-> 0, tries |-> 0, spoken |-> <<>>, emitted |-> <<>>,
           reply |-> "none", result |-> "none"]

LlmInit ==
    /\ llmConfig \in LlmConfigs
    /\ replyCache = <<>>
    /\ llm = [n \in LlmNode |-> NewLlm]
    /\ toolsRun = {}

HasTools == llmConfig.tools # "none"
IsStructured == llmConfig.mode = "structured"
Streams == llmConfig.mode = "stream" /\ ~HasTools

(* scope_tools, with the node's skill: a node that lists tool schemas of    *)
(* its own runs whatever tool of the graph the model names.                 *)
ScopedTools ==
    IF llmConfig.tools = "scoped" THEN AllowedTools \ DisallowedTools ELSE ToolPool

Rounds ==
    LET rounds == IF HasTools THEN ToolRounds ELSE 1
    IN  IF IsStructured /\ rounds < StructuredRetries + 1 THEN StructuredRetries + 1
        ELSE rounds

-----------------------------------------------------------------------------
(* One model call. *)

LlmBegin(n) ==
    /\ llm[n].pc = "new"
    /\ n <= llmConfig.runs
    /\ llm' = [llm EXCEPT ![n].pc = IF Streams THEN "streaming" ELSE "asking"]
    /\ UNCHANGED <<llmConfig, replyCache, toolsRun>>

(* The cache is read before the request and written after it. *)
AskModel(n) ==
    LET messages == llm[n].messages
    IN  /\ llm[n].pc = "asking"
        /\ llm' = [llm EXCEPT ![n] =
                     IF llmConfig.cache /\ messages \in DOMAIN replyCache
                       THEN [@ EXCEPT !.pc = "reading", !.reply = replyCache[messages].kind,
                                      !.transport = replyCache[messages].transport]
                       ELSE [@ EXCEPT !.pc = "posting", !.transport = 0, !.tries = 0]]
        /\ UNCHANGED <<llmConfig, replyCache, toolsRun>>

(* What a model may answer: a text, an object with or without the field     *)
(* somebody waits for, something that does not validate, or a tool call.    *)
ReplyKinds ==
    (IF llmConfig.mode \in {"parse", "structured"} THEN {"full", "sparse", "invalid"}
     ELSE {"full"})
    \cup IF HasTools THEN ToolPool \cup {UnknownTool} ELSE {}

ModelAnswers(n) ==
    /\ llm[n].pc = "posting"
    /\ \E kind \in ReplyKinds :
        /\ llm' = [llm EXCEPT ![n].pc = "reading", ![n].reply = kind]
        /\ replyCache' = IF llmConfig.cache /\ llm[n].transport = 0
                           THEN [m \in DOMAIN replyCache \cup {llm[n].messages} |->
                                   IF m = llm[n].messages THEN [kind |-> kind, transport |-> 0]
                                   ELSE replyCache[m]]
                           ELSE replyCache
    /\ UNCHANGED <<llmConfig, toolsRun>>

(* A token goes to the reply and, at once, to on_token and the stream. *)
StreamToken(n) ==
    LET token == <<llm[n].transport, llm[n].tries, Len(llm[n].spoken) + 1>>
    IN  /\ llm[n].pc = "streaming"
        /\ Len(llm[n].spoken) < ReplyTokens
        /\ llm' = [llm EXCEPT ![n].spoken = Append(@, token), ![n].emitted = Append(@, token)]
        /\ UNCHANGED <<llmConfig, replyCache, toolsRun>>

StreamEnds(n) ==
    /\ llm[n].pc = "streaming"
    /\ llm' = [llm EXCEPT ![n].pc = "done", ![n].reply = "full", ![n].result = "full"]
    /\ UNCHANGED <<llmConfig, replyCache, toolsRun>>

(* A request, streamed or not, fails: at the start or between two tokens.   *)
(* The same model is tried again if the failure is retryable; after that,   *)
(* or after any other, the next model, from its first attempt.              *)
RequestFailing(n, then) ==
    /\ llm[n].pc \in {"posting", "streaming"}
    /\ llm' = [llm EXCEPT ![n] = then]
    /\ UNCHANGED <<llmConfig, replyCache, toolsRun>>

(* Mutant: what was received before the failure stays in the reply. *)
TryAgainFromThere(n) ==
    /\ llm[n].tries < HttpRetries
    /\ RequestFailing(n, [llm[n] EXCEPT !.tries = @ + 1])

TryAgain(n) ==
    /\ llm[n].tries < HttpRetries
    /\ RequestFailing(n, [llm[n] EXCEPT !.tries = @ + 1, !.spoken = <<>>])

NextModel(n) ==
    /\ llm[n].transport < FallbackModels
    /\ RequestFailing(n, [llm[n] EXCEPT !.transport = @ + 1, !.tries = 0, !.spoken = <<>>])

GiveUp(n) ==
    /\ llm[n].transport = FallbackModels
    /\ RequestFailing(n, [llm[n] EXCEPT !.pc = "failed"])

-----------------------------------------------------------------------------
(* What a round does with the reply. *)

(* Another round, if there is one left: when there is none the node returns *)
(* the content it holds, whatever that is.                                  *)
NextRound(local) ==
    IF local.round + 1 < Rounds
      THEN [local EXCEPT !.pc = "asking", !.round = @ + 1]
      ELSE [local EXCEPT !.pc = "done", !.result = "raw"]

Heard(local, attempts) ==
    [local EXCEPT !.messages = Append(@, local.reply), !.attempts = attempts]

RunTools(n) ==
    LET tool == llm[n].reply
    IN  /\ llm[n].pc = "reading"
        /\ tool \in ToolPool \cup {UnknownTool}
        /\ toolsRun' = toolsRun \cup ({tool} \cap ScopedTools)
        /\ llm' = [llm EXCEPT ![n] = NextRound(Heard(@, @.attempts))]
        /\ UNCHANGED <<llmConfig, replyCache>>

AcceptReply(n) ==
    /\ llm[n].pc = "reading"
    /\ llm[n].reply \in {"full", "sparse"}
    /\ llm' = [llm EXCEPT ![n].pc = "filling", ![n].result = llm[n].reply]
    /\ UNCHANGED <<llmConfig, replyCache, toolsRun>>

(* The reply does not validate: the model is told, max_retries times.       *)
RefuseReply(n) ==
    LET attempts == llm[n].attempts + 1
    IN  /\ llm[n].pc = "reading"
        /\ llm[n].reply = "invalid"
        /\ llm' = [llm EXCEPT ![n] =
                     IF IsStructured /\ attempts <= StructuredRetries
                       THEN NextRound(Heard(@, attempts))
                       ELSE [@ EXCEPT !.pc = "refused"]]
        /\ UNCHANGED <<llmConfig, replyCache, toolsRun>>

(* Fallback: an object without the field gets it from the state, if it is   *)
(* there.                                                                   *)
FillField(n) ==
    /\ llm[n].pc = "filling"
    /\ \E result \in IF llm[n].result = "sparse" THEN {"sparse", "full"} ELSE {llm[n].result} :
          llm' = [llm EXCEPT ![n].pc = "done", ![n].result = result]
    /\ UNCHANGED <<llmConfig, replyCache, toolsRun>>

LlmStep(n) ==
    \/ LlmBegin(n) \/ AskModel(n) \/ ModelAnswers(n) \/ StreamToken(n) \/ StreamEnds(n)
    \/ TryAgain(n) \/ NextModel(n) \/ GiveUp(n)
    \/ RunTools(n) \/ AcceptReply(n) \/ RefuseReply(n) \/ FillField(n)

LlmNext == \E n \in LlmNode : LlmStep(n)

-----------------------------------------------------------------------------
(* Properties. *)

(* docs/guide/structured-output.md:32: a structured reply is "re-asked with *)
(* the validation error fed back (up to max_retries ...).  If all attempts  *)
(* fail, a StructuredOutputError is raised": what the node returns has been *)
(* validated.                                                               *)
StructuredIsValidated ==
    \A n \in LlmNode : (IsStructured /\ llm[n].pc = "done") => llm[n].result # "raw"

(* ... which is so for a node without tools: its rounds are as many as its  *)
(* attempts, and whichever way the model errs it gets all of them.          *)
ValidatedOrRefused ==
    \A n \in LlmNode : (IsStructured /\ ~HasTools) =>
        /\ llm[n].pc = "done" => llm[n].result # "raw"
        /\ llm[n].pc = "refused" => Len(llm[n].messages) = StructuredRetries

(* A streamed reply is what one attempt of one model said, and it is the    *)
(* end of what the client was sent: what failed attempts had sent is not    *)
(* part of it, and stays with the client.                                   *)
ReplyIsOneAttempt ==
    \A n \in LlmNode : (Streams /\ llm[n].pc = "done") =>
        LET spoken == llm[n].spoken
        IN  /\ IsSuffix(spoken, llm[n].emitted)
            /\ \A i \in DOMAIN spoken : spoken[i] = <<llm[n].transport, llm[n].tries, i>>

(* harness/loop.py, call: "Never cache a fallback model's reply under the   *)
(* primary's key": however requests fail and runs overlap, a reply that     *)
(* comes from the cache was the primary's.                                  *)
CacheServesThePrimary ==
    \A n \in LlmNode : (llm[n].pc = "reading" /\ llm[n].messages \in DOMAIN replyCache) =>
        replyCache[llm[n].messages].transport = 0

(* docs/guide/skills.md:47: a skill's disallowed-tools "removes tools       *)
(* outright": the node does not run one, even when the model asks for it by *)
(* name without having been shown it.                                       *)
DisallowedToolsNeverRun ==
    llmConfig.tools = "scoped" => toolsRun \cap DisallowedTools = {}

(* A node ends: with a result or with an exception. *)
EveryNodeEnds ==
  <>\A n \in LlmNode : n <= llmConfig.runs => llm[n].pc \in {"done", "failed", "refused"}

\* So a reply is what it passes for, streamed, validated or cached, and a tool
\* that was withheld has no part in it.
RepliesAreWhatTheySay ==
  /\ ReplyIsOneAttempt /\ ValidatedOrRefused /\ CacheServesThePrimary
  /\ DisallowedToolsNeverRun
===============================================================================
