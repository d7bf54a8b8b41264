-------------------------- MODULE DocumentCatalog --------------------------
(***************************************************************************)
(* The two keepers of documents over a vector store.  First the catalog a  *)
(* project scaffolded with the rag variant shares between the requests of  *)
(* its API process (search, load, update) and the Celery task that         *)
(* re-ingests changed files; then the rag tool over its configured         *)
(* documents with rag_ingest, which writes to the same store.  Embedding a *)
(* batch and adding its rows are awaited, so requests of one process       *)
(* interleave there; the store is durable and an id it holds is replaced.  *)
(***************************************************************************)
EXTENDS Integers, Sequences, FiniteSets, SequencesExt, Functions

CONSTANTS Requests,     \* concurrent requests of the API process
          Documents,    \* the documents files and uploads may contain
          BatchSize, MaxIngestions, MaxUploads, MaxTrouble

\* range() refuses a step of zero.
ASSUME CatalogAssumption == BatchSize \in Nat \ {0}

VARIABLES files,        \* the seed documents on disk
          docs,         \* _docs of the API process
          ingested,     \* _ingested of the API process
          stored,       \* position -> document: the vector store
          job,          \* request -> [at, pending, start]
          task,         \* the Celery task: [at, docs, ingested, start]
          fingerprint,  \* the files the state file vouches for, <<>> if none
          overlapped,   \* two ingestions have been under way at once
          foreign,      \* the task has rebuilt the store under this process,
                        \* or left it with a gap that resume cannot see
          disturbed,    \* an edit, a failed rebuild or a process of other files may
                        \* have parted the store from what the fingerprint vouches
                        \* for, since the last rebuild began
          edited, ingestions, uploads, trouble

catalogVars == <<files, docs, ingested, stored, job, task, fingerprint, overlapped,
                 foreign, disturbed, edited, ingestions, uploads, trouble>>

NoRows == [i \in {} |-> 0]
IdleJob == [at |-> "idle", pending |-> <<>>, start |-> 0]
IdleTask == [at |-> "idle", docs |-> <<>>, ingested |-> 0, start |-> 0]
Busy(w) == job[w].at # "idle"
OthersBusy(w) == task.at # "idle" \/ \E v \in Requests \ {w} : Busy(v)

(* A document chunk starts at start in pending; its ids count from the     *)
(* counter as it is when the embeddings have arrived.                      *)
Chunk(pending, start) ==
  SubSeq(pending, start + 1, IF start + BatchSize < Len(pending) THEN start + BatchSize ELSE Len(pending))
IdsOfCall(counter, start, chunk) ==
  [i \in {start + n : n \in 1..Len(chunk)} |-> chunk[i - start]]
IdsOf(counter, start, chunk) ==
  [i \in {counter + start + n : n \in 1..Len(chunk)} |-> chunk[i - counter - start]]
WithRows(held, added) ==
  [i \in DOMAIN held \cup DOMAIN added |-> IF i \in DOMAIN added THEN added[i] ELSE held[i]]

(* resume: a fresh process takes the number of rows for its progress.      *)
Resume(known, held) == IF Cardinality(DOMAIN held) < Len(known) THEN Cardinality(DOMAIN held) ELSE Len(known)

CatalogInit ==
  /\ \E d \in Documents : files = <<d>>
  /\ docs = files /\ stored = NoRows /\ ingested = Resume(docs, stored)
  /\ job = [w \in Requests |-> IdleJob] /\ task = IdleTask
  /\ fingerprint = <<>>
  /\ overlapped = FALSE /\ foreign = FALSE /\ disturbed = FALSE /\ edited = FALSE
  /\ ingestions = 0 /\ uploads = 0 /\ trouble = 0

(* The process was started on other files than the fingerprint vouches for.*)
StaleProcess == ~IsPrefix(fingerprint, docs)

Begin(w, pending) ==
  /\ ingestions < MaxIngestions /\ ingestions' = ingestions + 1
  /\ job' = [job EXCEPT ![w] = [at |-> "embedding", pending |-> pending, start |-> 0]]
  /\ overlapped' = (overlapped \/ OthersBusy(w))

(* search and find_similar ingest first when documents are pending.        *)
EnsureSeeded(w) ==
  /\ ~Busy(w) /\ ingested < Len(docs)
  /\ Begin(w, SubSeq(docs, ingested + 1, Len(docs)))
  /\ disturbed' = (disturbed \/ StaleProcess)
  /\ UNCHANGED <<files, docs, ingested, stored, task, fingerprint, foreign, edited, uploads, trouble>>

(* POST /load: queue an uploaded document, ingest what is pending.         *)
CatalogLoad(w, d) ==
  /\ ~Busy(w) /\ uploads < MaxUploads
  /\ uploads' = uploads + 1
  /\ docs' = Append(docs, d)
  /\ Begin(w, SubSeq(docs', ingested + 1, Len(docs')))
  /\ disturbed' = (disturbed \/ StaleProcess)
  /\ UNCHANGED <<files, ingested, stored, task, fingerprint, foreign, edited, trouble>>

(* POST /update: clear the store, then reset the counter and ingest all.   *)
CatalogUpdate(w) ==
  /\ ~Busy(w) /\ ingestions < MaxIngestions
  /\ ingestions' = ingestions + 1
  /\ job' = [job EXCEPT ![w] = [IdleJob EXCEPT !.at = "clearing"]]
  /\ overlapped' = (overlapped \/ OthersBusy(w))
  /\ stored' = NoRows
  /\ disturbed' = (disturbed \/ StaleProcess)
  /\ UNCHANGED <<files, docs, ingested, task, fingerprint, foreign, edited, uploads, trouble>>

Cleared(w) ==
  /\ job[w].at = "clearing"
  /\ ingested' = 0
  /\ job' = [job EXCEPT ![w] = [at |-> "embedding", pending |-> docs, start |-> 0]]
  /\ UNCHANGED <<files, docs, stored, task, fingerprint, overlapped, disturbed, foreign, edited, uploads, ingestions, trouble>>

AddBatch(w) ==
  /\ job[w].at = "embedding" /\ job[w].start < Len(job[w].pending)
  /\ LET chunk == Chunk(job[w].pending, job[w].start)
     IN /\ stored' = WithRows(stored, IdsOf(ingested, job[w].start, chunk))
        /\ job' = [job EXCEPT ![w].start = @ + BatchSize]
  /\ UNCHANGED <<files, docs, ingested, task, fingerprint, overlapped, disturbed, foreign, edited, uploads, ingestions, trouble>>

Ingested(w) ==
  /\ job[w].at = "embedding" /\ job[w].start >= Len(job[w].pending)
  /\ ingested' = ingested + Len(job[w].pending)
  /\ job' = [job EXCEPT ![w] = IdleJob]
  /\ UNCHANGED <<files, docs, stored, task, fingerprint, overlapped, disturbed, foreign, edited, uploads, ingestions, trouble>>

(* The embedding call raises: the request fails, the counter stays.        *)
EmbedFails(w) ==
  /\ job[w].at = "embedding" /\ job[w].start < Len(job[w].pending)
  /\ trouble < MaxTrouble /\ trouble' = trouble + 1
  /\ job' = [job EXCEPT ![w] = IdleJob]
  /\ disturbed' = (disturbed \/ fingerprint # <<>>)
  /\ UNCHANGED <<files, docs, ingested, stored, task, fingerprint, overlapped, foreign, edited, uploads, ingestions>>

(* The API process ends and starts again on the files as they are now.     *)
RestartApi ==
  /\ trouble < MaxTrouble /\ trouble' = trouble + 1
  /\ docs' = files /\ ingested' = Resume(files, stored)
  /\ job' = [w \in Requests |-> IdleJob]
  /\ disturbed' = (disturbed \/ \E w \in Requests : Busy(w))
  /\ foreign' = (task.at # "idle" \/ (foreign /\ DOMAIN stored # 1..Cardinality(DOMAIN stored)))
  /\ UNCHANGED <<files, stored, task, fingerprint, overlapped, edited, uploads, ingestions>>

EditFiles(changed) ==
  /\ trouble < MaxTrouble /\ trouble' = trouble + 1
  /\ changed # files /\ files' = changed
  /\ edited' = TRUE
  /\ disturbed' = (disturbed \/ task.at # "idle")
  /\ UNCHANGED <<docs, ingested, stored, job, task, fingerprint, overlapped, foreign, uploads, ingestions>>

ReingestIfChanged ==
  /\ task.at = "idle" /\ fingerprint # files
  /\ task' = [at |-> "embedding", docs |-> files, ingested |-> 0, start |-> 0]
  /\ stored' = NoRows
  /\ overlapped' = (overlapped \/ \E w \in Requests : Busy(w))
  /\ foreign' = TRUE /\ disturbed' = FALSE
  /\ UNCHANGED <<files, docs, ingested, job, fingerprint, edited, uploads, ingestions, trouble>>

ReingestBatch ==
  /\ task.at = "embedding" /\ task.start < Len(task.docs)
  /\ stored' = WithRows(stored, IdsOf(task.ingested, task.start, Chunk(task.docs, task.start)))
  /\ task' = [task EXCEPT !.start = @ + BatchSize]
  /\ UNCHANGED <<files, docs, ingested, job, fingerprint, overlapped, disturbed, foreign, edited, uploads, ingestions, trouble>>

(* The fingerprint is taken of the files again, after the rebuild.         *)
SaveState ==
  /\ task.at = "embedding" /\ task.start >= Len(task.docs)
  /\ task' = IdleTask
  /\ fingerprint' = files
  /\ UNCHANGED <<files, docs, ingested, stored, job, overlapped, disturbed, foreign, edited, uploads, ingestions, trouble>>

(* The task raises or its worker dies: no state is saved, so the next beat *)
(* rebuilds, unless the files come back to what the last state vouches for.*)
ReingestFails ==
  /\ task.at = "embedding" /\ trouble < MaxTrouble /\ trouble' = trouble + 1
  /\ task' = IdleTask
  /\ disturbed' = (disturbed \/ fingerprint # <<>>)
  /\ UNCHANGED <<files, docs, ingested, stored, job, fingerprint, overlapped, foreign, edited, uploads, ingestions>>

(* A document seen for the first time; which one does not matter.          *)
NewDocument(d) ==
  LET new == Documents \ (Range(docs) \cup Range(files))
  IN d \in new /\ \A n \in new : d <= n
Edits == {Append(files, d) : d \in {d \in Documents : NewDocument(d)}}
           \cup {[files EXCEPT ![1] = d] : d \in {d \in Documents : NewDocument(d)}}

CatalogNext ==
  \/ \E w \in Requests :
       \/ EnsureSeeded(w) \/ CatalogUpdate(w) \/ Cleared(w)
       \/ \E d \in Documents : NewDocument(d) /\ CatalogLoad(w, d)
       \/ AddBatch(w) \/ Ingested(w) \/ EmbedFails(w)
  \/ RestartApi \/ (\E changed \in Edits : EditFiles(changed))
  \/ ReingestIfChanged \/ ReingestBatch \/ SaveState \/ ReingestFails

(***************************************************************************)
(* Properties.                                                             *)
(***************************************************************************)
Quiet == task.at = "idle" /\ \A w \in Requests : ~Busy(w)

(* A catalog that believes itself embedded is: when nothing is under way   *)
(* and _ingested has reached the documents, the store holds each document  *)
(* at its position, whatever loads, updates, failed embeddings and         *)
(* restarts between the batches led there, as long as ingestions did not   *)
(* overlap, no file was edited under the process and the task did not      *)
(* rebuild the store behind its back (a restart ends that, unless rows     *)
(* were added past the ones the task had not stored yet).                  *)
EmbeddedIsStored ==
  Quiet /\ ~overlapped /\ ~edited /\ ~foreign /\ ingested >= Len(docs) =>
    \A i \in 1..Len(docs) : i \in DOMAIN stored /\ stored[i] = docs[i]

(* "Unchanged" is the truth: when the saved fingerprint is that of the     *)
(* files and nothing is under way, the store holds every file's document,  *)
(* unless ingestions overlapped or, since the last rebuild began, an edit  *)
(* or a failure fell into it or a process of other files wrote.            *)
UnchangedMeansFresh ==
  Quiet /\ fingerprint = files /\ ~overlapped /\ ~disturbed =>
    \A i \in 1..Len(files) : i \in DOMAIN stored /\ stored[i] = files[i]

\* What the catalog believes of the store, by its count or its fingerprint, is so.
CatalogIsTrue == EmbeddedIsStored /\ UnchangedMeansFresh
-----------------------------------------------------------------------------
(***************************************************************************)
(* The rag tool.  A document is [id, length, text]: so many tokens,        *)
(* characters or sentences; the chunker turns it into windows, and each    *)
(* window is a row named after the document and its number.  Configured    *)
(* documents without an id share the name "chunk": they are of one id.     *)
(***************************************************************************)
CONSTANTS Calls,              \* concurrent calls of the tools
          Corpus,             \* the configured documents: a sequence
          Arrivals,           \* the documents rag_ingest may be given
          Sizes, Overlaps,
          MaxIngests, MaxEmbedFailures

Known == Range(Corpus) \cup UNION {Range(loaded) : loaded \in Arrivals}

ASSUME RagAssumption ==
  /\ Sizes \subseteq Nat /\ Overlaps \subseteq Nat
  /\ Corpus \in Seq(Known) /\ Arrivals \subseteq Seq(Known)
  /\ \A doc \in Known : doc.length \in Nat

VARIABLES chunker,            \* [strategy, size, overlap]
          seeded,             \* _seeded
          table,              \* <<document id, number>> -> [text, tokens]
          call,               \* call -> [at, given: its documents, todo: those still to add]
          arrived,            \* the documents rag_ingest reported stored
          embedFailures

ragVars == <<chunker, seeded, table, call, arrived, embedFailures>>

(***************************************************************************)
(* Chunker: the windows of a document of n units.                          *)
(***************************************************************************)
Window(from, upTo, n) == {u \in 1..n : from < u /\ u <= upTo}

(* token and fixed: start advances by size - overlap; when that is not     *)
(* positive the loop stops after its first window.                         *)
SlidingChunks(n, size, overlap) ==
  LET step  == size - overlap
      count == IF n = 0 THEN 0 ELSE IF step <= 0 THEN 1 ELSE (n - 1) \div step + 1
  IN [i \in 1..count |-> Window((i - 1) * step, (i - 1) * step + size, n)]

(* sentence: a chunk is emitted whenever size sentences have gathered and  *)
(* the last overlap of them open the next one; the rest is a last chunk.   *)
SentenceChunks(n, size, overlap) ==
  LET gather[i \in 0..n] ==
        IF i = 0 THEN [out |-> <<>>, current |-> {}]
        ELSE LET before  == gather[i - 1]
                 current == before.current \cup {i}
             IN IF Cardinality(current) >= size
                THEN [out |-> Append(before.out, current),
                      current |-> {u \in current : u > i - overlap}]
                ELSE [before EXCEPT !.current = current]
      all == gather[n]
  IN IF all.current = {} THEN all.out ELSE Append(all.out, all.current)

Chunks(n) ==
  IF chunker.strategy = "sentence" THEN SentenceChunks(n, chunker.size, chunker.overlap)
  ELSE SlidingChunks(n, chunker.size, chunker.overlap)

(* The rows of a document: <id>_<i>, without an id chunk_<i>.              *)
RowsOf(doc) ==
  LET chunks == Chunks(doc.length)
  IN [r \in {<<doc.id, i>> : i \in 1..Len(chunks)} |-> [text |-> doc.text, tokens |-> chunks[r[2]]]]

Written(held, added) ==
  [r \in DOMAIN held \cup DOMAIN added |-> IF r \in DOMAIN added THEN added[r] ELSE held[r]]

NoCall == [at |-> "idle", given |-> <<>>, todo |-> <<>>]

RagInit ==
  /\ chunker \in [strategy : {"token", "sentence"}, size : Sizes, overlap : Overlaps]
  /\ seeded = FALSE /\ table = [r \in {} |-> 0]
  /\ call = [c \in Calls |-> NoCall] /\ arrived = {} /\ embedFailures = 0

(* _ensure_seeded: a call that finds the tool unseeded adds every document *)
(* itself, one add_document after the other.                               *)
Seeding == [at |-> "seeding", given |-> Corpus, todo |-> IF seeded THEN <<>> ELSE Corpus]

ArunFlagFirst(c) ==
  /\ call[c].at = "idle" /\ seeded' = TRUE
  /\ call' = [call EXCEPT ![c] = Seeding]
  /\ UNCHANGED <<chunker, table, arrived, embedFailures>>
Arun(c) ==
  /\ call[c].at = "idle"
  /\ call' = [call EXCEPT ![c] = Seeding]
  /\ UNCHANGED <<chunker, seeded, table, arrived, embedFailures>>

AddDocument(c) ==
  /\ call[c].at \in {"seeding", "ingesting"} /\ call[c].todo # <<>>
  /\ table' = Written(table, RowsOf(Head(call[c].todo)))
  /\ call' = [call EXCEPT ![c].todo = Tail(@)]
  /\ UNCHANGED <<chunker, seeded, arrived, embedFailures>>

(* The query runs against the store as it then is.                         *)
Seeded(c) ==
  /\ call[c].at = "seeding" /\ call[c].todo = <<>>
  /\ seeded' = TRUE
  /\ call' = [call EXCEPT ![c].at = "searching"]
  /\ UNCHANGED <<chunker, table, arrived, embedFailures>>

Answered(c) ==
  /\ call[c].at = "searching"
  /\ call' = [call EXCEPT ![c] = NoCall]
  /\ UNCHANGED <<chunker, seeded, table, arrived, embedFailures>>

(* rag_ingest: every loaded document, then a confirmation.                 *)
Ingest(c, loaded) ==
  /\ call[c].at = "idle" /\ Cardinality(arrived) < MaxIngests
  /\ call' = [call EXCEPT ![c] = [at |-> "ingesting", given |-> loaded, todo |-> loaded]]
  /\ UNCHANGED <<chunker, seeded, table, arrived, embedFailures>>

Confirm(c) ==
  /\ call[c].at = "ingesting" /\ call[c].todo = <<>>
  /\ arrived' = arrived \cup Range(call[c].given)
  /\ call' = [call EXCEPT ![c] = NoCall]
  /\ UNCHANGED <<chunker, seeded, table, embedFailures>>

EmbedManyFails(c) ==
  /\ call[c].todo # <<>> /\ embedFailures < MaxEmbedFailures
  /\ embedFailures' = embedFailures + 1
  /\ call' = [call EXCEPT ![c] = NoCall]
  /\ UNCHANGED <<chunker, seeded, table, arrived>>

RagNext ==
  \E c \in Calls :
    \/ Arun(c) \/ AddDocument(c) \/ Seeded(c) \/ Answered(c) \/ EmbedManyFails(c)
    \/ Confirm(c) \/ \E loaded \in Arrivals : Ingest(c, loaded)

CoveredBy(doc) ==
  UNION {table[r].tokens : r \in {r \in DOMAIN table : r[1] = doc.id /\ table[r].text = doc.text}}

\* No other document is given the same id, so none replaces its rows.
OwnsItsId(doc) == \A other \in Known : other.id = doc.id => other = doc

(* A search never runs on half a knowledge base: when a call's query       *)
(* reaches the store, every part of every configured document, and of      *)
(* every document whose ingestion was confirmed, is in some row, and no    *)
(* row of it holds anything else, whichever calls seeded or ingested       *)
(* concurrently and whichever embeddings failed before, provided the       *)
(* chunks overlap less than they are long and the document has its own id. *)
SearchSeesEveryDocument ==
  chunker.overlap < chunker.size =>
    \A c \in Calls : call[c].at = "searching" =>
      \A doc \in Range(Corpus) \cup arrived :
        OwnsItsId(doc) => CoveredBy(doc) = 1..doc.length
=============================================================================
