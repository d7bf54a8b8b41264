----------------------------- MODULE TraceExport -----------------------------
(***************************************************************************)
(* Exporting runs (observability/exporter.py, push.py, api.py): a process  *)
(* that runs a workflow again and again hands each finished run to a       *)
(* CompositeExporter of two sinks.  One is a SQLite file, written in the   *)
(* process; the other posts the run from a pool of one thread to the       *)
(* ingest endpoint of a dashboard, which has a SQLite file of its own.     *)
(* Posts fail, and so do answers to posts that were stored.  A dashboard   *)
(* on the process's own connection lists the runs page by page while they  *)
(* come in, all of them or those with a tag that its PATCH puts on a run   *)
(* or takes off.                                                           *)
(***************************************************************************)
EXTENDS Naturals, Sequences, FiniteSets, SequencesExt

CONSTANTS
  MaxRuns,     \* bound: runs that finish
  SinkSets,    \* what a process may have beside its file: "http", "dashboard"
  Retries,     \* of _post_json
  PageSize,    \* limit of the dashboard's requests
  MaxTrouble   \* bound: exports and posts that go wrong

ASSUME ExportAssumption ==
  SinkSets \subseteq SUBSET {"http", "dashboard"} /\ Retries \in Nat /\ PageSize \in Nat \ {0}

VARIABLES
  sinks,      \* the member of SinkSets at work
  exported,   \* runs handed to the exporter so far: 1..exported
  open,       \* runs whose rows are in the open transaction of the local file
  file,       \* runs in the local file
  locally,    \* history: how the local export of each run went
  submitted,  \* runs submitted to the pool
  queue,      \* those not yet posted, the first at work
  attempt,    \* failed attempts at it
  received,   \* what the endpoint has stored, in order
  gaveUp,     \* history: runs whose post was given up
  process,    \* "running", "closing", "closed", "dead"
  trouble,
  tagged,     \* runs that have the tag
  pages       \* the walk through the list: what was asked for, and answered

sinkVars == <<exported, open, file, locally, submitted, queue, attempt,
              received, gaveUp, process, trouble>>
dashboardVars == <<tagged, pages>>
exportVars == <<sinks, sinkVars, dashboardVars>>

NoPages == [open |-> FALSE, byTag |-> FALSE, offset |-> 0, total |-> 0,
            seen |-> {}, wanted |-> {}, untagged |-> FALSE]

ExportInit ==
  /\ sinks \in SinkSets
  /\ exported = 0 /\ open = {} /\ file = {} /\ locally = <<>>
  /\ submitted = {} /\ queue = <<>> /\ attempt = 0 /\ received = <<>> /\ gaveUp = {}
  /\ process = "running" /\ trouble = 0
  /\ tagged = {} /\ pages = NoPages

-----------------------------------------------------------------------------
(* SQLiteExporter.export: the rows of the run, its nodes and its calls,    *)
(* then a commit.  An exception leaves the transaction open, and the next  *)
(* commit on the connection takes it along.                                *)

Outcomes == {"stored", "refused", "partial", "uncommitted"}
Commit == open' = {} /\ file' = file \cup open
LocalExport(run, outcome) ==
  CASE outcome = "stored"  -> open' = {} /\ file' = file \cup open \cup {run}
    [] outcome = "refused" -> UNCHANGED <<open, file>>
    [] OTHER               -> open' = open \cup {run} /\ UNCHANGED file

\* HttpExporter.export; the pool of a closed exporter raises.
Submit(run) ==
  IF "http" \in sinks
    THEN queue' = Append(queue, run) /\ submitted' = submitted \cup {run}
    ELSE UNCHANGED <<queue, submitted>>

\* CompositeExporter.export goes on after a sink that raised.
CompositeExport(run, outcome) ==
  LocalExport(run, outcome) /\ Submit(run)

RunEnds ==
  /\ process = "running" /\ exported < MaxRuns
  /\ exported' = exported + 1
  /\ \E outcome \in Outcomes :
       /\ outcome # "stored" => trouble < MaxTrouble
       /\ trouble' = IF outcome = "stored" THEN trouble ELSE trouble + 1
       /\ CompositeExport(exported', outcome)
       /\ locally' = Append(locally, outcome)
  /\ UNCHANGED <<attempt, received, gaveUp, process, dashboardVars>>

-----------------------------------------------------------------------------
(* The dashboard.  The connection it shares sees the open transaction.     *)

Listed == file \cup open

\* update_run, the dashboard's PATCH, commits whatever is open.
Served == process = "running" /\ "dashboard" \in sinks
PatchRun ==
  /\ Served
  /\ \E run \in Listed :
       \/ tagged' = tagged \cup {run} /\ UNCHANGED pages
       \/ /\ tagged' = tagged \ {run}
          /\ pages' = [pages EXCEPT !.untagged = @ \/ (pages.byTag /\ run \in tagged)]
  /\ Commit
  /\ UNCHANGED <<exported, locally, submitted, queue, attempt, received, gaveUp,
                 process, trouble>>

Matching(byTag) == IF byTag THEN Listed \cap tagged ELSE Listed

Newer(run, listed) == {other \in listed : other > run}

\* list_runs: the newest runs first, but those of earlier pages, and the number
\* of all.
ListRuns(byTag, offset) ==
  LET listed == Matching(byTag)
  IN  [items |-> {run \in listed :
                    Cardinality(Newer(run, listed)) \in offset..(offset + PageSize - 1)},
       total |-> Cardinality(listed)]

OpenList ==
  /\ Served
  /\ \E byTag \in BOOLEAN :
       LET page == ListRuns(byTag, 0) IN
         pages' = [NoPages EXCEPT !.open = TRUE, !.byTag = byTag, !.total = page.total,
                                  !.seen = page.items, !.wanted = Matching(byTag)]
  /\ UNCHANGED <<sinkVars, tagged>>

\* The next button, which the last answer leaves enabled or not.
HasNextPage == pages.open /\ pages.offset + PageSize < pages.total
NextPage ==
  /\ Served /\ HasNextPage
  /\ LET page == ListRuns(pages.byTag, pages.offset + PageSize) IN
       pages' = [pages EXCEPT !.offset = @ + PageSize, !.total = page.total,
                              !.seen = @ \cup page.items]
  /\ UNCHANGED <<sinkVars, tagged>>

-----------------------------------------------------------------------------
(* The thread of the pool: _post_json, and ingest at the other end, where  *)
(* the run's id is the primary key.                                        *)

AtWork == process \in {"running", "closing"} /\ queue # <<>>

\* Mutant: the ingest gives the run an id of its own.
StoreAnew(run) == received' = Append(received, run)
Store(run) == received' = IF run \in ToSet(received) THEN received ELSE Append(received, run)

NextPost == queue' = Tail(queue) /\ attempt' = 0

PostSucceeds ==
  /\ AtWork /\ Head(queue) \notin ToSet(received)
  /\ Store(Head(queue)) /\ NextPost
  /\ UNCHANGED <<exported, open, file, locally, submitted, gaveUp, process, trouble, dashboardVars>>

\* Not delivered, or stored and the answer lost, or stored before: the insert
\* fails and the endpoint answers 500.
PostFails ==
  /\ AtWork
  /\ \/ /\ trouble < MaxTrouble /\ trouble' = trouble + 1
        /\ \/ UNCHANGED received
           \/ Store(Head(queue))
     \/ Head(queue) \in ToSet(received) /\ Store(Head(queue)) /\ UNCHANGED trouble
  /\ IF attempt < Retries
       THEN attempt' = attempt + 1 /\ UNCHANGED <<queue, gaveUp>>
       ELSE NextPost /\ gaveUp' = gaveUp \cup {Head(queue)}
  /\ UNCHANGED <<exported, open, file, locally, submitted, process, dashboardVars>>

-----------------------------------------------------------------------------
(* close: the connection first, whose open transaction is lost, then the   *)
(* pool, which is waited for.                                              *)

Close ==
  /\ process = "running" /\ process' = "closing" /\ open' = {}
  /\ UNCHANGED <<exported, file, locally, submitted, queue, attempt, received,
                 gaveUp, trouble, dashboardVars>>

PoolDrained ==
  /\ process = "closing" /\ queue = <<>> /\ process' = "closed"
  /\ UNCHANGED <<exported, open, file, locally, submitted, queue, attempt, received,
                 gaveUp, trouble, dashboardVars>>

ProcessDies ==
  /\ process \in {"running", "closing"} /\ process' = "dead"
  /\ open' = {} /\ queue' = <<>>
  /\ UNCHANGED <<exported, file, locally, submitted, attempt, received, gaveUp, trouble, dashboardVars>>

ExportNext ==
  /\ UNCHANGED sinks
  /\ \/ RunEnds \/ PatchRun \/ OpenList \/ NextPage
     \/ PostSucceeds \/ PostFails \/ Close \/ PoolDrained \/ ProcessDies

-----------------------------------------------------------------------------
(* Properties.                                                             *)

Runs == 1..exported

\* push.py:3-6: a failing sink never costs the other its runs.  After close
\* the endpoint has every run that was not given up (exporter.py:369: "a failure
\* in one sink is logged and swallowed so the remaining sinks keep working"),
\* and the local file every run whose export succeeded.
ASinkOutlivesTheOther ==
  process = "closed" =>
     /\ "http" \in sinks => Runs \subseteq ToSet(received) \cup gaveUp
     /\ \A run \in Runs : locally[run] = "stored" => run \in file

\* The retries of a post whose answer was lost store a run once, and the runs
\* arrive in the order in which they ended; what was given up after it was
\* stored is there all the same.
ReceivedOnceInOrder ==
  \A i, j \in DOMAIN received : i < j => received[i] < received[j]

\* api.py:98-115, exporter.py:224-230: a walk through the pages misses no run
\* that was in the list when it began, however many runs come in meanwhile and
\* whatever is tagged; only a run that loses the tag one lists by moves the
\* others up, past a page that was already read.
PagesSkipNothing ==
  (pages.open /\ ~HasNextPage /\ ~pages.untagged) => pages.wanted \subseteq pages.seen

\* So the trace of a run arrives once, in order, at each sink that can take it,
\* and is found there.
RunsAreExported == ReceivedOnceInOrder /\ ASinkOutlivesTheOther /\ PagesSkipNothing
=============================================================================
