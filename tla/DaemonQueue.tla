----------------------------- MODULE DaemonQueue -----------------------------
(***************************************************************************)
(* The file queue of the scaffolded daemon (teff/scaffold/daemon): a       *)
(* producer writes a job file; the worker lists the files, runs each job   *)
(* as a turn of its session, writes a result file and removes the job's.   *)
(* A write is not atomic: the file is there before its content is.  Both   *)
(* processes may die between any two steps; the worker is started again.   *)
(***************************************************************************)
EXTENDS Naturals, FiniteSets

CONSTANTS
  MaxJobs,         \* bound: jobs enqueued; their names sort in this order
  MaxWorkerDeaths  \* bound: ends of the worker

VARIABLES
  jobs,       \* the file of each job: "none", "partial", "full"
  results,    \* its result file: "none", "partial", "full"
  writing,    \* the job whose file the producer is writing; 0: none
  working,    \* the worker process runs
  listed,     \* what is left of the pass's listing, which is sorted
  job,        \* the job being processed and the step it is at
  ran,        \* history: turns run for each job
  workerDeaths

queueVars == <<jobs, results, writing, working, listed, job, ran, workerDeaths>>

JobIds == 1..MaxJobs
NoJob == [id |-> 0, at |-> "idle"]
QueueInit ==
  /\ jobs = [j \in JobIds |-> "none"] /\ results = [j \in JobIds |-> "none"]
  /\ writing = 0 /\ working = TRUE /\ listed = {} /\ job = NoJob
  /\ ran = [j \in JobIds |-> 0] /\ workerDeaths = 0

-----------------------------------------------------------------------------
(* enqueue: a uuid names the file, so jobs come in any order.              *)

Enqueue(j) ==
  /\ writing = 0 /\ jobs[j] = "none" /\ ran[j] = 0 /\ results[j] = "none"
  /\ jobs' = [jobs EXCEPT ![j] = "partial"] /\ writing' = j
  /\ UNCHANGED <<results, working, listed, job, ran, workerDeaths>>

EnqueueWrites ==
  /\ writing # 0
  /\ jobs' = [jobs EXCEPT ![writing] = "full"] /\ writing' = 0
  /\ UNCHANGED <<results, working, listed, job, ran, workerDeaths>>

\* The producer dies under the write: half a file stays.
ProducerDies ==
  /\ writing # 0 /\ writing' = 0
  /\ UNCHANGED <<jobs, results, working, listed, job, ran, workerDeaths>>

-----------------------------------------------------------------------------
(* _drain_once and _process_job.                                           *)

\* pending(): the names in the directory.
Pending == {j \in JobIds : jobs[j] # "none"}

List ==
  /\ working /\ job = NoJob /\ listed = {} /\ Pending # {}
  /\ listed' = Pending
  /\ UNCHANGED <<jobs, results, writing, working, job, ran, workerDeaths>>

\* Mutant: the names are sorted the other way round.
IsLast(j) == j \in listed /\ \A i \in listed : i <= j

\* The listing is sorted, and gone through from its beginning.
IsNext(j) == j \in listed /\ \A i \in listed : j <= i

Load(j) ==
  /\ working /\ job = NoJob /\ IsNext(j) /\ jobs[j] = "full"
  /\ job' = [id |-> j, at |-> "run"] /\ listed' = listed \ {j}
  /\ UNCHANGED <<jobs, results, writing, working, ran, workerDeaths>>

\* load_job is outside the try: half a file ends the worker.
LoadFails(j) ==
  /\ working /\ job = NoJob /\ IsNext(j) /\ jobs[j] # "full"
  /\ working' = FALSE
  /\ UNCHANGED <<jobs, results, writing, listed, job, ran, workerDeaths>>

\* The turn answers, pauses or raises: each gives a payload.
Run ==
  /\ working /\ job.at = "run"
  /\ ran' = [ran EXCEPT ![job.id] = @ + 1]
  /\ job' = [job EXCEPT !.at = "write"]
  /\ UNCHANGED <<jobs, results, writing, working, listed, workerDeaths>>

\* complete: the result file is emptied, filled, and the job file removed.
OpenResult ==
  /\ working /\ job.at = "write"
  /\ results' = [results EXCEPT ![job.id] = "partial"]
  /\ job' = [job EXCEPT !.at = "written"]
  /\ UNCHANGED <<jobs, writing, working, listed, ran, workerDeaths>>

FillResult ==
  /\ working /\ job.at = "written"
  /\ results' = [results EXCEPT ![job.id] = "full"]
  /\ job' = [job EXCEPT !.at = "unlink"]
  /\ UNCHANGED <<jobs, writing, working, listed, ran, workerDeaths>>

Unlink ==
  /\ working /\ job.at = "unlink"
  /\ jobs' = [jobs EXCEPT ![job.id] = "none"]
  /\ job' = NoJob
  /\ UNCHANGED <<results, writing, working, listed, ran, workerDeaths>>

WorkerDies ==
  /\ working /\ workerDeaths < MaxWorkerDeaths
  /\ working' = FALSE /\ workerDeaths' = workerDeaths + 1
  /\ UNCHANGED <<jobs, results, writing, listed, job, ran>>

WorkerStarts ==
  /\ ~working /\ working' = TRUE
  /\ listed' = {} /\ job' = NoJob
  /\ UNCHANGED <<jobs, results, writing, ran, workerDeaths>>

QueueNext ==
  \/ \E j \in JobIds : Enqueue(j) \/ Load(j) \/ LoadFails(j)
  \/ EnqueueWrites \/ ProducerDies
  \/ List \/ Run \/ OpenResult \/ FillResult \/ Unlink
  \/ WorkerDies \/ WorkerStarts

\* The worker polls on; whoever deployed it starts it again.
QueueFairness ==
  /\ WF_queueVars(List) /\ WF_queueVars(\E j \in JobIds : Load(j) \/ LoadFails(j)) /\ WF_queueVars(Run)
  /\ WF_queueVars(OpenResult) /\ WF_queueVars(FillResult) /\ WF_queueVars(Unlink)
  /\ WF_queueVars(WorkerStarts) /\ WF_queueVars(EnqueueWrites)

-----------------------------------------------------------------------------
\* A job leaves the queue for its result only: whatever dies, a job that was
\* enqueued is in its directory or its whole result is in the other, and its
\* turn is run again at most once for every end of the worker.
NoJobIsLost ==
  \A j \in JobIds :
    /\ ran[j] > 0 /\ jobs[j] = "none" => results[j] = "full"
    /\ ran[j] <= 1 + workerDeaths

\* Half a job file holds up the jobs that sort behind it, and only those.
OnlyHalfAFileHoldsUpJobs ==
  \A j \in JobIds :
    <>[](\A i \in JobIds : i < j => jobs[i] # "partial")
      => (jobs[j] = "full" ~> results[j] = "full")

\* So a job that was enqueued gets its result (scaffold/daemon/src/queue).
JobsGetTheirResults == []NoJobIsLost /\ OnlyHalfAFileHoldsUpJobs
=============================================================================
