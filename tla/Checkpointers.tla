----------------------------- MODULE Checkpointers -----------------------------
(***************************************************************************)
(* The checkpoint stores: JSONFileCheckpointer (checkpoint/file.py), one   *)
(* file per key, and SQLiteCheckpointer (checkpoint/sqlite.py), one row    *)
(* per key.  An operation runs in a worker thread while its caller waits;  *)
(* a caller that is cancelled stops waiting, the thread does not stop.  A  *)
(* key has one caller at a time, as the executor uses it; cleanup is       *)
(* anybody's.  The process may die between any two steps.                  *)
(*                                                                         *)
(* A snapshot is identified by the operation that saves it.  A file is an  *)
(* inode, so that a rename does not stop a writer that holds it open.      *)
(***************************************************************************)
EXTENDS Naturals, FiniteSets

CONSTANTS
    Key,            \* (owner, checkpoint id)
    Path,           \* key -> the path JSONFileCheckpointer makes of it
    Backends,       \* the stores to look at
    MaxOps,         \* bound: operations
    Torn,           \* the contents of a file that is not all there
    NoSnapshot, NoKey, Unpromised

ASSUME StoreAssumption ==
    /\ DOMAIN Path = Key
    /\ Backends \subseteq {"file", "sqlite"}
    /\ MaxOps \in Nat
    /\ NoKey \notin Key

Op == 1..MaxOps

ASSUME SnapshotAssumption ==
    /\ NoSnapshot \notin Op
    /\ Torn \notin Op \cup {NoSnapshot}
    /\ Unpromised \notin Op \cup {NoSnapshot}

File == {Path[key] : key \in Key}

VARIABLES
    backend,
    target,         \* path -> inode of the checkpoint file, 0: none
    tmp,            \* path -> inode of its .tmp file, 0: none
    contents,       \* inode -> what is in it
    row,            \* key -> the row of the table
    job,            \* operation -> its thread
    started,        \* operations started so far
    cancelled,      \* history: keys whose caller was ever cancelled
    perhaps         \* history: key -> what load may return after what the
                    \* callers have been told
files == <<target, tmp, contents>>
history == <<cancelled, perhaps>>
vars == <<backend, files, row, job, started, history>>

(* pc: the next step of the thread.  A cleanup has directories unlisted,    *)
(* stale files todo, and is at the files it listed or is about to unlink.   *)
Job == [kind : {"none", "save", "delete", "cleanup"}, key : Key \cup {NoKey},
        pc : {"queued", "write", "replace", "unlink", "stat", "clean", "done", "raised"},
        inode : {0} \cup Op, unlisted : SUBSET File, todo : SUBSET File,
        at : SUBSET File, awaited : BOOLEAN]

NoJob == [kind |-> "none", key |-> NoKey, pc |-> "done", inode |-> 0,
          unlisted |-> File, todo |-> {}, at |-> {}, awaited |-> FALSE]

TypeOK ==
    /\ backend \in Backends
    /\ target \in [File -> {0} \cup Op]
    /\ tmp \in [File -> {0} \cup Op]
    /\ contents \in [Op -> Op \cup {Torn}]
    /\ row \in [Key -> Op \cup {NoSnapshot}]
    /\ job \in [Op -> Job]
    /\ started \in 0..MaxOps
    /\ cancelled \subseteq Key
    /\ perhaps \in [Key -> SUBSET (Op \cup {NoSnapshot})]

Init ==
    /\ backend \in Backends
    /\ target = [f \in File |-> 0]
    /\ tmp = [f \in File |-> 0]
    /\ contents = [i \in Op |-> Torn]
    /\ row = [key \in Key |-> NoSnapshot]
    /\ job = [i \in Op |-> NoJob]
    /\ started = 0
    /\ cancelled = {}
    /\ perhaps = [key \in Key |-> {NoSnapshot}]

Live(i) == job[i].pc \notin {"done", "raised"}

Waiting(key) == \E i \in Op : job[i].key = key /\ job[i].awaited

-----------------------------------------------------------------------------
(* Callers. *)

Begin(kind, key) ==
    /\ started < MaxOps
    /\ started' = started + 1
    /\ job' = [job EXCEPT ![started'] =
                 [NoJob EXCEPT !.kind = kind, !.key = key, !.pc = "queued",
                               !.awaited = TRUE]]
    /\ UNCHANGED <<backend, files, row, cancelled>>

Save(key) ==
    /\ ~Waiting(key)
    /\ Begin("save", key)
    /\ perhaps' = [perhaps EXCEPT ![key] = @ \cup {started'}]

Delete(key) ==
    /\ ~Waiting(key)
    /\ Begin("delete", key)
    /\ perhaps' = [perhaps EXCEPT ![key] = @ \cup {NoSnapshot}]

Cleanup ==
    /\ ~Waiting(NoKey)
    /\ Begin("cleanup", NoKey)
    /\ UNCHANGED perhaps

(* The caller learns that its operation is done. *)
Return(i) ==
    /\ job[i].awaited
    /\ job[i].pc = "done"
    /\ job' = [job EXCEPT ![i].awaited = FALSE]
    /\ perhaps' = CASE job[i].kind = "save"   -> [perhaps EXCEPT ![job[i].key] =
                                                    {i} \cup (@ \cap {NoSnapshot})]
                    [] job[i].kind = "delete" -> [perhaps EXCEPT ![job[i].key] = {NoSnapshot}]
                    [] OTHER                  -> perhaps
    /\ UNCHANGED <<backend, files, row, started, cancelled>>

Raise(i) ==
    /\ job[i].awaited
    /\ job[i].pc = "raised"
    /\ job' = [job EXCEPT ![i].awaited = FALSE]
    /\ UNCHANGED <<backend, files, row, started, history>>

(* A queued thread is not started any more, one that runs goes on. *)
Cancel(i) ==
    /\ job[i].awaited
    /\ job[i].kind # "cleanup"
    /\ Live(i)
    /\ \/ job' = [job EXCEPT ![i].awaited = FALSE]
       \/ /\ job[i].pc = "queued"
          /\ job' = [job EXCEPT ![i] = NoJob]
    /\ cancelled' = cancelled \cup {job[i].key}
    /\ UNCHANGED <<backend, files, row, started, perhaps>>

-----------------------------------------------------------------------------
(* JSONFileCheckpointer: the steps of a thread. *)

Goto(i, pc) == job' = [job EXCEPT ![i].pc = pc]

Thread(i, kind, pc) == backend = "file" /\ job[i].kind = kind /\ job[i].pc = pc

PathOf(i) == Path[job[i].key]

(* Mutant: the checkpoint file is written in place. *)
OpenTarget(i) ==
    /\ Thread(i, "save", "queued")
    /\ LET inode == IF target[PathOf(i)] = 0 THEN i ELSE target[PathOf(i)]
       IN  /\ target' = [target EXCEPT ![PathOf(i)] = inode]
           /\ contents' = [contents EXCEPT ![inode] = Torn]
           /\ job' = [job EXCEPT ![i].pc = "write", ![i].inode = inode]
    /\ UNCHANGED <<backend, tmp, row, started, history>>

(* Opening the temp file truncates it, also under somebody who writes it.   *)
OpenTmp(i) ==
    /\ Thread(i, "save", "queued")
    /\ LET inode == IF tmp[PathOf(i)] = 0 THEN i ELSE tmp[PathOf(i)]
       IN  /\ tmp' = [tmp EXCEPT ![PathOf(i)] = inode]
           /\ contents' = [contents EXCEPT ![inode] = Torn]
           /\ job' = [job EXCEPT ![i].pc = "write", ![i].inode = inode]
    /\ UNCHANGED <<backend, target, row, started, history>>

WriteTmp(i) ==
    /\ Thread(i, "save", "write")
    /\ \E written \in {i} \cup (IF contents[job[i].inode] = Torn THEN {} ELSE {Torn}) :
         contents' = [contents EXCEPT ![job[i].inode] = written]
    /\ Goto(i, "replace")
    /\ UNCHANGED <<backend, target, tmp, row, started, history>>

(* os.replace renames whatever the temp file is by now. *)
ReplaceTarget(i) ==
    /\ Thread(i, "save", "replace")
    /\ IF tmp[PathOf(i)] = 0
         THEN /\ Goto(i, "raised")
              /\ UNCHANGED files
         ELSE /\ target' = [target EXCEPT ![PathOf(i)] = tmp[PathOf(i)]]
              /\ tmp' = [tmp EXCEPT ![PathOf(i)] = 0]
              /\ Goto(i, "done")
              /\ UNCHANGED contents
    /\ UNCHANGED <<backend, row, started, history>>

FindFile(i) ==
    /\ Thread(i, "delete", "queued")
    /\ Goto(i, IF target[PathOf(i)] = 0 THEN "done" ELSE "unlink")
    /\ UNCHANGED <<backend, files, row, started, history>>

UnlinkFile(i) ==
    /\ Thread(i, "delete", "unlink")
    /\ target' = [target EXCEPT ![PathOf(i)] = 0]
    /\ Goto(i, IF target[PathOf(i)] = 0 THEN "raised" ELSE "done")
    /\ UNCHANGED <<backend, tmp, contents, row, started, history>>

(* cleanup goes through the owners' directories, whichever files are in     *)
(* which; a file that goes away before it is looked at raises.              *)
ListFiles(i) ==
    /\ Thread(i, "cleanup", "queued")
    /\ \E directory \in (SUBSET job[i].unlisted) \ {{}} :
         job' = [job EXCEPT ![i].pc = "stat", ![i].unlisted = @ \ directory,
                            ![i].at = {f \in directory : target[f] # 0}]
    /\ UNCHANGED <<backend, files, row, started, history>>

(* Which files are too old, or too many, is left open. *)
StatFiles(i) ==
    /\ Thread(i, "cleanup", "stat")
    /\ IF \E f \in job[i].at : target[f] = 0
         THEN Goto(i, "raised")
         ELSE \E stale \in SUBSET job[i].at :
                job' = [job EXCEPT ![i].pc = "clean", ![i].todo = stale, ![i].at = {}]
    /\ UNCHANGED <<backend, files, row, started, history>>

FindStale(i) ==
    /\ Thread(i, "cleanup", "clean")
    /\ \E f \in job[i].todo :
         job' = IF target[f] = 0
                  THEN [job EXCEPT ![i].todo = @ \ {f}]
                  ELSE [job EXCEPT ![i].pc = "unlink", ![i].at = {f},
                                   ![i].todo = @ \ {f}]
    /\ UNCHANGED <<backend, files, row, started, history>>

UnlinkStale(i) ==
    /\ Thread(i, "cleanup", "unlink")
    /\ \E f \in job[i].at :
         /\ target' = [target EXCEPT ![f] = 0]
         /\ job' = [job EXCEPT ![i].pc = IF target[f] = 0 THEN "raised" ELSE "clean",
                               ![i].at = {}]
         /\ perhaps' = [key \in Key |-> IF Path[key] = f
                          THEN perhaps[key] \cup {NoSnapshot} ELSE perhaps[key]]
    /\ UNCHANGED <<backend, tmp, contents, row, started, cancelled>>

CleanupEnds(i) ==
    /\ Thread(i, "cleanup", "clean")
    /\ job[i].todo = {}
    /\ Goto(i, IF job[i].unlisted = {} THEN "done" ELSE "queued")
    /\ UNCHANGED <<backend, files, row, started, history>>

-----------------------------------------------------------------------------
(* SQLiteCheckpointer: a transaction under the lock. *)
Transaction(i) ==
    /\ backend = "sqlite"
    /\ job[i].pc = "queued"
    /\ CASE job[i].kind = "save" ->
              /\ row' = [row EXCEPT ![job[i].key] = i]
              /\ UNCHANGED perhaps
         [] job[i].kind = "delete" ->
              /\ row' = [row EXCEPT ![job[i].key] = NoSnapshot]
              /\ UNCHANGED perhaps
         [] job[i].kind = "cleanup" ->
              \E stale \in SUBSET Key :
                /\ row' = [key \in Key |-> IF key \in stale THEN NoSnapshot ELSE row[key]]
                /\ perhaps' = [key \in Key |-> IF key \in stale
                                 THEN perhaps[key] \cup {NoSnapshot} ELSE perhaps[key]]
    /\ Goto(i, "done")
    /\ UNCHANGED <<backend, files, started, cancelled>>

(* The process dies with its threads. *)
Crash ==
    /\ \E i \in Op : Live(i) \/ job[i].awaited
    /\ job' = [i \in Op |-> NoJob]
    /\ UNCHANGED <<backend, files, row, started, history>>

Next ==
    \/ \E key \in Key : Save(key) \/ Delete(key)
    \/ Cleanup
    \/ \E i \in Op :
         \/ Return(i) \/ Raise(i) \/ Cancel(i)
         \/ OpenTmp(i) \/ WriteTmp(i) \/ ReplaceTarget(i)
         \/ FindFile(i) \/ UnlinkFile(i)
         \/ ListFiles(i) \/ StatFiles(i) \/ FindStale(i) \/ UnlinkStale(i) \/ CleanupEnds(i)
         \/ Transaction(i)
    \/ Crash

Spec == Init /\ [][Next]_vars

-----------------------------------------------------------------------------
(* Properties. *)

(* What load returns for the key; Torn: json.loads raises. *)
Loaded(key) ==
    IF backend = "sqlite" THEN row[key]
    ELSE IF target[Path[key]] = 0 THEN NoSnapshot
    ELSE contents[target[Path[key]]]

(* Keys that share their path with another. *)
Colliding == {key \in Key : \E other \in Key \ {key} : Path[other] = Path[key]}

(* A caller that is cancelled during a save leaves behind a thread that     *)
(* still writes and renames the one temp file of the key.                   *)
Outside == IF backend = "file" THEN Colliding \cup cancelled ELSE {}

Promised == [key \in Key |-> IF key \in Outside THEN Unpromised ELSE Loaded(key)]

Register == INSTANCE CheckpointRegister WITH Snapshot <- Op, record <- Promised

(* A caller that was told that its operation is done finds its outcome,     *)
(* however many crashes, restarts and cancelled operations follow, until    *)
(* another operation on the key begins.  (A save whose caller was cancelled *)
(* may still be on its way.)                                                *)
AcknowledgedIsDurable ==
    \A key \in Key \ (Outside \cup cancelled) : Loaded(key) \in perhaps[key]

(* The stores keep the promise of Checkpointer: a crash, another caller's   *)
(* operation or a cleanup in between never leaves a part of a snapshot, a   *)
(* mixture of two, or the snapshot of another key.                          *)
ImplementsRegister == Register!Spec

\* A store replaces snapshots as a whole, and keeps what it has told it kept.
StoresKeepTheirPromise == ImplementsRegister /\ [][AcknowledgedIsDurable']_vars

===============================================================================
