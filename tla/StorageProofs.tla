----------------------------- MODULE StorageProofs -----------------------------
(***************************************************************************)
(* Proofs about what is kept of a run.  For every set of keys and paths    *)
(* and any number of operations, the checkpoint stores implement the       *)
(* register of snapshots that the executor relies on, and keep what they   *)
(* have told their callers they kept.  For any number of steps, turns,     *)
(* edits and crashes, the history of an id tells what the id did.          *)
(***************************************************************************)
EXTENDS Checkpointers, StateHistory, TLAPS

(* The keys whose callers were never cancelled, and in files, that have a   *)
(* path of their own.                                                       *)
Quiet == Key \ (Outside \cup cancelled)

JobIsSound(i) ==
    /\ (Live(i) \/ job[i].awaited) => job[i].kind # "none"
    /\ job[i].kind \in {"save", "delete"} => job[i].key \in Key
    /\ job[i].kind \in {"none", "cleanup"} => job[i].key = NoKey
    /\ i > started => job[i] = NoJob
    /\ (Live(i) /\ job[i].key \in Key \ cancelled) => job[i].awaited

(* A key has one caller at a time, and an operation of a quiet key is       *)
(* awaited as long as it runs.                                              *)
JobsAreSound ==
    /\ \A i \in Op : JobIsSound(i)
    /\ \A i, j \in Op :
          (job[i].awaited /\ job[j].awaited /\ job[i].key = job[j].key) => i = j

QueuedSave(i) == job[i].kind = "save" /\ job[i].pc = "queued"

Saves(i, f) == job[i].kind = "save" /\ PathOf(i) = f

(* An inode is used under one path, and an operation makes its own when it  *)
(* opens the temp file.                                                     *)
Uses(f, n) ==
    n = target[f] \/ n = tmp[f] \/ \E i \in Op : Saves(i, f) /\ job[i].inode = n

InodesHaveOnePath ==
    \A f \in File : \A n \in Op :
        Uses(f, n) => /\ n <= started
                      /\ ~QueuedSave(n)
                      /\ \A g \in File : Uses(g, n) => g = f

(* What the thread of a save has done so far to the temp file. *)
TmpIsOf(i) ==
    LET inode == tmp[PathOf(i)]
    IN  /\ job[i].pc \in {"write", "replace"} => inode # 0 /\ job[i].inode = inode
        /\ job[i].pc = "write" => contents[inode] = Torn
        /\ job[i].pc = "replace" => contents[inode] = i

(* The file of a quiet key is not the one that is being written. *)
FileIsWhole(key) ==
    backend = "file" =>
        /\ target[Path[key]] # 0 => target[Path[key]] # tmp[Path[key]]
        /\ \A i \in Op : (job[i].kind = "save" /\ job[i].key = key) => TmpIsOf(i)

(* What an operation on its way may make of a key, and what it has made of  *)
(* it when its caller has not heard yet.                                    *)
OutcomeIsPossible(i, key) ==
    /\ (job[i].kind = "save" /\ Live(i)) => i \in perhaps[key]
    /\ (job[i].kind = "delete" /\ Live(i)) => NoSnapshot \in perhaps[key]
    /\ (job[i].awaited /\ job[i].pc = "done") =>
          /\ job[i].kind = "save" => Loaded(key) \in {i, NoSnapshot}
          /\ job[i].kind = "delete" => Loaded(key) = NoSnapshot

PromiseIsKept(key) ==
    /\ Loaded(key) \in perhaps[key]
    /\ \A i \in Op : job[i].key = key => OutcomeIsPossible(i, key)

QuietKeysAreSound == \A key \in Quiet : FileIsWhole(key) /\ PromiseIsKept(key)

StoreInv == TypeOK /\ JobsAreSound /\ InodesHaveOnePath /\ QuietKeysAreSound

-----------------------------------------------------------------------------
(* What the actions have in common. *)

LEMMA StoreFacts ==
    ASSUME TypeOK, NEW i \in Op
    PROVE  /\ job[i] \in Job
           /\ i \in Nat /\ i # 0 /\ i <= MaxOps /\ MaxOps \in Nat
           /\ job[i].key \in Key => PathOf(i) \in File
           /\ NoJob \in Job
BY StoreAssumption DEF TypeOK, Job, NoJob, Op, File, PathOf

(* A thread that takes a step, or is told of, keeps its operation.          *)
LEMMA JobStep ==
    ASSUME StoreInv, NEW i \in Op, job[i].kind # "none",
           job' \in [Op -> Job], \A j \in Op \ {i} : job'[j] = job[j],
           job'[i].kind = job[i].kind, job'[i].key = job[i].key,
           Live(i)' => Live(i), job'[i].awaited => job[i].awaited,
           (Live(i)' /\ ~job'[i].awaited /\ job[i].key \in Key) => 
               ~job[i].awaited \/ job[i].key \in cancelled',
           started' = started, cancelled \subseteq cancelled'
    PROVE  JobsAreSound'
<1>1. ASSUME NEW j \in Op PROVE JobIsSound(j)'
  <2>1. JobIsSound(j)
    BY DEF StoreInv, JobsAreSound
  <2>2. CASE j # i
    BY <2>1, <2>2 DEF JobIsSound, Live
  <2>3. CASE j = i
    BY <2>1, <2>3 DEF JobIsSound, NoJob
  <2> QED
    BY <2>2, <2>3
<1>2. ASSUME NEW j \in Op, NEW k \in Op, job'[j].awaited, job'[k].awaited, 
             job'[j].key = job'[k].key
      PROVE  j = k
  <2>1. job[j].awaited /\ job[k].awaited /\ job[j].key = job[k].key
    BY <1>2
  <2> QED
    BY <2>1 DEF StoreInv, JobsAreSound
<1> QED
  BY <1>1, <1>2 DEF JobsAreSound

(* A step that brings no inode under a path.                                *)
LEMMA InodesStay ==
    ASSUME StoreInv, started' = started,
           \A f \in File : \A n \in Op : Uses(f, n)' => Uses(f, n),
           \A n \in Op : QueuedSave(n)' => QueuedSave(n)
    PROVE  InodesHaveOnePath'
BY DEF StoreInv, InodesHaveOnePath

(* A step of a thread that leaves the files alone.                          *)
LEMMA InodesStayWithFiles ==
    ASSUME StoreInv, NEW i \in Op, started' = started,
           target' = target, tmp' = tmp, \A j \in Op \ {i} : job'[j] = job[j],
           job'[i].kind = job[i].kind, job'[i].key = job[i].key,
           job'[i].inode = job[i].inode,
           job'[i].kind = "save" => (job'[i].pc # "queued" \/ job[i].pc = "queued")
    PROVE  InodesHaveOnePath'
<1>1. ASSUME NEW f \in File, NEW n \in Op, Uses(f, n)' PROVE Uses(f, n)
  <2>1. \A j \in Op : Saves(j, f)' => Saves(j, f) /\ job'[j].inode = job[j].inode
    BY DEF Saves, PathOf
  <2> QED
    BY <1>1, <2>1 DEF Uses
<1>2. \A n \in Op : QueuedSave(n)' => QueuedSave(n)
  BY DEF QueuedSave
<1> QED
  BY <1>1, <1>2, InodesStay

(* What a quiet key has to itself. *)
LEMMA QuietFacts ==
    ASSUME StoreInv, NEW key \in Quiet
    PROVE  /\ key \in Key /\ key \notin cancelled /\ key \notin Outside
           /\ Path[key] \in File
           /\ FileIsWhole(key) /\ PromiseIsKept(key)
           /\ \A i \in Op : (backend = "file" /\ job[i].key \in Key /\ job[i].key # key) =>
                 PathOf(i) # Path[key]
           /\ \A i \in Op : (job[i].key = key /\ Live(i)) => job[i].awaited
           /\ \A i, j \in Op :
                 (i # j /\ job[i].key = key /\ job[i].awaited /\ job[j].key = key) =>
                    ~Live(j) /\ ~job[j].awaited
<1>1. key \in Key /\ key \notin cancelled /\ key \notin Outside
  BY DEF Quiet
<1>2. Path[key] \in File
  BY <1>1 DEF File
<1>3. FileIsWhole(key) /\ PromiseIsKept(key)
  BY DEF StoreInv, QuietKeysAreSound
<1>4. \A i \in Op : (backend = "file" /\ job[i].key \in Key /\ job[i].key # key) =>
                       PathOf(i) # Path[key]
  BY <1>1 DEF Outside, Colliding, PathOf
<1>5. \A i \in Op : (job[i].key = key /\ Live(i)) => job[i].awaited
  BY <1>1 DEF StoreInv, JobsAreSound, JobIsSound
<1>6. \A i, j \in Op : (i # j /\ job[i].key = key /\ job[i].awaited /\ job[j].key = key) =>
                          ~Live(j) /\ ~job[j].awaited
  BY <1>5 DEF StoreInv, JobsAreSound
<1> QED
  BY <1>1, <1>2, <1>3, <1>4, <1>5, <1>6

(* An operation acts on its own key, which is quiet: no other operation of  *)
(* the key is on its way or waited for.                                     *)
LEMMA OwnStep ==
    ASSUME StoreInv, NEW key \in Quiet, NEW i \in Op,
           job[i].key = key, Live(i) \/ job[i].awaited,
           \A j \in Op \ {i} : job'[j] = job[j], backend' = backend,
           (backend = "file" /\ target'[Path[key]] # 0) =>
              target'[Path[key]] # tmp'[Path[key]],
           Loaded(key)' \in perhaps'[key],
           (backend = "file" /\ job'[i].kind = "save" /\ job'[i].key = key) => TmpIsOf(i)',
           job'[i].key = key => OutcomeIsPossible(i, key)'
    PROVE  FileIsWhole(key)' /\ PromiseIsKept(key)'
<1>1. ASSUME NEW j \in Op, j # i, job'[j].key = key
      PROVE  /\ job'[j].pc \in {"done", "raised"}
             /\ ~job'[j].awaited
  BY <1>1, QuietFacts DEF Live
<1>2. FileIsWhole(key)'
  BY <1>1 DEF FileIsWhole, TmpIsOf
<1>3. PromiseIsKept(key)'
  BY <1>1 DEF PromiseIsKept, OutcomeIsPossible, Live
<1> QED
  BY <1>2, <1>3

(* Somebody else's step: at most a cleanup removes the snapshot.            *)
LEMMA OthersStep ==
    ASSUME StoreInv, NEW key \in Quiet, backend' = backend,
           \A j \in Op : job'[j].key = key => job'[j] = job[j],
           tmp'[Path[key]] = tmp[Path[key]],
           target'[Path[key]] \in {target[Path[key]], 0},
           backend = "file" /\ tmp[Path[key]] # 0 =>
              contents'[tmp[Path[key]]] = contents[tmp[Path[key]]],
           Loaded(key)' \in {Loaded(key), NoSnapshot},
           Loaded(key)' \in perhaps'[key], perhaps[key] \subseteq perhaps'[key]
    PROVE  FileIsWhole(key)' /\ PromiseIsKept(key)'
<1>1. FileIsWhole(key)'
  <2>1. FileIsWhole(key)
    BY QuietFacts
  <2>2. ASSUME NEW j \in Op, backend = "file", job'[j].kind = "save", job'[j].key = key
        PROVE  TmpIsOf(j)'
    <3>1. job'[j] = job[j] /\ TmpIsOf(j)
      BY <2>1, <2>2 DEF FileIsWhole
    <3>2. PathOf(j) = Path[key] /\ PathOf(j)' = Path[key]
      BY <2>2, <3>1 DEF PathOf
    <3> QED
      BY <2>2, <3>1, <3>2 DEF TmpIsOf
  <2> QED
    BY <2>1, <2>2 DEF FileIsWhole
<1>2. PromiseIsKept(key)'
  <2>1. PromiseIsKept(key)
    BY QuietFacts
  <2>2. ASSUME NEW j \in Op, job'[j].key = key PROVE OutcomeIsPossible(j, key)'
    <3>1. job'[j] = job[j] /\ OutcomeIsPossible(j, key)
      BY <2>1, <2>2 DEF PromiseIsKept
    <3> QED
      BY <3>1 DEF OutcomeIsPossible, Live
  <2> QED
    BY <2>2 DEF PromiseIsKept
<1> QED
  BY <1>1, <1>2

(* The same where the files and the table stay as they are, and callers     *)
(* are told no less.                                                        *)
LEMMA NothingMoves ==
    ASSUME StoreInv, backend' = backend, target' = target, tmp' = tmp,
           contents' = contents, row' = row, NEW key \in Quiet,
           perhaps[key] \subseteq perhaps'[key],
           \A j \in Op : job'[j].key = key => 
              \/ job'[j] = job[j]
              \/ (job'[j].kind = "save" => TmpIsOf(j)') /\ OutcomeIsPossible(j, key)'
    PROVE  FileIsWhole(key)' /\ PromiseIsKept(key)'
<1>1. Loaded(key)' = Loaded(key)
  BY DEF Loaded
<1>2. FileIsWhole(key) /\ PromiseIsKept(key)
  BY QuietFacts
<1>3. FileIsWhole(key)'
  <2>1. ASSUME NEW j \in Op, backend = "file", job'[j].kind = "save", job'[j].key = key,
               job'[j] = job[j]
        PROVE  TmpIsOf(j)'
    <3>1. TmpIsOf(j)
      BY <1>2, <2>1 DEF FileIsWhole
    <3> QED
      BY <2>1, <3>1 DEF TmpIsOf, PathOf
  <2> QED
    BY <1>2, <2>1 DEF FileIsWhole
<1>4. PromiseIsKept(key)'
  <2>1. ASSUME NEW j \in Op, job'[j].key = key, job'[j] = job[j]
        PROVE  OutcomeIsPossible(j, key)'
    <3>1. OutcomeIsPossible(j, key)
      BY <1>2, <2>1 DEF PromiseIsKept
    <3> QED
      BY <1>1, <2>1, <3>1 DEF OutcomeIsPossible, Live
  <2> QED
    BY <1>1, <1>2, <2>1 DEF PromiseIsKept
<1> QED
  BY <1>3, <1>4

LEMMA QuietStays ==
    ASSUME backend' = backend, cancelled \subseteq cancelled'
    PROVE  Quiet' \subseteq Quiet
BY DEF Quiet, Outside, Colliding

(* The register stutters as long as no snapshot changes that it promises.   *)
LEMMA RegisterStutters ==
    ASSUME backend' = backend, cancelled' = cancelled,
           \A key \in Key \ Outside : Loaded(key)' = Loaded(key)
    PROVE  Promised' = Promised
<1>1. Outside' = Outside
  BY DEF Outside, Colliding
<1> QED
  BY <1>1 DEF Promised

-----------------------------------------------------------------------------
(* The invariant, and the step of the register, action by action. *)

StoreStep == StoreInv' /\ [Register!Next]_Promised

LEMMA StoreInitInv == Init => StoreInv /\ Register!Init
<1> SUFFICES ASSUME Init PROVE StoreInv /\ Register!Init
  OBVIOUS
<1>1. TypeOK
  BY StoreAssumption DEF Init, TypeOK, Job, NoJob, Op
<1>2. JobsAreSound
  BY StoreAssumption DEF Init, JobsAreSound, JobIsSound, Live, NoJob
<1>3. InodesHaveOnePath
  BY StoreAssumption DEF Init, InodesHaveOnePath, Uses, Saves, NoJob, Op
<1>4. \A key \in Key : Loaded(key) = NoSnapshot
  BY DEF Init, Loaded, File
<1>5. QuietKeysAreSound
  <2> SUFFICES ASSUME NEW key \in Quiet PROVE FileIsWhole(key) /\ PromiseIsKept(key)
    BY DEF QuietKeysAreSound
  <2>1. key \in Key /\ Path[key] \in File /\ key # NoKey
    BY StoreAssumption DEF Quiet, File
  <2> QED
    BY <1>4, <2>1 DEF Init, FileIsWhole, PromiseIsKept, NoJob
<1>6. Register!Init
  BY <1>4 DEF Register!Init, Promised
<1> QED
  BY <1>1, <1>2, <1>3, <1>5, <1>6 DEF StoreInv

(* Callers. *)
LEMMA BeginInv ==
    ASSUME StoreInv, NEW kind \in {"save", "delete", "cleanup"}, NEW key \in Key \cup {NoKey},
           kind = "cleanup" <=> key = NoKey, ~Waiting(key), Begin(kind, key),
           perhaps' \in [Key -> SUBSET (Op \cup {NoSnapshot})],
           \A k \in Key : perhaps[k] \subseteq perhaps'[k],
           kind = "save" => started' \in perhaps'[key],
           kind = "delete" => NoSnapshot \in perhaps'[key]
    PROVE  StoreStep
<1> DEFINE new == [NoJob EXCEPT !.kind = kind, !.key = key, !.pc = "queued", !.awaited = TRUE]
<1>1. /\ backend' = backend /\ target' = target /\ tmp' = tmp /\ contents' = contents
      /\ row' = row /\ cancelled' = cancelled /\ started' = started + 1
      /\ started \in 0..MaxOps /\ started < MaxOps
  BY DEF Begin, files, StoreInv, TypeOK
<1>2. started' \in Op /\ started \in Nat /\ started' > started
  BY <1>1, StoreAssumption DEF Op
<1>3. /\ job' = [job EXCEPT ![started'] = new]
      /\ new \in Job /\ new.kind = kind /\ new.key = key /\ new.pc = "queued"
      /\ new.awaited /\ new.inode = 0
  BY DEF Begin, Job, NoJob
<1> HIDE DEF new
<1>4. /\ job'[started'] = new /\ job[started'] = NoJob
      /\ \A i \in Op \ {started'} : job'[i] = job[i]
  BY <1>2, <1>3 DEF StoreInv, TypeOK, JobsAreSound, JobIsSound
<1>5. TypeOK'
  BY <1>1, <1>2, <1>3 DEF StoreInv, TypeOK, Op
<1>6. JobsAreSound'
  <2>1. ASSUME NEW i \in Op PROVE JobIsSound(i)'
    <3>1. CASE i = started'
      BY <1>1, <1>2, <1>3, <1>4, <3>1, StoreAssumption DEF JobIsSound
    <3>2. CASE i # started'
      <4>1. JobIsSound(i) /\ job'[i] = job[i]
        BY <1>4, <3>2 DEF StoreInv, JobsAreSound
      <4> QED
        BY <1>1, <1>2, <4>1 DEF JobIsSound, Live, Op
    <3> QED
      BY <3>1, <3>2
  <2>2. \A i \in Op \ {started'} : job'[i].awaited => job'[i].key # key
    BY <1>4 DEF Waiting
  <2>3. ASSUME NEW i \in Op, NEW j \in Op, job'[i].awaited, job'[j].awaited,
               job'[i].key = job'[j].key
        PROVE  i = j
    BY <1>3, <1>4, <2>2, <2>3 DEF StoreInv, JobsAreSound
  <2> QED
    BY <2>1, <2>3 DEF JobsAreSound
<1>7. InodesHaveOnePath'
  <2>1. ASSUME NEW f \in File, NEW n \in Op, Uses(f, n)' PROVE Uses(f, n)
    <3>1. \A i \in Op \ {started'} : Saves(i, f)' => Saves(i, f)
      BY <1>4 DEF Saves, PathOf
    <3>2. n # 0
      BY DEF Op
    <3> QED
      BY <1>1, <1>3, <1>4, <2>1, <3>1, <3>2 DEF Uses
  <2>2. ASSUME NEW f \in File, NEW n \in Op, Uses(f, n)'
        PROVE  /\ n <= started' /\ ~QueuedSave(n)'
               /\ \A g \in File : Uses(g, n)' => g = f
    <3>1. Uses(f, n)
      BY <2>1, <2>2
    <3>2. n <= started /\ ~QueuedSave(n) /\ \A g \in File : Uses(g, n) => g = f
      BY <3>1 DEF StoreInv, InodesHaveOnePath
    <3>3. n # started'
      BY <1>1, <1>2, <3>2 DEF Op
    <3>4. ~QueuedSave(n)'
      BY <1>4, <3>2, <3>3 DEF QueuedSave
    <3>5. n <= started'
      BY <1>1, <1>2, <3>2 DEF Op
    <3> QED
      BY <2>1, <3>2, <3>4, <3>5
  <2> QED
    BY <2>2 DEF InodesHaveOnePath
<1>8. QuietKeysAreSound'
  <2> SUFFICES ASSUME NEW k \in Quiet' PROVE FileIsWhole(k)' /\ PromiseIsKept(k)'
    BY DEF QuietKeysAreSound
  <2>1. k \in Quiet /\ k \in Key
    BY <1>1, QuietStays DEF Quiet
  <2>2. ASSUME NEW i \in Op, job'[i].key = k, job'[i] # job[i]
        PROVE  (job'[i].kind = "save" => TmpIsOf(i)') /\ OutcomeIsPossible(i, k)'
    BY <1>3, <1>4, <2>2 DEF TmpIsOf, OutcomeIsPossible, Live
  <2> QED
    BY <1>1, <2>1, <2>2, NothingMoves
<1>9. Promised' = Promised
  BY <1>1, RegisterStutters DEF Loaded
<1> QED
  BY <1>5, <1>6, <1>7, <1>8, <1>9 DEF StoreStep, StoreInv

LEMMA SaveInv == ASSUME StoreInv, NEW key \in Key, Save(key) PROVE StoreStep
<1>1. started' \in Op /\ perhaps \in [Key -> SUBSET (Op \cup {NoSnapshot})]
  BY StoreAssumption DEF Save, Begin, StoreInv, TypeOK, Op
<1>2. perhaps' = [perhaps EXCEPT ![key] = @ \cup {started'}]
  BY DEF Save
<1>3. /\ perhaps' \in [Key -> SUBSET (Op \cup {NoSnapshot})]
      /\ \A k \in Key : perhaps[k] \subseteq perhaps'[k]
      /\ started' \in perhaps'[key]
  BY <1>1, <1>2
<1> QED
  BY <1>3, BeginInv, StoreAssumption DEF Save

LEMMA DeleteInv == ASSUME StoreInv, NEW key \in Key, Delete(key) PROVE StoreStep
<1>1. perhaps \in [Key -> SUBSET (Op \cup {NoSnapshot})]
  BY DEF StoreInv, TypeOK
<1>2. perhaps' = [perhaps EXCEPT ![key] = @ \cup {NoSnapshot}]
  BY DEF Delete
<1>3. /\ perhaps' \in [Key -> SUBSET (Op \cup {NoSnapshot})]
      /\ \A k \in Key : perhaps[k] \subseteq perhaps'[k]
      /\ NoSnapshot \in perhaps'[key]
  BY <1>1, <1>2
<1> QED
  BY <1>3, BeginInv, StoreAssumption DEF Delete

LEMMA CleanupInv == ASSUME StoreInv, Cleanup PROVE StoreStep
BY BeginInv DEF Cleanup, StoreInv, TypeOK

(* A caller that no longer waits. *)
LEMMA CallerLeaves ==
    ASSUME job \in [Op -> Job], NEW i \in Op, job' = [job EXCEPT ![i].awaited = FALSE]
    PROVE  /\ job' \in [Op -> Job]
           /\ \A j \in Op \ {i} : job'[j] = job[j]
           /\ job'[i].kind = job[i].kind /\ job'[i].key = job[i].key
           /\ job'[i].pc = job[i].pc /\ job'[i].inode = job[i].inode
           /\ ~job'[i].awaited
<1>1. job'[i] = [job[i] EXCEPT !.awaited = FALSE] /\ \A j \in Op \ {i} : job'[j] = job[j]
  OBVIOUS
<1>2. job[i] \in Job
  OBVIOUS
<1>3. [job[i] EXCEPT !.awaited = FALSE] \in Job
  BY <1>2 DEF Job
<1>4. job' \in [Op -> Job]
  BY <1>3
<1>5. /\ job'[i].kind = job[i].kind /\ job'[i].key = job[i].key
      /\ job'[i].pc = job[i].pc /\ job'[i].inode = job[i].inode
  BY <1>1, <1>2 DEF Job
<1>6. ~job'[i].awaited
  <2>1. job'[i].awaited = FALSE
    BY <1>1, <1>2 DEF Job
  <2> QED
    BY <2>1
<1> QED
  BY <1>1, <1>4, <1>5, <1>6

(* A caller that is told the outcome of its operation. *)
LEMMA ReturnInv == ASSUME StoreInv, NEW i \in Op, Return(i) PROVE StoreStep
<1>1. /\ backend' = backend /\ target' = target /\ tmp' = tmp /\ contents' = contents
      /\ row' = row /\ cancelled' = cancelled /\ started' = started
      /\ job[i].awaited /\ job[i].pc = "done"
      /\ job' = [job EXCEPT ![i].awaited = FALSE]
  BY DEF Return, files
<1>2. job \in [Op -> Job] /\ perhaps \in [Key -> SUBSET (Op \cup {NoSnapshot})]
  BY DEF StoreInv, TypeOK
<1>3. JobIsSound(i)
  BY DEF StoreInv, JobsAreSound
<1>4. /\ job' \in [Op -> Job] /\ \A j \in Op \ {i} : job'[j] = job[j]
      /\ job'[i].kind = job[i].kind /\ job'[i].key = job[i].key
      /\ job'[i].pc = "done" /\ job'[i].inode = job[i].inode /\ ~job'[i].awaited
  BY <1>1, <1>2, CallerLeaves
<1>5. job[i].kind \in {"save", "delete", "cleanup"}
  BY <1>1, <1>2, <1>3 DEF JobIsSound, Job
<1>6. ASSUME NEW key \in Key
      PROVE  /\ perhaps'[key] \in SUBSET (Op \cup {NoSnapshot})
             /\ job[i].key # key => perhaps'[key] = perhaps[key]
             /\ (job[i].key = key /\ job[i].kind = "save") =>
                   perhaps'[key] = {i} \cup (perhaps[key] \cap {NoSnapshot})
             /\ (job[i].key = key /\ job[i].kind = "delete") => perhaps'[key] = {NoSnapshot}
  <2>1. CASE job[i].kind = "save"
    BY <1>2, <2>1 DEF Return
  <2>2. CASE job[i].kind = "delete"
    BY <1>2, <2>2 DEF Return
  <2>3. CASE job[i].kind = "cleanup"
    <3>1. job[i].key # key /\ perhaps' = perhaps
      BY <1>3, <2>3, StoreAssumption DEF Return, JobIsSound
    <3> QED
      BY <1>2, <2>3, <3>1
  <2> QED
    BY <1>5, <2>1, <2>2, <2>3
<1>7. DOMAIN perhaps' = Key
  BY <1>2 DEF Return
<1>8. perhaps' = [key \in Key |-> perhaps'[key]]
  <2>1. CASE job[i].kind = "save"
    BY <1>2, <2>1 DEF Return
  <2>2. CASE job[i].kind = "delete"
    BY <1>2, <2>2 DEF Return
  <2>3. CASE job[i].kind = "cleanup"
    BY <1>2, <2>3 DEF Return
  <2> QED
    BY <1>5, <2>1, <2>2, <2>3
<1>9. TypeOK'
  <2>1. perhaps' \in [Key -> SUBSET (Op \cup {NoSnapshot})]
    BY <1>6, <1>8
  <2> QED
    BY <1>1, <1>4, <2>1 DEF StoreInv, TypeOK
<1>10. JobsAreSound'
  BY <1>1, <1>4, <1>5, JobStep DEF Live
<1>11. InodesHaveOnePath'
  BY <1>1, <1>4, InodesStayWithFiles
<1>12. QuietKeysAreSound'
  <2> SUFFICES ASSUME NEW key \in Quiet' PROVE FileIsWhole(key)' /\ PromiseIsKept(key)'
    BY DEF QuietKeysAreSound
  <2>1. key \in Quiet /\ key \in Key
    BY <1>1, QuietStays DEF Quiet
  <2>2. Loaded(key)' = Loaded(key) /\ Loaded(key) \in perhaps[key]
    BY <1>1, <2>1, QuietFacts DEF Loaded, PromiseIsKept
  <2>3. CASE job[i].key # key
    BY <1>1, <1>4, <1>6, <2>1, <2>3, NothingMoves
  <2>4. CASE job[i].key = key
    <3>1. OutcomeIsPossible(i, key)
      BY <2>1, <2>4, QuietFacts DEF PromiseIsKept
    <3>2. Loaded(key)' \in perhaps'[key]
      BY <1>1, <1>3, <1>5, <1>6, <2>1, <2>2, <2>4, <3>1, StoreAssumption
      DEF OutcomeIsPossible, JobIsSound
    <3>3. OutcomeIsPossible(i, key)'
      BY <1>4 DEF OutcomeIsPossible, Live
    <3>4. TmpIsOf(i)'
      BY <1>4 DEF TmpIsOf
    <3>5. (backend = "file" /\ target'[Path[key]] # 0) => target'[Path[key]] # tmp'[Path[key]]
      BY <1>1, <2>1, QuietFacts DEF FileIsWhole
    <3> QED
      BY <1>1, <1>4, <2>1, <2>4, <3>2, <3>3, <3>4, <3>5, OwnStep
  <2> QED
    BY <2>3, <2>4
<1>13. Promised' = Promised
  BY <1>1, RegisterStutters DEF Loaded
<1> QED
  BY <1>9, <1>10, <1>11, <1>12, <1>13 DEF StoreStep, StoreInv

(* A step of a thread, or of its caller, that touches no file and no row.   *)
LEMMA JobOnlyInv ==
    ASSUME StoreInv, NEW i \in Op, job[i].kind # "none",
           job' \in [Op -> Job], \A j \in Op \ {i} : job'[j] = job[j],
           job'[i].kind = job[i].kind, job'[i].key = job[i].key,
           job'[i].inode = job[i].inode, Live(i)' => Live(i),
           job'[i].kind = "save" => (job'[i].pc # "queued" \/ job[i].pc = "queued"),
           job'[i].awaited = job[i].awaited \/ ~Live(i),
           job'[i].awaited => job[i].awaited,
           backend' = backend, target' = target, tmp' = tmp, contents' = contents,
           row' = row, started' = started, cancelled' = cancelled, perhaps' = perhaps,
           job[i].key \in Quiet =>
              (job'[i].kind = "save" => TmpIsOf(i)') /\ OutcomeIsPossible(i, job[i].key)'
    PROVE  StoreStep
<1>1. TypeOK'
  BY DEF StoreInv, TypeOK
<1>2. JobsAreSound'
  <2>1. (Live(i)' /\ ~job'[i].awaited /\ job[i].key \in Key) => 
           ~job[i].awaited \/ job[i].key \in cancelled'
    OBVIOUS
  <2> QED
    BY <2>1, JobStep
<1>3. InodesHaveOnePath'
  BY InodesStayWithFiles
<1>4. QuietKeysAreSound'
  <2> SUFFICES ASSUME NEW key \in Quiet' PROVE FileIsWhole(key)' /\ PromiseIsKept(key)'
    BY DEF QuietKeysAreSound
  <2>1. key \in Quiet
    BY QuietStays
  <2> QED
    BY <2>1, NothingMoves
<1>5. Promised' = Promised
  BY RegisterStutters DEF Loaded
<1> QED
  BY <1>1, <1>2, <1>3, <1>4, <1>5 DEF StoreStep, StoreInv

LEMMA RaiseInv == ASSUME StoreInv, NEW i \in Op, Raise(i) PROVE StoreStep
<1>1. job \in [Op -> Job] /\ JobIsSound(i)
  BY DEF StoreInv, TypeOK, JobsAreSound
<1>2. /\ job' \in [Op -> Job] /\ \A j \in Op \ {i} : job'[j] = job[j]
      /\ job'[i].kind = job[i].kind /\ job'[i].key = job[i].key
      /\ job'[i].pc = "raised" /\ job[i].pc = "raised" /\ job'[i].inode = job[i].inode
      /\ job[i].awaited /\ ~job'[i].awaited
  BY <1>1, CallerLeaves DEF Raise
<1>3. ~Live(i) /\ ~Live(i)' /\ job[i].kind # "none"
  BY <1>1, <1>2 DEF Live, JobIsSound
<1>4. TmpIsOf(i)' /\ OutcomeIsPossible(i, job[i].key)'
  BY <1>2 DEF TmpIsOf, OutcomeIsPossible, Live
<1> QED
  BY <1>2, <1>3, <1>4, JobOnlyInv DEF Raise, files, history

(* Deletes that find nothing, and cleanups that look around. *)
LEMMA FindFileInv == ASSUME StoreInv, NEW i \in Op, FindFile(i) PROVE StoreStep
<1>1. job \in [Op -> Job] /\ JobIsSound(i)
  BY DEF StoreInv, TypeOK, JobsAreSound
<1> DEFINE pc == IF target[PathOf(i)] = 0 THEN "done" ELSE "unlink"
<1>2. /\ backend = "file" /\ job[i].kind = "delete" /\ job[i].pc = "queued"
      /\ job' = [job EXCEPT ![i].pc = pc]
  BY DEF FindFile, Thread, Goto
<1>3. /\ job' \in [Op -> Job] /\ \A j \in Op \ {i} : job'[j] = job[j]
      /\ job'[i].kind = job[i].kind /\ job'[i].key = job[i].key
      /\ job'[i].pc = pc /\ job'[i].inode = job[i].inode
      /\ job'[i].awaited = job[i].awaited
  BY <1>1, <1>2 DEF Job
<1>4. Live(i)
  BY <1>2 DEF Live
<1>5. ASSUME job[i].key \in Quiet PROVE OutcomeIsPossible(i, job[i].key)'
  <2>1. OutcomeIsPossible(i, job[i].key)
    BY <1>5, QuietFacts DEF PromiseIsKept
  <2>2. pc = "done" => Loaded(job[i].key)' = NoSnapshot
    BY <1>2 DEF FindFile, files, Loaded, PathOf
  <2> QED
    BY <1>2, <1>3, <1>4, <2>1, <2>2 DEF OutcomeIsPossible, FindFile, history
<1> QED
  BY <1>2, <1>3, <1>4, <1>5, JobOnlyInv DEF FindFile, files, history

LEMMA LookingAround ==
    ASSUME StoreInv, NEW i \in Op, Live(i), job[i].kind = "cleanup", NEW new \in Job,
           job' = [job EXCEPT ![i] = new], new.kind = "cleanup", new.key = job[i].key,
           new.inode = job[i].inode, new.awaited = job[i].awaited,
           UNCHANGED <<backend, files, row, started, history>>
    PROVE  StoreStep
<1>1. job \in [Op -> Job]
  BY DEF StoreInv, TypeOK
<1>2. job' \in [Op -> Job] /\ \A j \in Op \ {i} : job'[j] = job[j] /\ job'[i] = new
  BY <1>1
<1>3. OutcomeIsPossible(i, job[i].key)'
  BY <1>2 DEF OutcomeIsPossible
<1> QED
  BY <1>2, <1>3, JobOnlyInv DEF files, history

LEMMA ListFilesInv == ASSUME StoreInv, NEW i \in Op, ListFiles(i) PROVE StoreStep
<1>1. job \in [Op -> Job] /\ Live(i) /\ job[i].kind = "cleanup"
  BY DEF ListFiles, Thread, Live, StoreInv, TypeOK
<1>2. PICK directory \in (SUBSET job[i].unlisted) \ {{}} :
         job' = [job EXCEPT ![i].pc = "stat", ![i].unlisted = @ \ directory,
                            ![i].at = {f \in directory : target[f] # 0}]
  BY DEF ListFiles
<1> DEFINE unlisted == job[i].unlisted \ directory
           at == {f \in directory : target[f] # 0}
<1>3. unlisted \in SUBSET File /\ at \in SUBSET File /\ job[i] \in Job
  BY <1>1 DEF Job
<1> HIDE DEF unlisted, at
<1> DEFINE new == [job[i] EXCEPT !.pc = "stat", !.unlisted = unlisted, !.at = at]
<1>4. new \in Job
  BY <1>3 DEF Job
<1>5. /\ new.kind = job[i].kind /\ new.key = job[i].key
      /\ new.inode = job[i].inode /\ new.awaited = job[i].awaited
  BY <1>3 DEF Job
<1>6. job' = [job EXCEPT ![i] = new]
  BY <1>1, <1>2 DEF unlisted, at
<1> HIDE DEF new
<1> QED
  BY <1>1, <1>4, <1>5, <1>6, LookingAround DEF ListFiles

LEMMA GotoInv ==
    ASSUME StoreInv, NEW i \in Op, Live(i), job[i].kind = "cleanup",
           NEW pc \in {"queued", "stat", "clean", "unlink", "done", "raised"}, Goto(i, pc),
           UNCHANGED <<backend, files, row, started, history>>
    PROVE  StoreStep
<1> DEFINE new == [job[i] EXCEPT !.pc = pc]
<1>1. job \in [Op -> Job]
  BY DEF StoreInv, TypeOK
<1>2. /\ new \in Job /\ new.kind = job[i].kind /\ new.key = job[i].key
      /\ new.inode = job[i].inode /\ new.awaited = job[i].awaited
  BY <1>1 DEF Job
<1>3. job' = [job EXCEPT ![i] = new]
  BY <1>1 DEF Goto
<1> HIDE DEF new
<1> QED
  BY <1>2, <1>3, LookingAround

LEMMA StatFilesInv == ASSUME StoreInv, NEW i \in Op, StatFiles(i) PROVE StoreStep
<1>1. /\ job \in [Op -> Job] /\ Live(i) /\ job[i].kind = "cleanup"
      /\ UNCHANGED <<backend, files, row, started, history>>
  BY DEF StatFiles, Thread, Live, StoreInv, TypeOK
<1>2. CASE Goto(i, "raised")
  BY <1>1, <1>2, GotoInv
<1>3. CASE \E stale \in SUBSET job[i].at :
             job' = [job EXCEPT ![i].pc = "clean", ![i].todo = stale, ![i].at = {}]
  <2>1. PICK stale \in SUBSET job[i].at :
           job' = [job EXCEPT ![i].pc = "clean", ![i].todo = stale, ![i].at = {}]
    BY <1>3
  <2> DEFINE new == [job[i] EXCEPT !.pc = "clean", !.todo = stale, !.at = {}]
  <2>2. job[i] \in Job /\ stale \in SUBSET File
    BY <1>1, <2>1 DEF Job
  <2>3. new \in Job
    BY <2>2 DEF Job
  <2>4. /\ new.kind = job[i].kind /\ new.key = job[i].key
        /\ new.inode = job[i].inode /\ new.awaited = job[i].awaited
    BY <2>2 DEF Job
  <2>5. job' = [job EXCEPT ![i] = new]
    BY <1>1, <2>1
  <2> HIDE DEF new
  <2> QED
    BY <1>1, <2>3, <2>4, <2>5, LookingAround
<1> QED
  BY <1>2, <1>3 DEF StatFiles

LEMMA FindStaleInv == ASSUME StoreInv, NEW i \in Op, FindStale(i) PROVE StoreStep
<1>1. /\ job \in [Op -> Job] /\ Live(i) /\ job[i].kind = "cleanup"
      /\ UNCHANGED <<backend, files, row, started, history>>
  BY DEF FindStale, Thread, Live, StoreInv, TypeOK
<1>2. PICK f \in job[i].todo :
         job' = IF target[f] = 0
                  THEN [job EXCEPT ![i].todo = @ \ {f}]
                  ELSE [job EXCEPT ![i].pc = "unlink", ![i].at = {f}, ![i].todo = @ \ {f}]
  BY DEF FindStale
<1>3. job[i] \in Job /\ f \in File /\ job[i].todo \ {f} \in SUBSET File
  BY <1>1 DEF Job
<1>4. CASE target[f] = 0
  <2> DEFINE new == [job[i] EXCEPT !.todo = @ \ {f}]
  <2>1. new \in Job
    BY <1>3 DEF Job
  <2>2. /\ new.kind = job[i].kind /\ new.key = job[i].key
        /\ new.inode = job[i].inode /\ new.awaited = job[i].awaited
    BY <1>3 DEF Job
  <2>3. job' = [job EXCEPT ![i] = new]
    BY <1>1, <1>2, <1>4
  <2> HIDE DEF new
  <2> QED
    BY <1>1, <2>1, <2>2, <2>3, LookingAround
<1>5. CASE target[f] # 0
  <2> DEFINE new == [job[i] EXCEPT !.pc = "unlink", !.at = {f}, !.todo = @ \ {f}]
  <2>1. new \in Job
    BY <1>3 DEF Job
  <2>2. /\ new.kind = job[i].kind /\ new.key = job[i].key
        /\ new.inode = job[i].inode /\ new.awaited = job[i].awaited
    BY <1>3 DEF Job
  <2>3. job' = [job EXCEPT ![i] = new]
    BY <1>1, <1>2, <1>5
  <2> HIDE DEF new
  <2> QED
    BY <1>1, <2>1, <2>2, <2>3, LookingAround
<1> QED
  BY <1>4, <1>5

LEMMA CleanupEndsInv == ASSUME StoreInv, NEW i \in Op, CleanupEnds(i) PROVE StoreStep
<1>1. /\ Live(i) /\ job[i].kind = "cleanup"
      /\ UNCHANGED <<backend, files, row, started, history>>
  BY DEF CleanupEnds, Thread, Live
<1>2. Goto(i, "done") \/ Goto(i, "queued")
  BY DEF CleanupEnds
<1> QED
  BY <1>1, <1>2, GotoInv

(* A caller that is cancelled gives up the promise to its key, and a dead   *)
(* process leaves no thread.                                                *)
LEMMA CancelInv == ASSUME StoreInv, NEW i \in Op, Cancel(i) PROVE StoreStep
<1>1. /\ backend' = backend /\ target' = target /\ tmp' = tmp /\ contents' = contents
      /\ row' = row /\ started' = started /\ perhaps' = perhaps
      /\ cancelled' = cancelled \cup {job[i].key}
      /\ job[i].awaited /\ job[i].kind # "cleanup" /\ Live(i)
  BY DEF Cancel, files
<1>2. job \in [Op -> Job] /\ job[i] \in Job /\ JobIsSound(i)
  BY DEF StoreInv, TypeOK, JobsAreSound
<1>3. job[i].kind \in {"save", "delete"} /\ job[i].key \in Key
  <2>1. job[i].kind # "none"
    BY <1>1, <1>2 DEF JobIsSound
  <2> QED
    BY <1>1, <1>2, <2>1 DEF Job, JobIsSound
<1>4. /\ job' \in [Op -> Job] /\ \A j \in Op \ {i} : job'[j] = job[j]
      /\ ~job'[i].awaited
      /\ \/ /\ job'[i].kind = job[i].kind /\ job'[i].key = job[i].key
            /\ job'[i].pc = job[i].pc /\ job'[i].inode = job[i].inode
         \/ job'[i] = NoJob
  <2>1. CASE job' = [job EXCEPT ![i].awaited = FALSE]
    BY <1>2, <2>1, CallerLeaves
  <2>2. CASE job' = [job EXCEPT ![i] = NoJob]
    BY <1>2, <2>2, StoreFacts DEF NoJob, StoreInv
  <2> QED
    BY <2>1, <2>2 DEF Cancel
<1>5. TypeOK'
  BY <1>1, <1>3, <1>4 DEF StoreInv, TypeOK
<1>6. JobsAreSound'
  <2>1. CASE job'[i].kind = job[i].kind /\ job'[i].key = job[i].key /\ job'[i].pc = job[i].pc
    BY <1>1, <1>3, <1>4, <2>1, JobStep
  <2>2. CASE job'[i] = NoJob
    <3>1. ASSUME NEW j \in Op PROVE JobIsSound(j)'
      <4>1. JobIsSound(j)
        BY DEF StoreInv, JobsAreSound
      <4>2. CASE j = i
        BY <2>2, <4>2, StoreAssumption DEF JobIsSound, NoJob, Live
      <4>3. CASE j # i
        BY <1>1, <1>4, <4>1, <4>3 DEF JobIsSound, Live
      <4> QED
        BY <4>2, <4>3
    <3>2. ASSUME NEW j \in Op, NEW k \in Op, job'[j].awaited, job'[k].awaited,
                 job'[j].key = job'[k].key
          PROVE  j = k
      <4>1. j # i /\ k # i
        BY <1>4, <3>2
      <4> QED
        BY <1>4, <3>2, <4>1 DEF StoreInv, JobsAreSound
    <3> QED
      BY <3>1, <3>2 DEF JobsAreSound
  <2> QED
    BY <1>4, <2>1, <2>2
<1>7. InodesHaveOnePath'
  <2>1. \A n \in Op : QueuedSave(n)' => QueuedSave(n)
    BY <1>4 DEF QueuedSave, NoJob
  <2>2. ASSUME NEW f \in File, NEW n \in Op, Uses(f, n)' PROVE Uses(f, n)
    <3>1. \A j \in Op : Saves(j, f)' => Saves(j, f) /\ job'[j].inode = job[j].inode
      BY <1>4 DEF Saves, PathOf, NoJob
    <3> QED
      BY <1>1, <2>2, <3>1 DEF Uses
  <2> QED
    BY <1>1, <2>1, <2>2, InodesStay
<1>8. QuietKeysAreSound'
  <2> SUFFICES ASSUME NEW key \in Quiet' PROVE FileIsWhole(key)' /\ PromiseIsKept(key)'
    BY DEF QuietKeysAreSound
  <2>1. key \in Quiet /\ key \in Key /\ key # job[i].key /\ key # NoKey
    BY <1>1, QuietStays, StoreAssumption DEF Quiet
  <2>2. \A j \in Op : job'[j].key = key => job'[j] = job[j]
    BY <1>4, <2>1 DEF NoJob
  <2> QED
    BY <1>1, <2>1, <2>2, NothingMoves
<1>9. [Register!Next]_Promised
  <2>1. \A key \in Key : Loaded(key)' = Loaded(key)
    BY <1>1 DEF Loaded
  <2>2. CASE backend = "file"
    <3>1. Outside' = Outside \cup {job[i].key}
      BY <1>1, <2>2 DEF Outside, Colliding
    <3>2. Promised' = [Promised EXCEPT ![job[i].key] = Unpromised]
      BY <1>3, <2>1, <3>1 DEF Promised
    <3> QED
      BY <1>3, <3>2 DEF Register!Next, Register!GiveUp
  <2>3. CASE backend # "file"
    <3>1. Outside' = Outside
      BY <1>1, <2>3 DEF Outside
    <3>2. Promised' = Promised
      BY <2>1, <3>1 DEF Promised
    <3> QED
      BY <3>2
  <2> QED
    BY <2>2, <2>3
<1> QED
  BY <1>5, <1>6, <1>7, <1>8, <1>9 DEF StoreStep, StoreInv

LEMMA CrashInv == ASSUME StoreInv, Crash PROVE StoreStep
<1>1. /\ backend' = backend /\ target' = target /\ tmp' = tmp /\ contents' = contents
      /\ row' = row /\ started' = started /\ perhaps' = perhaps /\ cancelled' = cancelled
      /\ job' = [i \in Op |-> NoJob]
  BY DEF Crash, files, history
<1>2. \A i \in Op : job'[i] = NoJob
  BY <1>1
<1>3. TypeOK'
  <2>1. NoJob \in Job
    BY DEF NoJob, Job
  <2> QED
    BY <1>1, <2>1 DEF StoreInv, TypeOK
<1>4. JobsAreSound'
  <2>1. \A i \in Op : /\ ~Live(i)' /\ ~job'[i].awaited /\ job'[i].key = NoKey
                    /\ job'[i].kind = "none"
    BY <1>2 DEF Live, NoJob
  <2> QED
    BY <1>2, <2>1, StoreAssumption DEF JobsAreSound, JobIsSound
<1>5. InodesHaveOnePath'
  <2>1. \A n \in Op : ~QueuedSave(n)'
    BY <1>2 DEF QueuedSave, NoJob
  <2>2. \A f \in File, n \in Op : Uses(f, n)' => Uses(f, n)
    BY <1>1, <1>2 DEF Uses, Saves, NoJob
  <2> QED
    BY <1>1, <2>1, <2>2, InodesStay
<1>6. QuietKeysAreSound'
  <2> SUFFICES ASSUME NEW key \in Quiet' PROVE FileIsWhole(key)' /\ PromiseIsKept(key)'
    BY DEF QuietKeysAreSound
  <2>1. key \in Quiet /\ key # NoKey
    BY <1>1, QuietStays, StoreAssumption DEF Quiet
  <2>2. \A j \in Op : job'[j].key # key
    BY <1>2, <2>1 DEF NoJob
  <2> QED
    BY <1>1, <2>1, <2>2, NothingMoves
<1>7. Promised' = Promised
  BY <1>1, RegisterStutters DEF Loaded
<1> QED
  BY <1>3, <1>4, <1>5, <1>6, <1>7 DEF StoreStep, StoreInv

-----------------------------------------------------------------------------
(* The steps on files. *)

(* The thread of a save or a delete works under the path of its key, on     *)
(* inodes that are used there or are new.                                   *)
LEMMA PathStep ==
    ASSUME StoreInv, backend = "file", NEW i \in Op, job[i].key \in Key, Live(i),
           backend' = backend, cancelled' = cancelled, perhaps' = perhaps,
           \A j \in Op \ {i} : job'[j] = job[j], job'[i].key = job[i].key,
           \A f \in File \ {PathOf(i)} : target'[f] = target[f] /\ tmp'[f] = tmp[f],
           \A n \in Op : contents'[n] # contents[n] => Uses(PathOf(i), n) \/ QueuedSave(n),
           job[i].key \in Quiet =>
              /\ target'[PathOf(i)] # 0 => target'[PathOf(i)] # tmp'[PathOf(i)]
              /\ Loaded(job[i].key)' \in perhaps[job[i].key]
              /\ job'[i].kind = "save" => TmpIsOf(i)'
              /\ OutcomeIsPossible(i, job[i].key)'
    PROVE  /\ QuietKeysAreSound'
           /\ \A key \in Quiet \ {job[i].key} : Loaded(key)' = Loaded(key)
<1>1. ASSUME NEW key \in Quiet, key # job[i].key
      PROVE  /\ Loaded(key)' = Loaded(key)
             /\ FileIsWhole(key)' /\ PromiseIsKept(key)'
  <2> DEFINE p == Path[key]
  <2>1. /\ p \in File /\ PathOf(i) \in File /\ p # PathOf(i)
        /\ target'[p] = target[p] /\ tmp'[p] = tmp[p]
    BY <1>1, QuietFacts, StoreFacts DEF StoreInv
  <2>2. ASSUME NEW n \in Op, n = target[p] \/ n = tmp[p] PROVE contents'[n] = contents[n]
    <3>1. Uses(p, n)
      BY <2>2 DEF Uses
    <3>2. ~QueuedSave(n) /\ ~Uses(PathOf(i), n)
      BY <2>1, <3>1 DEF StoreInv, InodesHaveOnePath
    <3> QED
      BY <3>2
  <2>3. target[p] \in {0} \cup Op /\ tmp[p] \in {0} \cup Op
    BY <2>1 DEF StoreInv, TypeOK
  <2>4. Loaded(key)' = Loaded(key)
    BY <2>1, <2>2, <2>3 DEF Loaded
  <2>5. Loaded(key) \in perhaps[key]
    BY QuietFacts DEF PromiseIsKept
  <2>6. tmp[p] # 0 => contents'[tmp[p]] = contents[tmp[p]]
    BY <2>2, <2>3
  <2>7. \A j \in Op : job'[j].key = key => job'[j] = job[j]
    BY <1>1
  <2> QED
    BY <2>1, <2>4, <2>5, <2>6, <2>7, OthersStep
<1>2. ASSUME job[i].key \in Quiet
      PROVE  FileIsWhole(job[i].key)' /\ PromiseIsKept(job[i].key)'
  BY <1>2, OwnStep DEF PathOf
<1>3. Quiet' \subseteq Quiet
  BY QuietStays
<1> QED
  BY <1>1, <1>2, <1>3 DEF QuietKeysAreSound

LEMMA FileQuiet ==
    ASSUME backend = "file"
    PROVE  Quiet = Key \ Outside
BY DEF Quiet, Outside

(* A step that changes no snapshot of a quiet key but at most that of its   *)
(* own: the register stutters if that stays, too.                           *)
LEMMA PathStutters ==
    ASSUME backend = "file", backend' = backend, cancelled' = cancelled,
           \A key \in Quiet : Loaded(key)' = Loaded(key)
    PROVE  [Register!Next]_Promised
BY FileQuiet, RegisterStutters

LEMMA OpenTmpInv == ASSUME StoreInv, NEW i \in Op, OpenTmp(i) PROVE StoreStep
<1> DEFINE p == PathOf(i)
           inode == IF tmp[p] = 0 THEN i ELSE tmp[p]
<1>1. /\ backend = "file" /\ job[i].kind = "save" /\ job[i].pc = "queued"
      /\ tmp' = [tmp EXCEPT ![p] = inode]
      /\ contents' = [contents EXCEPT ![inode] = Torn]
      /\ job' = [job EXCEPT ![i].pc = "write", ![i].inode = inode]
      /\ backend' = backend /\ target' = target /\ row' = row /\ started' = started
      /\ cancelled' = cancelled /\ perhaps' = perhaps
  BY DEF OpenTmp, Thread, history
<1>2. /\ job \in [Op -> Job] /\ job[i] \in Job /\ JobIsSound(i)
      /\ tmp \in [File -> {0} \cup Op] /\ target \in [File -> {0} \cup Op]
      /\ contents \in [Op -> Op \cup {Torn}] /\ i # 0
  BY StoreFacts DEF StoreInv, TypeOK, JobsAreSound
<1>3. job[i].key \in Key /\ p \in File /\ inode \in Op
  BY <1>1, <1>2, StoreFacts DEF JobIsSound, StoreInv
<1>4. Live(i) /\ QueuedSave(i)
  BY <1>1 DEF Live, QueuedSave
<1> HIDE DEF inode
<1>5. /\ job' \in [Op -> Job] /\ \A j \in Op \ {i} : job'[j] = job[j]
  BY <1>1, <1>2, <1>3 DEF Job
<1>6. /\ job'[i].kind = job[i].kind /\ job'[i].key = job[i].key
      /\ job'[i].pc = "write" /\ job'[i].inode = inode
  BY <1>1, <1>2 DEF Job
<1>7. job'[i].awaited = job[i].awaited
  BY <1>1, <1>2 DEF Job
<1>8. TypeOK'
  BY <1>1, <1>2, <1>3, <1>5 DEF StoreInv, TypeOK
<1>9. JobsAreSound'
  BY <1>1, <1>4, <1>5, <1>6, <1>7, JobStep
<1>10. InodesHaveOnePath'
  <2>1. ASSUME NEW f \in File, NEW n \in Op, Uses(f, n)'
        PROVE  Uses(f, n) \/ (f = p /\ n = i)
    <3>1. CASE n = target'[f]
      BY <1>1, <3>1 DEF Uses
    <3>2. CASE n = tmp'[f]
      BY <1>1, <1>2, <1>3, <3>2 DEF Uses, inode
    <3>3. CASE \E j \in Op : Saves(j, f)' /\ job'[j].inode = n
      <4>1. PICK j \in Op : Saves(j, f)' /\ job'[j].inode = n
        BY <3>3
      <4>2. CASE j = i
        BY <1>3, <1>6, <4>1, <4>2 DEF Saves, PathOf, Uses, inode
      <4>3. CASE j # i
        BY <1>5, <4>1, <4>3 DEF Saves, PathOf, Uses
      <4> QED
        BY <4>2, <4>3
    <3> QED
      BY <2>1, <3>1, <3>2, <3>3 DEF Uses
  <2>2. \A f \in File : ~Uses(f, i)
    BY <1>4 DEF StoreInv, InodesHaveOnePath
  <2>3. i <= started
    <3>1. job[i] # NoJob
      BY <1>1 DEF NoJob
    <3> QED
      BY <1>2, <3>1, StoreAssumption DEF JobIsSound, StoreInv, TypeOK, Op
  <2>4. \A n \in Op : QueuedSave(n)' => QueuedSave(n) /\ n # i
    BY <1>5, <1>6 DEF QueuedSave
  <2>5. ASSUME NEW f \in File, NEW n \in Op, Uses(f, n)'
        PROVE  n <= started' /\ ~QueuedSave(n)' /\ \A g \in File : Uses(g, n)' => g = f
    BY <1>1, <2>1, <2>2, <2>3, <2>4, <2>5 DEF StoreInv, InodesHaveOnePath
  <2> QED
    BY <2>5 DEF InodesHaveOnePath
<1>11. ASSUME NEW n \in Op, contents'[n] # contents[n] PROVE Uses(PathOf(i), n) \/ QueuedSave(n)
  BY <1>1, <1>2, <1>4, <1>11 DEF Uses, inode
<1>12. ASSUME job[i].key \in Quiet
       PROVE  /\ target'[PathOf(i)] # 0 => target'[PathOf(i)] # tmp'[PathOf(i)]
              /\ Loaded(job[i].key)' = Loaded(job[i].key)
              /\ Loaded(job[i].key)' \in perhaps[job[i].key]
              /\ TmpIsOf(i)'
              /\ OutcomeIsPossible(i, job[i].key)'
  <2> DEFINE key == job[i].key
  <2>1. /\ target[p] # 0 => target[p] # tmp[p]
        /\ Loaded(key) \in perhaps[key] /\ OutcomeIsPossible(i, key)
    BY <1>1, <1>12, QuietFacts DEF FileIsWhole, PromiseIsKept, PathOf
  <2>2. target[p] # i
    <3>1. ~Uses(p, i)
      BY <1>3, <1>4 DEF StoreInv, InodesHaveOnePath
    <3> QED
      BY <3>1 DEF Uses
  <2>3. tmp'[p] = inode /\ (target[p] # 0 => target[p] # inode)
    BY <1>1, <1>2, <1>3, <2>1, <2>2 DEF inode
  <2>4. Loaded(key)' = Loaded(key)
    BY <1>1, <1>2, <1>3, <2>3 DEF Loaded, PathOf
  <2>5. TmpIsOf(i)'
    <3>1. PathOf(i)' = p /\ inode # 0 /\ contents'[inode] = Torn
      BY <1>1, <1>2, <1>3, <1>6, StoreAssumption DEF PathOf, Op
    <3> QED
      BY <1>6, <2>3, <3>1 DEF TmpIsOf
  <2>6. OutcomeIsPossible(i, key)'
    BY <1>1, <1>4, <1>6, <2>1 DEF OutcomeIsPossible
  <2> QED
    BY <1>1, <2>1, <2>3, <2>4, <2>5, <2>6
<1>13. \A f \in File \ {PathOf(i)} : target'[f] = target[f] /\ tmp'[f] = tmp[f]
  BY <1>1, <1>2
<1>14. /\ QuietKeysAreSound'
       /\ \A key \in Quiet \ {job[i].key} : Loaded(key)' = Loaded(key)
  <2>1. job[i].key \in Quiet =>
           /\ target'[PathOf(i)] # 0 => target'[PathOf(i)] # tmp'[PathOf(i)]
           /\ Loaded(job[i].key)' \in perhaps[job[i].key]
           /\ job'[i].kind = "save" => TmpIsOf(i)'
           /\ OutcomeIsPossible(i, job[i].key)'
    BY <1>12
  <2>2. \A n \in Op : contents'[n] # contents[n] => Uses(PathOf(i), n) \/ QueuedSave(n)
    BY <1>11
  <2>3. /\ job[i].key \in Key /\ Live(i) /\ backend = "file" /\ backend' = backend
        /\ cancelled' = cancelled /\ perhaps' = perhaps /\ job'[i].key = job[i].key
        /\ \A j \in Op \ {i} : job'[j] = job[j]
    BY <1>1, <1>3, <1>4, <1>5, <1>6
  <2> HIDE DEF p
  <2> QED
    BY <1>13, <2>1, <2>2, <2>3, PathStep
<1>15. [Register!Next]_Promised
  <2>1. \A key \in Quiet : Loaded(key)' = Loaded(key)
    BY <1>6, <1>12, <1>14
  <2> QED
    BY <1>1, <2>1, PathStutters
<1> QED
  BY <1>8, <1>9, <1>10, <1>14, <1>15 DEF StoreStep, StoreInv

LEMMA WriteTmpInv == ASSUME StoreInv, NEW i \in Op, WriteTmp(i) PROVE StoreStep
<1> DEFINE inode == job[i].inode
<1>1. PICK written \in {i} \cup (IF contents[inode] = Torn THEN {} ELSE {Torn}) :
         contents' = [contents EXCEPT ![inode] = written]
  BY DEF WriteTmp
<1>2. /\ backend = "file" /\ job[i].kind = "save" /\ job[i].pc = "write"
      /\ job' = [job EXCEPT ![i].pc = "replace"]
      /\ backend' = backend /\ target' = target /\ tmp' = tmp /\ row' = row
      /\ started' = started /\ cancelled' = cancelled /\ perhaps' = perhaps
  BY DEF WriteTmp, Thread, Goto, history
<1>3. /\ job \in [Op -> Job] /\ job[i] \in Job /\ JobIsSound(i)
      /\ tmp \in [File -> {0} \cup Op] /\ target \in [File -> {0} \cup Op]
      /\ contents \in [Op -> Op \cup {Torn}] /\ inode \in {0} \cup Op
  BY DEF StoreInv, TypeOK, JobsAreSound, Job
<1>4. job[i].key \in Key /\ PathOf(i) \in File /\ Live(i)
  BY <1>2, <1>3, StoreFacts DEF JobIsSound, StoreInv, Live
<1>5. job' \in [Op -> Job] /\ \A j \in Op \ {i} : job'[j] = job[j]
  BY <1>2, <1>3 DEF Job
<1>6. /\ job'[i].kind = job[i].kind /\ job'[i].key = job[i].key
      /\ job'[i].pc = "replace" /\ job'[i].inode = inode
  BY <1>2, <1>3 DEF Job
<1>7. job'[i].awaited = job[i].awaited
  BY <1>2, <1>3 DEF Job
<1>8. TypeOK'
  <2>1. written \in Op \cup {Torn}
    BY <1>1
  <2>2. contents' \in [Op -> Op \cup {Torn}]
    BY <1>1, <1>3, <2>1
  <2> QED
    BY <1>2, <1>5, <2>2 DEF StoreInv, TypeOK
<1>9. JobsAreSound'
  BY <1>2, <1>4, <1>5, <1>6, <1>7, JobStep
<1>10. InodesHaveOnePath'
  BY <1>2, <1>5, <1>6, InodesStayWithFiles
<1>11. \A n \in Op : contents'[n] # contents[n] => Uses(PathOf(i), n) \/ QueuedSave(n)
  BY <1>1, <1>2, <1>3 DEF Uses, Saves
<1>12. ASSUME job[i].key \in Quiet
       PROVE  /\ target'[PathOf(i)] # 0 => target'[PathOf(i)] # tmp'[PathOf(i)]
              /\ Loaded(job[i].key)' = Loaded(job[i].key)
              /\ Loaded(job[i].key)' \in perhaps[job[i].key]
              /\ TmpIsOf(i)'
              /\ OutcomeIsPossible(i, job[i].key)'
  <2>1. /\ target[PathOf(i)] # 0 => target[PathOf(i)] # tmp[PathOf(i)]
        /\ Loaded(job[i].key) \in perhaps[job[i].key]
        /\ OutcomeIsPossible(i, job[i].key) /\ TmpIsOf(i)
    BY <1>2, <1>12, QuietFacts DEF FileIsWhole, PromiseIsKept, PathOf
  <2>2. tmp[PathOf(i)] # 0 /\ inode = tmp[PathOf(i)] /\ contents[inode] = Torn
    BY <1>2, <2>1 DEF TmpIsOf
  <2>3. written = i /\ inode \in Op
    BY <1>1, <1>3, <2>2
  <2>4. Loaded(job[i].key)' = Loaded(job[i].key)
    BY <1>1, <1>2, <1>3, <2>1, <2>2 DEF Loaded, PathOf
  <2>5. TmpIsOf(i)'
    <3>1. PathOf(i)' = PathOf(i) /\ contents'[inode] = i
      BY <1>1, <1>3, <1>6, <2>3 DEF PathOf
    <3> QED
      BY <1>2, <1>6, <2>2, <3>1 DEF TmpIsOf
  <2>6. OutcomeIsPossible(i, job[i].key)'
    BY <1>2, <1>4, <1>6, <2>1 DEF OutcomeIsPossible
  <2> QED
    BY <1>2, <2>1, <2>4, <2>5, <2>6
<1>13. /\ QuietKeysAreSound'
       /\ \A key \in Quiet \ {job[i].key} : Loaded(key)' = Loaded(key)
  <2>1. job[i].key \in Quiet =>
           /\ target'[PathOf(i)] # 0 => target'[PathOf(i)] # tmp'[PathOf(i)]
           /\ Loaded(job[i].key)' \in perhaps[job[i].key]
           /\ job'[i].kind = "save" => TmpIsOf(i)'
           /\ OutcomeIsPossible(i, job[i].key)'
    BY <1>12
  <2> QED
    BY <1>2, <1>4, <1>5, <1>6, <1>11, <2>1, PathStep
<1>14. [Register!Next]_Promised
  <2>1. \A key \in Quiet : Loaded(key)' = Loaded(key)
    BY <1>6, <1>12, <1>13
  <2> QED
    BY <1>2, <2>1, PathStutters
<1> QED
  BY <1>8, <1>9, <1>10, <1>13, <1>14 DEF StoreStep, StoreInv

(* The snapshot of a quiet key is replaced, or the snapshots of some keys   *)
(* are removed.                                                             *)
LEMMA RegisterSaves ==
    ASSUME backend' = backend, cancelled' = cancelled, NEW i \in Op, NEW key \in Key,
           key \in Outside \/ Loaded(key)' = i,
           \A k \in Key \ (Outside \cup {key}) : Loaded(k)' = Loaded(k),
           key \notin Outside => Loaded(key) # Unpromised
    PROVE  [Register!Next]_Promised
<1>1. Outside' = Outside
  BY DEF Outside, Colliding
<1>2. CASE key \in Outside
  <2>1. Promised' = Promised
    BY <1>1, <1>2 DEF Promised
  <2> QED
    BY <2>1
<1>3. CASE key \notin Outside
  <2>1. Promised' = [Promised EXCEPT ![key] = i]
    BY <1>1, <1>3 DEF Promised
  <2>2. Promised[key] # Unpromised
    BY <1>3 DEF Promised
  <2> QED
    BY <2>1, <2>2 DEF Register!Next, Register!Save
<1> QED
  BY <1>2, <1>3

LEMMA RegisterRemoves ==
    ASSUME backend' = backend, cancelled' = cancelled, NEW keys \in SUBSET (Key \ Outside),
           \A k \in keys : Loaded(k)' = NoSnapshot /\ Loaded(k) # Unpromised,
           \A k \in Key \ (Outside \cup keys) : Loaded(k)' = Loaded(k)
    PROVE  [Register!Next]_Promised
<1>1. Outside' = Outside
  BY DEF Outside, Colliding
<1>2. Promised' = [k \in Key |-> IF k \in keys THEN NoSnapshot ELSE Promised[k]]
  BY <1>1 DEF Promised
<1>3. \A k \in keys : Promised[k] # Unpromised
  BY DEF Promised
<1>4. keys \in SUBSET Key
  OBVIOUS
<1> QED
  BY <1>2, <1>3, <1>4 DEF Register!Next, Register!Remove

LEMMA QuietIsPromised ==
    ASSUME StoreInv, NEW key \in Quiet
    PROVE  Loaded(key) # Unpromised
<1>1. Loaded(key) \in perhaps[key] /\ key \in Key
  BY QuietFacts DEF PromiseIsKept
<1>2. Loaded(key) \in Op \cup {NoSnapshot}
  BY <1>1 DEF StoreInv, TypeOK
<1> QED
  BY <1>2, SnapshotAssumption

(* What the next step of a thread leaves of its job. *)
LEMMA ThreadGoes ==
    ASSUME StoreInv, NEW i \in Op, job[i].kind # "none",
           NEW pc \in {"unlink", "clean", "done", "raised"}, Goto(i, pc)
    PROVE  /\ job' \in [Op -> Job] /\ \A j \in Op \ {i} : job'[j] = job[j]
           /\ job'[i].kind = job[i].kind /\ job'[i].key = job[i].key
           /\ job'[i].pc = pc /\ job'[i].inode = job[i].inode
           /\ job'[i].awaited = job[i].awaited
<1>1. job \in [Op -> Job] /\ job[i] \in Job /\ job' = [job EXCEPT ![i].pc = pc]
  BY DEF StoreInv, TypeOK, Goto
<1>2. job' \in [Op -> Job] /\ \A j \in Op \ {i} : job'[j] = job[j]
  BY <1>1 DEF Job
<1>3. /\ job'[i].kind = job[i].kind /\ job'[i].key = job[i].key
      /\ job'[i].pc = pc /\ job'[i].inode = job[i].inode
  BY <1>1 DEF Job
<1>4. job'[i].awaited = job[i].awaited
  BY <1>1 DEF Job
<1> QED
  BY <1>2, <1>3, <1>4

LEMMA ReplaceTargetInv == ASSUME StoreInv, NEW i \in Op, ReplaceTarget(i) PROVE StoreStep
<1>1. /\ backend = "file" /\ job[i].kind = "save" /\ job[i].pc = "replace"
      /\ backend' = backend /\ row' = row /\ started' = started
      /\ cancelled' = cancelled /\ perhaps' = perhaps
  BY DEF ReplaceTarget, Thread, history
<1>2. /\ job[i] \in Job /\ JobIsSound(i)
      /\ tmp \in [File -> {0} \cup Op] /\ target \in [File -> {0} \cup Op]
      /\ contents \in [Op -> Op \cup {Torn}]
  BY DEF StoreInv, TypeOK, JobsAreSound
<1>3. job[i].key \in Key /\ PathOf(i) \in File /\ Live(i)
  BY <1>1, <1>2, StoreFacts DEF JobIsSound, StoreInv, Live
<1>4. CASE tmp[PathOf(i)] = 0
  <2>1. target' = target /\ tmp' = tmp /\ contents' = contents /\ Goto(i, "raised")
    BY <1>4 DEF ReplaceTarget, files
  <2>2. /\ job' \in [Op -> Job] /\ \A j \in Op \ {i} : job'[j] = job[j]
        /\ job'[i].kind = job[i].kind /\ job'[i].key = job[i].key
        /\ job'[i].pc = "raised" /\ job'[i].inode = job[i].inode
        /\ job'[i].awaited = job[i].awaited
    BY <1>1, <2>1, ThreadGoes
  <2>3. TmpIsOf(i)' /\ OutcomeIsPossible(i, job[i].key)'
    BY <2>2 DEF TmpIsOf, OutcomeIsPossible, Live
  <2> QED
    BY <1>1, <1>3, <2>1, <2>2, <2>3, JobOnlyInv
<1>5. CASE tmp[PathOf(i)] # 0
  <2> DEFINE inode == tmp[PathOf(i)]
  <2>1. /\ target' = [target EXCEPT ![PathOf(i)] = inode]
        /\ tmp' = [tmp EXCEPT ![PathOf(i)] = 0]
        /\ contents' = contents /\ Goto(i, "done")
    BY <1>5 DEF ReplaceTarget
  <2>2. /\ job' \in [Op -> Job] /\ \A j \in Op \ {i} : job'[j] = job[j]
        /\ job'[i].kind = job[i].kind /\ job'[i].key = job[i].key
        /\ job'[i].pc = "done" /\ job'[i].inode = job[i].inode
        /\ job'[i].awaited = job[i].awaited
    BY <1>1, <2>1, ThreadGoes
  <2>3. /\ inode \in Op /\ inode # 0
        /\ target'[PathOf(i)] = inode /\ tmp'[PathOf(i)] = 0
        /\ \A f \in File \ {PathOf(i)} : target'[f] = target[f] /\ tmp'[f] = tmp[f]
    BY <1>2, <1>3, <1>5, <2>1
  <2>4. TypeOK'
    BY <1>1, <1>2, <2>1, <2>2, <2>3 DEF StoreInv, TypeOK
  <2>5. JobsAreSound'
    BY <1>1, <1>3, <2>2, JobStep DEF Live
  <2>6. InodesHaveOnePath'
    <3>1. ASSUME NEW f \in File, NEW n \in Op, Uses(f, n)' PROVE Uses(f, n)
      <4>1. \A j \in Op : Saves(j, f)' => Saves(j, f) /\ job'[j].inode = job[j].inode
        BY <2>2 DEF Saves, PathOf
      <4>2. (n = target'[f] \/ n = tmp'[f]) => (n = target[f] \/ n = tmp[f])
        BY <1>3, <2>3, StoreFacts DEF StoreInv
      <4> QED
        BY <3>1, <4>1, <4>2 DEF Uses
    <3>2. \A n \in Op : QueuedSave(n)' => QueuedSave(n)
      BY <2>2 DEF QueuedSave
    <3> QED
      BY <1>1, <3>1, <3>2, InodesStay
  <2>7. ASSUME job[i].key \in Quiet
        PROVE  /\ Loaded(job[i].key)' = i
               /\ i \in perhaps[job[i].key]
               /\ OutcomeIsPossible(i, job[i].key)'
    <3>1. OutcomeIsPossible(i, job[i].key) /\ TmpIsOf(i)
      BY <1>1, <2>7, QuietFacts DEF FileIsWhole, PromiseIsKept
    <3>2. contents[inode] = i /\ i \in perhaps[job[i].key]
      BY <1>1, <1>3, <3>1 DEF TmpIsOf, OutcomeIsPossible
    <3>3. Loaded(job[i].key)' = i
      BY <1>1, <2>1, <2>2, <2>3, <3>2 DEF Loaded, PathOf
    <3> QED
      BY <1>1, <2>2, <3>2, <3>3 DEF OutcomeIsPossible, Live
  <2>8. /\ QuietKeysAreSound'
        /\ \A key \in Quiet \ {job[i].key} : Loaded(key)' = Loaded(key)
    <3>1. TmpIsOf(i)'
      BY <2>2 DEF TmpIsOf
    <3>2. job[i].key \in Quiet =>
             /\ target'[PathOf(i)] # 0 => target'[PathOf(i)] # tmp'[PathOf(i)]
             /\ Loaded(job[i].key)' \in perhaps[job[i].key]
             /\ job'[i].kind = "save" => TmpIsOf(i)'
             /\ OutcomeIsPossible(i, job[i].key)'
      BY <2>3, <2>7, <3>1
    <3>3. \A n \in Op : contents'[n] # contents[n] => Uses(PathOf(i), n) \/ QueuedSave(n)
      BY <2>1
    <3> HIDE DEF inode
    <3> QED
      BY <1>1, <1>3, <2>2, <2>3, <3>2, <3>3, PathStep
  <2>9. [Register!Next]_Promised
    <3> DEFINE key == job[i].key
    <3>1. key \in Outside \/ Loaded(key)' = i
      BY <1>1, <1>3, <2>7, FileQuiet
    <3>2. \A k \in Key \ (Outside \cup {key}) : Loaded(k)' = Loaded(k)
      BY <1>1, <2>8, FileQuiet
    <3>3. key \notin Outside => Loaded(key) # Unpromised
      BY <1>1, <1>3, FileQuiet, QuietIsPromised
    <3>4. key \in Key /\ key' = key
      BY <1>3, <2>2
    <3>5. PICK k \in Key : k = key
      BY <3>4
    <3>6. k \in Outside \/ Loaded(k)' = i
      BY <3>1, <3>4, <3>5
    <3> QED
      BY <1>1, <3>2, <3>3, <3>5, <3>6, RegisterSaves
  <2> QED
    BY <2>4, <2>5, <2>6, <2>8, <2>9 DEF StoreStep, StoreInv
<1> QED
  BY <1>4, <1>5

LEMMA UnlinkFileInv == ASSUME StoreInv, NEW i \in Op, UnlinkFile(i) PROVE StoreStep
<1> DEFINE pc == IF target[PathOf(i)] = 0 THEN "raised" ELSE "done"
<1>1. /\ backend = "file" /\ job[i].kind = "delete" /\ job[i].pc = "unlink"
      /\ target' = [target EXCEPT ![PathOf(i)] = 0] /\ Goto(i, pc)
      /\ backend' = backend /\ tmp' = tmp /\ contents' = contents /\ row' = row
      /\ started' = started /\ cancelled' = cancelled /\ perhaps' = perhaps
  BY DEF UnlinkFile, Thread, history
<1>2. job[i] \in Job /\ JobIsSound(i) /\ target \in [File -> {0} \cup Op]
  BY DEF StoreInv, TypeOK, JobsAreSound
<1>3. job[i].key \in Key /\ PathOf(i) \in File /\ Live(i)
  BY <1>1, <1>2, StoreFacts DEF JobIsSound, StoreInv, Live
<1>4. /\ job' \in [Op -> Job] /\ \A j \in Op \ {i} : job'[j] = job[j]
      /\ job'[i].kind = job[i].kind /\ job'[i].key = job[i].key
      /\ job'[i].pc = pc /\ job'[i].inode = job[i].inode
      /\ job'[i].awaited = job[i].awaited
  BY <1>1, ThreadGoes
<1>5. /\ target' \in [File -> {0} \cup Op] /\ target'[PathOf(i)] = 0
      /\ \A f \in File \ {PathOf(i)} : target'[f] = target[f] /\ tmp'[f] = tmp[f]
      /\ \A f \in File : target'[f] \in {0, target[f]}
  BY <1>1, <1>2, <1>3
<1>6. TypeOK'
  BY <1>1, <1>4, <1>5 DEF StoreInv, TypeOK
<1>7. JobsAreSound'
  BY <1>1, <1>3, <1>4, JobStep DEF Live
<1>8. InodesHaveOnePath'
  <2>1. ASSUME NEW f \in File, NEW n \in Op, Uses(f, n)' PROVE Uses(f, n)
    <3>1. \A j \in Op : Saves(j, f)' => Saves(j, f) /\ job'[j].inode = job[j].inode
      BY <1>4 DEF Saves, PathOf
    <3>2. (n = target'[f] \/ n = tmp'[f]) => (n = target[f] \/ n = tmp[f])
      BY <1>1, <1>5, StoreFacts DEF StoreInv
    <3> QED
      BY <2>1, <3>1, <3>2 DEF Uses
  <2>2. \A n \in Op : QueuedSave(n)' => QueuedSave(n)
    BY <1>4 DEF QueuedSave
  <2> QED
    BY <1>1, <2>1, <2>2, InodesStay
<1>9. Loaded(job[i].key)' = NoSnapshot
  BY <1>1, <1>4, <1>5 DEF Loaded, PathOf
<1>10. /\ QuietKeysAreSound'
       /\ \A key \in Quiet \ {job[i].key} : Loaded(key)' = Loaded(key)
  <2>1. ASSUME job[i].key \in Quiet
        PROVE  /\ NoSnapshot \in perhaps[job[i].key]
               /\ OutcomeIsPossible(i, job[i].key)'
    <3>1. OutcomeIsPossible(i, job[i].key)
      BY <2>1, QuietFacts DEF PromiseIsKept
    <3>2. NoSnapshot \in perhaps[job[i].key]
      BY <1>1, <1>3, <3>1 DEF OutcomeIsPossible
    <3> QED
      BY <1>1, <1>4, <1>9, <3>2 DEF OutcomeIsPossible, Live
  <2>2. job[i].key \in Quiet =>
           /\ target'[PathOf(i)] # 0 => target'[PathOf(i)] # tmp'[PathOf(i)]
           /\ Loaded(job[i].key)' \in perhaps[job[i].key]
           /\ job'[i].kind = "save" => TmpIsOf(i)'
           /\ OutcomeIsPossible(i, job[i].key)'
    BY <1>1, <1>4, <1>5, <1>9, <2>1
  <2>3. \A n \in Op : contents'[n] # contents[n] => Uses(PathOf(i), n) \/ QueuedSave(n)
    BY <1>1
  <2> HIDE DEF pc
  <2> QED
    BY <1>1, <1>3, <1>4, <1>5, <2>2, <2>3, PathStep
<1>11. [Register!Next]_Promised
  <2> DEFINE keys == {job[i].key} \ Outside
  <2>1. keys \in SUBSET (Key \ Outside)
    BY <1>3
  <2>2. \A k \in keys : Loaded(k)' = NoSnapshot /\ Loaded(k) # Unpromised
    BY <1>1, <1>3, <1>4, <1>9, FileQuiet, QuietIsPromised
  <2>3. \A k \in Key \ (Outside \cup keys) : Loaded(k)' = Loaded(k)
    BY <1>1, <1>10, FileQuiet
  <2> HIDE DEF keys
  <2> QED
    BY <1>1, <2>1, <2>2, <2>3, RegisterRemoves
<1> QED
  BY <1>6, <1>7, <1>8, <1>10, <1>11 DEF StoreStep, StoreInv

LEMMA UnlinkStaleInv == ASSUME StoreInv, NEW i \in Op, UnlinkStale(i) PROVE StoreStep
<1>1. PICK f \in job[i].at :
         /\ target' = [target EXCEPT ![f] = 0]
         /\ job' = [job EXCEPT ![i].pc = IF target[f] = 0 THEN "raised" ELSE "clean",
                               ![i].at = {}]
         /\ perhaps' = [key \in Key |-> IF Path[key] = f
                          THEN perhaps[key] \cup {NoSnapshot} ELSE perhaps[key]]
  BY DEF UnlinkStale
<1> DEFINE pc == IF target[f] = 0 THEN "raised" ELSE "clean"
<1>2. /\ backend = "file" /\ job[i].kind = "cleanup" /\ job[i].pc = "unlink"
      /\ backend' = backend /\ tmp' = tmp /\ contents' = contents /\ row' = row
      /\ started' = started /\ cancelled' = cancelled
  BY DEF UnlinkStale, Thread
<1>3. /\ job \in [Op -> Job] /\ job[i] \in Job /\ JobIsSound(i)
      /\ target \in [File -> {0} \cup Op]
      /\ perhaps \in [Key -> SUBSET (Op \cup {NoSnapshot})]
  BY DEF StoreInv, TypeOK, JobsAreSound
<1>4. f \in File /\ job[i].key = NoKey /\ Live(i)
  BY <1>1, <1>2, <1>3 DEF JobIsSound, Job, Live
<1>5. /\ job' \in [Op -> Job] /\ \A j \in Op \ {i} : job'[j] = job[j]
  BY <1>1, <1>3 DEF Job
<1>6. /\ job'[i].kind = job[i].kind /\ job'[i].key = job[i].key
      /\ job'[i].pc = pc /\ job'[i].inode = job[i].inode
  BY <1>1, <1>3 DEF Job
<1>7. job'[i].awaited = job[i].awaited
  BY <1>1, <1>3 DEF Job
<1>8. /\ target' \in [File -> {0} \cup Op] /\ target'[f] = 0
      /\ \A g \in File \ {f} : target'[g] = target[g]
  BY <1>1, <1>3, <1>4
<1>9. TypeOK'
  <2>1. perhaps' \in [Key -> SUBSET (Op \cup {NoSnapshot})]
    BY <1>1, <1>3
  <2> QED
    BY <1>2, <1>5, <1>8, <2>1 DEF StoreInv, TypeOK
<1>10. JobsAreSound'
  BY <1>2, <1>4, <1>5, <1>6, <1>7, JobStep
<1>11. InodesHaveOnePath'
  <2>1. ASSUME NEW g \in File, NEW n \in Op, Uses(g, n)' PROVE Uses(g, n)
    <3>1. \A j \in Op : Saves(j, g)' => Saves(j, g) /\ job'[j].inode = job[j].inode
      BY <1>5, <1>6 DEF Saves, PathOf
    <3>2. (n = target'[g] \/ n = tmp'[g]) => (n = target[g] \/ n = tmp[g])
      BY <1>2, <1>8, StoreFacts DEF StoreInv
    <3> QED
      BY <2>1, <3>1, <3>2 DEF Uses
  <2>2. \A n \in Op : QueuedSave(n)' => QueuedSave(n)
    BY <1>2, <1>5, <1>6 DEF QueuedSave
  <2> QED
    BY <1>2, <2>1, <2>2, InodesStay
<1>12. ASSUME NEW key \in Key
       PROVE  /\ Path[key] = f => Loaded(key)' = NoSnapshot
              /\ Path[key] # f => Loaded(key)' = Loaded(key)
  BY <1>2, <1>8 DEF Loaded, File
<1>13. QuietKeysAreSound'
  <2> SUFFICES ASSUME NEW key \in Quiet' PROVE FileIsWhole(key)' /\ PromiseIsKept(key)'
    BY DEF QuietKeysAreSound
  <2>1. key \in Quiet /\ key \in Key /\ key # NoKey
    BY <1>2, QuietStays, StoreAssumption DEF Quiet
  <2>2. Loaded(key) \in perhaps[key] /\ Path[key] \in File
    BY <2>1, QuietFacts DEF PromiseIsKept
  <2>3. \A j \in Op : job'[j].key = key => job'[j] = job[j]
    BY <1>4, <1>5, <1>6, <2>1
  <2>4. /\ Loaded(key)' \in {Loaded(key), NoSnapshot}
        /\ Loaded(key)' \in perhaps'[key] /\ perhaps[key] \subseteq perhaps'[key]
    BY <1>1, <1>12, <2>1, <2>2
  <2>5. target'[Path[key]] \in {target[Path[key]], 0}
    BY <1>8, <2>2
  <2> QED
    BY <1>2, <2>1, <2>3, <2>4, <2>5, OthersStep
<1>14. [Register!Next]_Promised
  <2> DEFINE keys == {key \in Key \ Outside : Path[key] = f}
  <2>1. keys \in SUBSET (Key \ Outside)
    OBVIOUS
  <2>2. \A k \in keys : Loaded(k)' = NoSnapshot /\ Loaded(k) # Unpromised
    BY <1>2, <1>12, FileQuiet, QuietIsPromised
  <2>3. \A k \in Key \ (Outside \cup keys) : Loaded(k)' = Loaded(k)
    BY <1>12
  <2> HIDE DEF keys
  <2> QED
    BY <1>2, <2>1, <2>2, <2>3, RegisterRemoves
<1> QED
  BY <1>9, <1>10, <1>11, <1>13, <1>14 DEF StoreStep, StoreInv

-----------------------------------------------------------------------------
(* A transaction of the SQLite store. *)
LEMMA TransactionInv == ASSUME StoreInv, NEW i \in Op, Transaction(i) PROVE StoreStep
<1>1. /\ backend = "sqlite" /\ job[i].pc = "queued" /\ Goto(i, "done")
      /\ backend' = backend /\ target' = target /\ tmp' = tmp /\ contents' = contents
      /\ started' = started /\ cancelled' = cancelled
  BY DEF Transaction, files
<1>2. /\ job[i] \in Job /\ JobIsSound(i)
      /\ row \in [Key -> Op \cup {NoSnapshot}]
      /\ perhaps \in [Key -> SUBSET (Op \cup {NoSnapshot})]
  BY DEF StoreInv, TypeOK, JobsAreSound
<1>3. Live(i) /\ job[i].kind # "none" /\ job[i].kind \in {"save", "delete", "cleanup"}
  <2>1. Live(i)
    BY <1>1 DEF Live
  <2>2. job[i].kind # "none"
    BY <1>2, <2>1 DEF JobIsSound
  <2> QED
    BY <1>2, <2>1, <2>2 DEF Job
<1>4. /\ job' \in [Op -> Job] /\ \A j \in Op \ {i} : job'[j] = job[j]
      /\ job'[i].kind = job[i].kind /\ job'[i].key = job[i].key
      /\ job'[i].pc = "done" /\ job'[i].inode = job[i].inode
      /\ job'[i].awaited = job[i].awaited
  BY <1>1, <1>3, ThreadGoes
<1>5. JobsAreSound'
  BY <1>1, <1>3, <1>4, JobStep DEF Live
<1>6. InodesHaveOnePath'
  BY <1>1, <1>4, InodesStayWithFiles
<1>7. /\ Outside = {} /\ Outside' = {}
      /\ \A key \in Key : Loaded(key) = row[key] /\ Loaded(key)' = row'[key]
  BY <1>1 DEF Outside, Loaded
<1>8. SUFFICES /\ TypeOK'
               /\ \A key \in Quiet : FileIsWhole(key)' /\ PromiseIsKept(key)'
               /\ [Register!Next]_Promised
  <2>1. Quiet' \subseteq Quiet
    BY <1>1, QuietStays
  <2> QED
    BY <1>5, <1>6, <2>1 DEF StoreStep, StoreInv, QuietKeysAreSound
<1>9. ASSUME NEW snapshot \in {i, NoSnapshot}, job[i].key \in Key,
             row' = [row EXCEPT ![job[i].key] = snapshot], perhaps' = perhaps,
             (snapshot = i /\ job[i].kind = "save")
                \/ (snapshot = NoSnapshot /\ job[i].kind = "delete")
      PROVE  TypeOK' /\ \A key \in Quiet : FileIsWhole(key)' /\ PromiseIsKept(key)'
  <2>1. row' \in [Key -> Op \cup {NoSnapshot}] /\ row'[job[i].key] = snapshot
    BY <1>2, <1>9
  <2>2. TypeOK'
    BY <1>1, <1>4, <1>9, <2>1 DEF StoreInv, TypeOK
  <2>3. ASSUME NEW key \in Quiet, key = job[i].key
        PROVE  FileIsWhole(key)' /\ PromiseIsKept(key)'
    <3>1. OutcomeIsPossible(i, key)
      BY <2>3, QuietFacts DEF PromiseIsKept
    <3>2. Loaded(key)' = snapshot /\ snapshot \in perhaps[key]
      BY <1>3, <1>7, <1>9, <2>1, <2>3, <3>1 DEF OutcomeIsPossible
    <3>3. OutcomeIsPossible(i, key)'
      BY <1>4, <1>9, <3>2 DEF OutcomeIsPossible, Live
    <3> QED
      BY <1>1, <1>3, <1>4, <1>9, <2>3, <3>2, <3>3, OwnStep
  <2>4. ASSUME NEW key \in Quiet, key # job[i].key
        PROVE  FileIsWhole(key)' /\ PromiseIsKept(key)'
    <3>1. key \in Key /\ Loaded(key) \in perhaps[key]
      BY QuietFacts DEF PromiseIsKept
    <3>2. Loaded(key)' = Loaded(key)
      BY <1>2, <1>7, <1>9, <2>4, <3>1
    <3>3. \A j \in Op : job'[j].key = key => job'[j] = job[j]
      BY <1>4, <2>4
    <3> QED
      BY <1>1, <1>9, <3>1, <3>2, <3>3, OthersStep
  <2> QED
    BY <2>2, <2>3, <2>4
<1>10. CASE job[i].kind = "save"
  <2>1. /\ row' = [row EXCEPT ![job[i].key] = i] /\ perhaps' = perhaps
        /\ job[i].key \in Key
    BY <1>2, <1>10 DEF Transaction, JobIsSound
  <2>2. PICK key \in Key : key = job[i].key
    BY <2>1
  <2>3. Loaded(key)' = i /\ \A k \in Key \ {key} : Loaded(k)' = Loaded(k)
    BY <1>2, <1>7, <2>1, <2>2
  <2>4. Loaded(key) # Unpromised
    BY <1>2, <1>7, SnapshotAssumption
  <2>5. [Register!Next]_Promised
    BY <1>1, <1>7, <2>3, <2>4, RegisterSaves
  <2> QED
    BY <1>9, <1>10, <2>1, <2>5
<1>11. CASE job[i].kind = "delete"
  <2>1. /\ row' = [row EXCEPT ![job[i].key] = NoSnapshot] /\ perhaps' = perhaps
        /\ job[i].key \in Key
    BY <1>2, <1>11 DEF Transaction, JobIsSound
  <2>2. PICK key \in Key : key = job[i].key
    BY <2>1
  <2>3. Loaded(key)' = NoSnapshot /\ \A k \in Key \ {key} : Loaded(k)' = Loaded(k)
    BY <1>2, <1>7, <2>1, <2>2
  <2>4. Loaded(key) # Unpromised
    BY <1>2, <1>7, SnapshotAssumption
  <2>5. {key} \in SUBSET (Key \ Outside)
    BY <1>7
  <2>6. [Register!Next]_Promised
    BY <1>1, <1>7, <2>3, <2>4, <2>5, RegisterRemoves
  <2> QED
    BY <1>9, <1>11, <2>1, <2>6
<1>12. CASE job[i].kind = "cleanup"
  <2>1. PICK stale \in SUBSET Key :
           /\ row' = [key \in Key |-> IF key \in stale THEN NoSnapshot ELSE row[key]]
           /\ perhaps' = [key \in Key |-> IF key \in stale
                            THEN perhaps[key] \cup {NoSnapshot} ELSE perhaps[key]]
    BY <1>12 DEF Transaction
  <2>2. ASSUME NEW key \in Key
        PROVE  /\ key \in stale => Loaded(key)' = NoSnapshot
               /\ key \notin stale => Loaded(key)' = Loaded(key)
    BY <1>7, <2>1
  <2>3. TypeOK'
    <3>1. row' \in [Key -> Op \cup {NoSnapshot}]
      BY <1>2, <2>1
    <3>2. perhaps' \in [Key -> SUBSET (Op \cup {NoSnapshot})]
      BY <1>2, <2>1
    <3> QED
      BY <1>1, <1>4, <3>1, <3>2 DEF StoreInv, TypeOK
  <2>4. ASSUME NEW key \in Quiet PROVE FileIsWhole(key)' /\ PromiseIsKept(key)'
    <3>1. key \in Key /\ key # NoKey /\ Loaded(key) \in perhaps[key]
      BY QuietFacts, StoreAssumption DEF PromiseIsKept
    <3>2. \A j \in Op : job'[j].key = key => job'[j] = job[j]
      BY <1>2, <1>4, <1>12, <3>1 DEF JobIsSound
    <3>3. /\ Loaded(key)' \in {Loaded(key), NoSnapshot}
          /\ Loaded(key)' \in perhaps'[key] /\ perhaps[key] \subseteq perhaps'[key]
      BY <2>1, <2>2, <3>1
    <3> QED
      BY <1>1, <3>2, <3>3, OthersStep
  <2>5. [Register!Next]_Promised
    <3>1. \A k \in stale : Loaded(k)' = NoSnapshot /\ Loaded(k) # Unpromised
      BY <1>2, <1>7, <2>2, SnapshotAssumption
    <3>2. \A k \in Key \ (Outside \cup stale) : Loaded(k)' = Loaded(k)
      BY <2>2
    <3>3. stale \in SUBSET (Key \ Outside)
      BY <1>7
    <3> QED
      BY <1>1, <3>1, <3>2, <3>3, RegisterRemoves
  <2> QED
    BY <2>3, <2>4, <2>5
<1> QED
  BY <1>3, <1>10, <1>11, <1>12

-----------------------------------------------------------------------------
LEMMA StoreNextInv == StoreInv /\ [Next]_vars => StoreStep
<1> SUFFICES ASSUME StoreInv, [Next]_vars PROVE StoreStep
  OBVIOUS
<1>1. ASSUME NEW key \in Key, Save(key) \/ Delete(key) PROVE StoreStep
  BY <1>1, SaveInv, DeleteInv
<1>2. CASE Cleanup
  BY <1>2, CleanupInv
<1>3. ASSUME NEW i \in Op, Return(i) \/ Raise(i) \/ Cancel(i) PROVE StoreStep
  BY <1>3, ReturnInv, RaiseInv, CancelInv
<1>4. ASSUME NEW i \in Op, OpenTmp(i) \/ WriteTmp(i) \/ ReplaceTarget(i) PROVE StoreStep
  BY <1>4, OpenTmpInv, WriteTmpInv, ReplaceTargetInv
<1>5. ASSUME NEW i \in Op, FindFile(i) \/ UnlinkFile(i) PROVE StoreStep
  BY <1>5, FindFileInv, UnlinkFileInv
<1>6. ASSUME NEW i \in Op,
             ListFiles(i) \/ StatFiles(i) \/ FindStale(i) \/ UnlinkStale(i) \/ CleanupEnds(i)
      PROVE  StoreStep
  BY <1>6, ListFilesInv, StatFilesInv, FindStaleInv, UnlinkStaleInv, CleanupEndsInv
<1>7. ASSUME NEW i \in Op, Transaction(i) PROVE StoreStep
  BY <1>7, TransactionInv
<1>8. CASE Crash
  BY <1>8, CrashInv
<1>9. CASE UNCHANGED vars
  <2>1. /\ backend' = backend /\ target' = target /\ tmp' = tmp /\ contents' = contents
        /\ row' = row /\ job' = job /\ started' = started /\ cancelled' = cancelled
        /\ perhaps' = perhaps
    BY <1>9 DEF vars, files, history
  <2>2. TypeOK' /\ JobsAreSound'
    BY <2>1 DEF StoreInv, TypeOK, JobsAreSound, JobIsSound, Live
  <2>3. InodesHaveOnePath'
    BY <2>1, InodesStay DEF Uses, Saves, PathOf, QueuedSave
  <2>4. QuietKeysAreSound'
    BY <2>1, NothingMoves, QuietStays DEF QuietKeysAreSound
  <2>5. Promised' = Promised
    BY <2>1, RegisterStutters DEF Loaded
  <2> QED
    BY <2>2, <2>3, <2>4, <2>5 DEF StoreStep, StoreInv
<1> QED
  BY <1>1, <1>2, <1>3, <1>4, <1>5, <1>6, <1>7, <1>8, <1>9 DEF Next

(* What a caller was told is what load returns, whatever happened since.    *)
LEMMA InvIsDurable == StoreInv => AcknowledgedIsDurable
BY QuietFacts DEF AcknowledgedIsDurable, Quiet, PromiseIsKept

(* The file store and the SQLite store implement the register: an operation *)
(* replaces or removes the snapshot of its key as a whole, in one step and  *)
(* nobody else's; and what callers have been told stays true in every       *)
(* later state (checkpoint/file.py, checkpoint/sqlite.py), for every set of *)
(* keys and paths and any number of operations, callers and deaths.         *)
THEOREM StoresImplementTheRegister == Spec => StoresKeepTheirPromise
<1>1. Spec => []StoreInv
  BY StoreInitInv, StoreNextInv, PTL DEF Spec, StoreStep
<1>2. Spec => ImplementsRegister
  BY StoreInitInv, StoreNextInv, <1>1, PTL
  DEF Spec, StoreStep, ImplementsRegister, Register!Spec
<1>3. Spec => [][AcknowledgedIsDurable']_vars
  BY <1>1, InvIsDurable, PTL
<1> QED
  BY <1>2, <1>3 DEF StoresKeepTheirPromise

-----------------------------------------------------------------------------
(* StateHistory: the history of an id, and a rewind.                        *)

(* The rows of checkpoints and of checkpoint_history.                       *)
Rows == [done : Seq(Nat \X Nat), value : Nat, next : 0..Steps, iteration : Nat,
         kind : {"none", "top", "paused", "end"}]

HistTypeOK ==
    /\ current \in [RunId -> Rows]
    /\ DOMAIN timeline = RunId
    /\ \A id \in RunId : /\ DOMAIN timeline[id] \subseteq Nat
                         /\ timeline[id] \in [DOMAIN timeline[id] -> Rows]
    /\ runner \in [pc : {"idle", "saving", "executing", "stopping"}, id : RunId, row : Rows]
    /\ turns \in Nat \ {0}
    /\ edits \in Nat
    /\ torn \in [RunId -> BOOLEAN]
    /\ rewound \in Rows

(* A row of a run that walked the line from its start, once.                *)
Walked(entry) ==
    /\ entry.kind # "none"
    /\ \A k \in 1..Len(entry.done) : entry.done[k][1] = k
    /\ entry.kind = "top" => /\ entry.iteration = Len(entry.done)
                           /\ entry.iteration <= Steps
                           /\ entry.next = FollowingStep(entry.iteration)
    /\ entry.kind = "paused" => /\ entry.iteration = Len(entry.done) + 1
                              /\ entry.iteration = AskingStep
                              /\ entry.next = 0
    /\ entry.kind = "end" => /\ entry.iteration = Len(entry.done)
                           /\ entry.next = 0

(* ... and goes on from the snapshot past with an edited value.             *)
GoesOnFrom(past, entry) ==
    /\ entry.value > 0
    /\ Len(past.done) <= Len(entry.done)
    /\ \A k \in 1..Len(past.done) : entry.done[k] = past.done[k]
    /\ \A k \in Len(past.done) + 1 .. Len(entry.done) : entry.done[k][2] > 0

(* The story is known by its rows as long as it is of one turn: a new turn  *)
(* counts its iterations from 0 again.  A branch is known from the snapshot *)
(* it was made from.                                                        *)
Tells(id, entry, past, turn) ==
    IF id = "branch" THEN Walked(entry) /\ GoesOnFrom(past, entry)
    ELSE turn = 1 => Walked(entry)

(* Every row of an id, and the one its run is at, tells its id's way here.  *)
RowsTell ==
    /\ \A id \in RunId : current[id] # NoRow => Tells(id, current[id], rewound, turns)
    /\ \A id \in RunId : \A i \in DOMAIN timeline[id] :
         Tells(id, timeline[id][i], rewound, turns) /\ timeline[id][i].iteration = i
    /\ runner.pc # "idle" => Tells(runner.id, runner.row, rewound, turns)

(* A run is at the row it has saved, and executes only what there is.       *)
RunnerIsSound ==
    /\ runner.pc \in {"saving", "stopping"} => current[runner.id] = runner.row
    /\ runner.pc \in {"saving", "executing"} => runner.row.next # 0

(* Nothing is saved under the id of the branch before the rewind.           *)
NoBranchYet ==
    rewound = NoRow => /\ current["branch"] = NoRow
                       /\ DOMAIN timeline["branch"] = {}
                       /\ runner.pc # "idle" => runner.id = "story"

HistInv == HistTypeOK /\ RowsTell /\ RunnerIsSound /\ NoBranchYet /\ TimelineHasTheCheckpoint

LEMMA RowFields ==
    ASSUME NEW entry \in Rows
    PROVE  /\ entry.done \in Seq(Nat \X Nat) /\ Len(entry.done) \in Nat
           /\ entry.value \in Nat /\ entry.next \in 0..Steps /\ entry.iteration \in Nat
           /\ entry.kind \in {"none", "top", "paused", "end"}
  BY DEF Rows

LEMMA NoRowIsARow == NoRow \in Rows /\ NoRow.kind = "none"
  BY HistoryAssumption DEF NoRow, Rows, HistoryAssumption

LEMMA AppendTells ==
    ASSUME NEW id \in RunId, NEW entry \in Rows, NEW step \in 0..Steps, NEW i \in Nat,
           Tells(id, entry, rewound, turns), turns \in Nat,
           (id = "branch" \/ turns = 1) => i = Len(entry.done) + 1 /\ step = i,
           rewound \in Rows
    PROVE  LET new == Row(Append(entry.done, <<step, entry.value>>), entry.value,
                          FollowingStep(step), i, "top")
           IN  new \in Rows /\ Tells(id, new, rewound, turns)
<1> DEFINE new == Row(Append(entry.done, <<step, entry.value>>), entry.value,
                      FollowingStep(step), i, "top")
           done == Append(entry.done, <<step, entry.value>>)
<1>1. /\ new.done = done /\ new.value = entry.value /\ new.next = FollowingStep(step)
      /\ new.iteration = i /\ new.kind = "top"
  BY DEF Row
<1>2. done \in Seq(Nat \X Nat) /\ Len(done) = Len(entry.done) + 1
  BY RowFields, HistoryAssumption DEF HistoryAssumption
<1>2a. Len(done) = Len(entry.done) + 1 /\ Len(entry.done) \in Nat
  BY <1>2, RowFields
<1>3. /\ done[Len(entry.done) + 1] = <<step, entry.value>>
      /\ \A k \in 1..Len(entry.done) : done[k] = entry.done[k]
  BY RowFields, HistoryAssumption DEF HistoryAssumption
<1>4. FollowingStep(step) \in 0..Steps
  BY HistoryAssumption DEF HistoryAssumption, FollowingStep
<1>5. new \in Rows
  BY <1>2, <1>4, RowFields DEF Row, Rows
<1> HIDE DEF new, done
<1>6. Len(entry.done) \in Nat /\ Len(rewound.done) \in Nat
  BY RowFields
<1>7. ASSUME Walked(entry), i = Len(entry.done) + 1, step = i
      PROVE  Walked(new)
  <2>1. \A k \in 1..Len(done) : done[k][1] = k
    <3> TAKE k \in 1..Len(done)
    <3>1. CASE k = Len(entry.done) + 1
      BY <1>3, <1>7, <3>1
    <3>2. CASE k \in 1..Len(entry.done)
      BY <1>3, <1>7, <3>2 DEF Walked
    <3> QED
      BY <1>2a, <1>6, <3>1, <3>2
  <2> QED
    BY <2>1, <1>1, <1>2, <1>6, <1>7 DEF Walked
<1>8. ASSUME GoesOnFrom(rewound, entry), entry.value > 0
      PROVE  GoesOnFrom(rewound, new)
  <2>1. Len(rewound.done) <= Len(entry.done)
    BY <1>8 DEF GoesOnFrom
  <2>2. \A k \in 1..Len(rewound.done) : done[k] = rewound.done[k]
    BY <1>8, <2>1, <1>3, <1>6 DEF GoesOnFrom
  <2>3. \A k \in Len(rewound.done) + 1 .. Len(done) : done[k][2] > 0
    <3> TAKE k \in Len(rewound.done) + 1 .. Len(done)
    <3>1. CASE k = Len(entry.done) + 1
      BY <1>3, <1>8, <3>1
    <3>2. CASE k \in Len(rewound.done) + 1 .. Len(entry.done)
      <4>1. k \in 1..Len(entry.done)
        BY <3>2, <1>6
      <4> QED
        BY <4>1, <1>3, <1>8, <3>2 DEF GoesOnFrom
    <3> QED
      BY <1>2a, <1>6, <3>1, <3>2
  <2> QED
    BY <2>1, <2>2, <2>3, <1>1, <1>2, <1>6, <1>8 DEF GoesOnFrom
<1>9. Tells(id, new, rewound, turns)
  BY <1>7, <1>8 DEF Tells, GoesOnFrom
<1> QED
  BY <1>5, <1>9 DEF new

LEMMA EndTells ==
    ASSUME NEW id \in RunId, NEW entry \in Rows, Tells(id, entry, rewound, turns), entry.next = 0,
           (id = "branch" \/ turns = 1) => entry.kind # "paused"
    PROVE  LET new == [entry EXCEPT !.kind = "end"]
           IN  new \in Rows /\ Tells(id, new, rewound, turns)
<1> DEFINE new == [entry EXCEPT !.kind = "end"]
<1>1. /\ new.done = entry.done /\ new.value = entry.value /\ new.next = entry.next
      /\ new.iteration = entry.iteration /\ new.kind = "end" /\ new \in Rows
  BY DEF Rows
<1> HIDE DEF new
<1>2. Walked(entry) /\ entry.kind # "paused" => Walked(new)
  BY <1>1, RowFields DEF Walked
<1>3. GoesOnFrom(rewound, entry) => GoesOnFrom(rewound, new)
  BY <1>1 DEF GoesOnFrom
<1>4. Tells(id, new, rewound, turns)
  BY <1>2, <1>3 DEF Tells
<1> QED
  BY <1>1, <1>4 DEF new

(* What is saved at the top of the loop, or at its end.                     *)
LEMMA ContinueTells ==
    ASSUME NEW id \in RunId, NEW entry \in Rows, Tells(id, entry, rewound, turns), entry.kind # "paused",
           ContinueWith(id, entry)
    PROVE  \E new \in Rows, then \in {"saving", "stopping"} :
             /\ Saving(id, new, then) /\ Tells(id, new, rewound, turns)
             /\ then = "saving" => new.next # 0
<1>1. CASE entry.next = 0
  <2>1. Saving(id, [entry EXCEPT !.kind = "end"], "stopping")
    BY <1>1 DEF ContinueWith
  <2> QED
    BY <1>1, <2>1, EndTells
<1>2. CASE entry.next # 0
  BY <1>2 DEF ContinueWith
<1> QED
  BY <1>1, <1>2

LEMMA SavingKeeps ==
    ASSUME HistInv, NEW id \in RunId, NEW entry \in Rows, NEW then \in {"saving", "stopping"},
           Saving(id, entry, then), timeline' = timeline,
           turns' \in Nat \ {0}, turns' = turns \/ turns' > 1, edits' \in Nat,
           rewound' \in Rows,
           \/ rewound' = rewound /\ (id = "branch" => rewound # NoRow)
           \/ rewound = NoRow /\ rewound' # NoRow /\ id = "branch",
           Tells(id, entry, rewound', turns'), then = "saving" => entry.next # 0
    PROVE  HistInv'
<1> USE DEF HistInv
<1>1. /\ current' \in [RunId -> Rows] /\ current'[id] = entry
      /\ \A o \in RunId : o # id => current'[o] = current[o]
  BY DEF Saving, HistTypeOK
<1>2. /\ runner' \in [pc : {"idle", "saving", "executing", "stopping"}, id : RunId, row : Rows]
      /\ runner'.pc = then /\ runner'.id = id /\ runner'.row = entry
  BY DEF Saving
<1>3. torn' \in [RunId -> BOOLEAN]
  BY DEF Saving, HistTypeOK
<1>4. torn'[id]
  BY DEF Saving, HistTypeOK
<1>5. \A o \in RunId : o # id => torn'[o] = torn[o]
  BY DEF Saving, HistTypeOK
<1>6. HistTypeOK'
  BY <1>1, <1>2, <1>3 DEF HistTypeOK
<1>7. ASSUME NEW o \in RunId, NEW r, Tells(o, r, rewound, turns), o = "branch" => rewound' = rewound
      PROVE  Tells(o, r, rewound', turns')
  BY <1>7 DEF Tells
<1>8. RowsTell'
  <2>1. ASSUME NEW o \in RunId, current'[o] # NoRow
        PROVE  Tells(o, current'[o], rewound', turns')
    <3>1. CASE o = id
      BY <3>1, <1>1
    <3>2. CASE o # id
      <4>1. current[o] # NoRow /\ current'[o] = current[o]
        BY <2>1, <3>2, <1>1
      <4>2. o = "branch" => rewound' = rewound
        BY <3>2
      <4> QED
        BY <4>1, <4>2, <1>7 DEF RowsTell
    <3> QED
      BY <3>1, <3>2
  <2>2. ASSUME NEW o \in RunId, NEW i \in DOMAIN timeline'[o]
        PROVE  Tells(o, timeline'[o][i], rewound', turns') /\ timeline'[o][i].iteration = i
    <3>1. o = "branch" => rewound' = rewound
      BY <2>2 DEF NoBranchYet
    <3>2. Tells(o, timeline[o][i], rewound, turns) /\ timeline[o][i].iteration = i
      BY <2>2 DEF RowsTell
    <3> QED
      BY <3>1, <3>2, <1>7
  <2> QED
    BY <2>1, <2>2, <1>2 DEF RowsTell
<1>9. RunnerIsSound'
  BY <1>1, <1>2 DEF RunnerIsSound
<1>10. NoBranchYet'
  <2> SUFFICES ASSUME rewound' = NoRow
               PROVE  NoBranchYet'
    BY DEF NoBranchYet
  <2>1. rewound = NoRow /\ id = "story"
    BY DEF RunId
  <2>2. current'["branch"] = current["branch"]
    BY <2>1, <1>1 DEF RunId
  <2> QED
    BY <2>1, <2>2, <1>2 DEF NoBranchYet
<1>11. TimelineHasTheCheckpoint'
  <2> SUFFICES ASSUME NEW o \in RunId, current'[o] # NoRow, ~torn'[o]
               PROVE  /\ current'[o].iteration \in DOMAIN timeline'[o]
                      /\ timeline'[o][current'[o].iteration] = current'[o]
    BY DEF TimelineHasTheCheckpoint
  <2>1. o # id
    BY <1>4
  <2>2. current'[o] = current[o] /\ ~torn[o]
    BY <2>1, <1>1, <1>5
  <2> QED
    BY <2>2 DEF TimelineHasTheCheckpoint
<1> QED
  BY <1>6, <1>8, <1>9, <1>10, <1>11

LEMMA HistoryInsertKeeps ==
    ASSUME HistInv, NEW then \in {"executing", "idle"}, HistoryInsert(then),
           \/ runner.pc = "saving" /\ then = "executing"
           \/ runner.pc = "stopping" /\ then = "idle",
           current' = current, turns' = turns, edits' = edits, rewound' = rewound
    PROVE  HistInv'
<1> USE DEF HistInv
<1> DEFINE id == runner.id  entry == runner.row
<1>1. /\ id \in RunId /\ entry \in Rows /\ runner.pc # "idle"
      /\ current[id] = entry /\ entry.iteration \in Nat
  BY RowFields DEF HistTypeOK, RunnerIsSound
<1>2. /\ runner' \in [pc : {"idle", "saving", "executing", "stopping"}, id : RunId, row : Rows]
      /\ runner'.pc = then /\ runner'.id = id /\ runner'.row = entry
  BY DEF HistoryInsert, HistTypeOK
<1>3. DOMAIN timeline' = RunId /\ \A o \in RunId : o # id => timeline'[o] = timeline[o]
  BY DEF HistoryInsert, HistTypeOK
<1>4. timeline'[id] = [i \in DOMAIN timeline[id] \cup {entry.iteration} |->
                         IF i = entry.iteration THEN entry ELSE timeline[id][i]]
  BY <1>1 DEF HistoryInsert, HistTypeOK
<1>5. torn' \in [RunId -> BOOLEAN]
  BY DEF HistoryInsert, HistTypeOK
<1>6. \A o \in RunId : o # id => torn'[o] = torn[o]
  BY DEF HistoryInsert, HistTypeOK
<1> HIDE DEF id, entry
<1>7. /\ DOMAIN timeline'[id] = DOMAIN timeline[id] \cup {entry.iteration}
      /\ timeline'[id][entry.iteration] = entry
      /\ \A i \in DOMAIN timeline[id] : i # entry.iteration => timeline'[id][i] = timeline[id][i]
  BY <1>4
<1>8. timeline'[id] \in [DOMAIN timeline'[id] -> Rows]
  <2>1. \A i \in DOMAIN timeline[id] : timeline[id][i] \in Rows
    BY <1>1 DEF HistTypeOK
  <2> QED
    BY <2>1, <1>4, <1>1
<1>9. HistTypeOK'
  <2>1. ASSUME NEW o \in RunId
        PROVE  DOMAIN timeline'[o] \subseteq Nat /\ timeline'[o] \in [DOMAIN timeline'[o] -> Rows]
    BY <1>1, <1>3, <1>7, <1>8 DEF HistTypeOK
  <2> QED
    BY <2>1, <1>2, <1>3, <1>5 DEF HistTypeOK
<1>10. ASSUME NEW o, NEW r
       PROVE  Tells(o, r, rewound', turns') <=> Tells(o, r, rewound, turns)
  BY DEF Tells
<1>11. Tells(id, entry, rewound, turns)
  BY <1>1 DEF RowsTell, id, entry
<1>12. RowsTell'
  <2>1. ASSUME NEW o \in RunId, NEW i \in DOMAIN timeline'[o]
        PROVE  Tells(o, timeline'[o][i], rewound', turns') /\ timeline'[o][i].iteration = i
    <3>1. CASE o # id
      BY <3>1, <2>1, <1>3, <1>10 DEF RowsTell
    <3>2. CASE o = id /\ i = entry.iteration
      BY <3>2, <1>7, <1>10, <1>11
    <3>3. CASE o = id /\ i # entry.iteration
      BY <3>3, <2>1, <1>7, <1>10 DEF RowsTell
    <3> QED
      BY <3>1, <3>2, <3>3
  <2>2. ASSUME NEW o \in RunId, current'[o] # NoRow
        PROVE  Tells(o, current'[o], rewound', turns')
    BY <2>2, <1>10 DEF RowsTell
  <2> QED
    BY <2>1, <2>2, <1>2, <1>10, <1>11 DEF RowsTell
<1>13. RunnerIsSound'
  BY <1>1, <1>2 DEF RunnerIsSound, id, entry
<1>14. NoBranchYet'
  <2> SUFFICES ASSUME rewound = NoRow
               PROVE  NoBranchYet'
    BY DEF NoBranchYet
  <2>1. id = "story"
    BY <1>1 DEF NoBranchYet, id
  <2> QED
    BY <2>1, <1>2, <1>3 DEF NoBranchYet, RunId
<1>15. TimelineHasTheCheckpoint'
  BY <1>1, <1>3, <1>6, <1>7 DEF TimelineHasTheCheckpoint
<1> QED
  BY <1>9, <1>12, <1>13, <1>14, <1>15

(* The inductive invariant is one of every step of the store.               *)
LEMMA HistInitInv == HistInit => HistInv
<1> SUFFICES ASSUME HistInit
             PROVE  HistInv
  OBVIOUS
<1> USE DEF HistInit
<1>1. NoRow \in Rows /\ NoRow.next \in 0..Steps
  BY NoRowIsARow, RowFields
<1>2. HistTypeOK
  BY <1>1 DEF HistTypeOK, AtRest, RunId
<1>3. \A id \in RunId : current[id] = NoRow /\ DOMAIN timeline[id] = {}
  OBVIOUS
<1>4. runner.pc = "idle"
  BY DEF AtRest
<1>5. RowsTell /\ RunnerIsSound
  BY <1>3, <1>4 DEF RowsTell, RunnerIsSound
<1>6. NoBranchYet /\ TimelineHasTheCheckpoint
  BY <1>3, <1>4 DEF NoBranchYet, TimelineHasTheCheckpoint, RunId
<1> QED
  BY <1>2, <1>5, <1>6 DEF HistInv

(* What the rows of an id that tells its story say of the next step.        *)
LEMMA NextStepIsOwn ==
    ASSUME NEW entry \in Rows, Walked(entry), HistoryAssumption
    PROVE  /\ entry.next # 0 => entry.kind = "top" /\ entry.iteration = Len(entry.done)
                              /\ entry.next = entry.iteration + 1
           /\ entry.kind = "paused" => AskingStep = entry.iteration /\ AskingStep = Len(entry.done) + 1
  BY RowFields DEF Walked, FollowingStep

LEMMA RunFromKeeps ==
    ASSUME HistInv, NEW id \in RunId, RunFrom(id)
    PROVE  HistInv'
<1> DEFINE entry == current[id]
           answered == Row(Append(entry.done, <<AskingStep, entry.value>>), entry.value,
                           FollowingStep(AskingStep), entry.iteration, "top")
           first == Row(<<>>, 0, 1, 0, "top")
<1>1. entry \in Rows /\ rewound \in Rows /\ turns \in Nat \ {0} /\ edits \in Nat
  BY DEF HistInv, HistTypeOK
<1>2. id = "branch" => entry # NoRow /\ rewound # NoRow
  BY DEF RunFrom, HistInv, NoBranchYet
<1>3. entry # NoRow => Tells(id, entry, rewound, turns)
  BY DEF HistInv, RowsTell
<1>4. timeline' = timeline /\ turns' = turns /\ edits' = edits /\ rewound' = rewound
  BY DEF RunFrom
<1>5. \E from \in Rows : /\ from.kind # "paused" /\ Tells(id, from, rewound, turns)
                         /\ ContinueWith(id, from)
  <2>1. CASE entry.kind = "none"
    <3>1. ContinueWith(id, first)
      BY <2>1 DEF RunFrom
    <3>2. /\ first.done = <<>> /\ first.next = 1 /\ first.iteration = 0 /\ first.kind = "top"
          /\ Len(first.done) = 0
      BY DEF Row
    <3>3. first \in Rows
      BY HistoryAssumption DEF Row, Rows, HistoryAssumption
    <3> HIDE DEF first
    <3>4. Walked(first)
      BY <3>2, HistoryAssumption DEF Walked, FollowingStep, HistoryAssumption
    <3>5. id # "branch"
      BY <1>2, <1>3, <2>1 DEF Tells, Walked
    <3>6. Tells(id, first, rewound, turns)
      BY <3>4, <3>5 DEF Tells
    <3> QED
      BY <3>1, <3>2, <3>3, <3>6
  <2>2. CASE entry.kind = "paused"
    <3>1. ContinueWith(id, answered)
      BY <2>2 DEF RunFrom
    <3>2. entry # NoRow
      BY <2>2, NoRowIsARow
    <3>3. entry.iteration \in Nat /\ AskingStep \in 0..Steps
      BY <1>1, RowFields, HistoryAssumption DEF HistoryAssumption
    <3>4. id = "branch" \/ turns = 1
          => entry.iteration = Len(entry.done) + 1 /\ AskingStep = entry.iteration
      BY <1>1, <1>3, <2>2, <3>2, NextStepIsOwn, HistoryAssumption DEF Tells
    <3>5. answered.kind = "top"
      BY DEF Row
    <3> HIDE DEF entry
    <3>6. answered \in Rows /\ Tells(id, answered, rewound, turns)
      BY <1>1, <1>3, <3>2, <3>3, <3>4, AppendTells
    <3> QED
      BY <3>1, <3>5, <3>6
  <2>3. CASE entry.kind \notin {"none", "paused"}
    <3>1. ContinueWith(id, entry)
      BY <2>3 DEF RunFrom
    <3>2. entry # NoRow
      BY <2>3, NoRowIsARow
    <3> QED
      BY <1>1, <1>3, <2>3, <3>1, <3>2
  <2> QED
    BY <2>1, <2>2, <2>3
<1>6. PICK new \in Rows, then \in {"saving", "stopping"} :
         /\ Saving(id, new, then) /\ Tells(id, new, rewound, turns)
         /\ then = "saving" => new.next # 0
  BY <1>5, ContinueTells
<1>7. Tells(id, new, rewound', turns')
  BY <1>4, <1>6
<1> QED
  BY <1>1, <1>2, <1>4, <1>6, <1>7, SavingKeeps

LEMMA StepEndsKeeps ==
    ASSUME HistInv, StepEnds
    PROVE  HistInv'
<1> DEFINE id == runner.id  entry == runner.row
           new == Row(Append(entry.done, <<entry.next, entry.value>>), entry.value,
                      FollowingStep(entry.next), entry.iteration + 1, "top")
<1>1. /\ id \in RunId /\ entry \in Rows /\ rewound \in Rows
      /\ turns \in Nat \ {0} /\ edits \in Nat
  BY DEF HistInv, HistTypeOK
<1>2. Tells(id, entry, rewound, turns) /\ entry.next # 0
  BY DEF HistInv, RowsTell, RunnerIsSound, StepEnds
<1>3. id = "branch" => rewound # NoRow
  BY DEF HistInv, NoBranchYet, StepEnds
<1>4. timeline' = timeline /\ turns' = turns /\ edits' = edits /\ rewound' = rewound
  BY DEF StepEnds
<1>5. ContinueWith(id, new)
  BY DEF StepEnds
<1>6. new.kind = "top"
  BY DEF Row
<1>7. entry.next \in 0..Steps /\ entry.iteration + 1 \in Nat
  BY <1>1, RowFields
<1>8. id = "branch" \/ turns = 1
      => entry.iteration + 1 = Len(entry.done) + 1 /\ entry.next = entry.iteration + 1
  BY <1>1, <1>2, NextStepIsOwn, HistoryAssumption DEF Tells
<1> HIDE DEF id, entry
<1>9. new \in Rows /\ Tells(id, new, rewound, turns)
  BY <1>1, <1>2, <1>7, <1>8, AppendTells
<1> HIDE DEF new
<1>10. PICK saved \in Rows, then \in {"saving", "stopping"} :
         /\ Saving(id, saved, then) /\ Tells(id, saved, rewound, turns)
         /\ then = "saving" => saved.next # 0
  BY <1>1, <1>5, <1>6, <1>9, ContinueTells
<1>11. Tells(id, saved, rewound', turns')
  BY <1>4, <1>10
<1>12. PICK who \in RunId : who = id
  BY <1>1
<1> QED
  BY <1>1, <1>3, <1>4, <1>10, <1>11, <1>12, SavingKeeps

LEMMA StepAsksKeeps ==
    ASSUME HistInv, StepAsks
    PROVE  HistInv'
<1> DEFINE entry == runner.row
<1>1. /\ runner.id \in RunId /\ entry \in Rows /\ rewound \in Rows
      /\ turns \in Nat \ {0} /\ edits \in Nat
  BY DEF HistInv, HistTypeOK
<1>2. PICK id \in RunId : id = runner.id
  BY <1>1
<1>3. PICK new : new = Row(entry.done, entry.value, 0, entry.iteration + 1, "paused")
  OBVIOUS
<1>4. Tells(id, entry, rewound, turns) /\ entry.next # 0 /\ entry.next = AskingStep
  BY <1>2 DEF HistInv, RowsTell, RunnerIsSound, StepAsks
<1>5. id = "branch" => rewound # NoRow
  BY <1>2 DEF HistInv, NoBranchYet, StepAsks
<1>6. timeline' = timeline /\ turns' = turns /\ edits' = edits /\ rewound' = rewound
  BY DEF StepAsks
<1>7. Saving(id, new, "stopping")
  BY <1>2, <1>3 DEF StepAsks
<1>8. new.done = entry.done /\ new.value = entry.value /\ new.next = 0
      /\ new.iteration = entry.iteration + 1 /\ new.kind = "paused"
  BY <1>3 DEF Row
<1>9. new \in Rows
  BY <1>1, <1>3, RowFields, HistoryAssumption DEF Row, Rows, HistoryAssumption
<1>10. Walked(entry) => Walked(new)
  <2> SUFFICES ASSUME Walked(entry)
               PROVE  Walked(new)
    OBVIOUS
  <2>1. entry.iteration = Len(entry.done) /\ entry.next = entry.iteration + 1
    BY <1>1, <1>4, NextStepIsOwn, HistoryAssumption
  <2> QED
    BY <1>4, <1>8, <2>1 DEF Walked
<1>11. GoesOnFrom(rewound, entry) => GoesOnFrom(rewound, new)
  BY <1>8 DEF GoesOnFrom
<1>12. Tells(id, new, rewound', turns')
  BY <1>4, <1>6, <1>10, <1>11 DEF Tells
<1> QED
  BY <1>1, <1>5, <1>6, <1>7, <1>9, <1>12, SavingKeeps

LEMMA NewTurnKeeps ==
    ASSUME HistInv, NewTurn
    PROVE  HistInv'
<1>1. PICK new : new = [current["story"] EXCEPT !.next = 1, !.iteration = 0, !.kind = "top"]
  OBVIOUS
<1>2. /\ current["story"] \in Rows /\ rewound \in Rows
      /\ turns \in Nat \ {0} /\ edits \in Nat /\ "story" \in RunId
  BY DEF HistInv, HistTypeOK, RunId
<1>3. new \in Rows
  <2>1. PICK entry \in Rows : entry = current["story"]
    BY <1>2
  <2>2. 1 \in 0..Steps
    BY HistoryAssumption DEF HistoryAssumption
  <2> QED
    BY <1>1, <2>1, <2>2 DEF Rows
<1>4. timeline' = timeline /\ turns' = turns + 1 /\ edits' = edits /\ rewound' = rewound
  BY DEF NewTurn
<1>5. turns' \in Nat \ {0} /\ turns' > 1
  BY <1>2, <1>4
<1>6. Tells("story", new, rewound', turns')
  BY <1>5 DEF Tells
<1>7. Saving("story", new, "stopping")
  BY <1>1 DEF NewTurn
<1> QED
  BY <1>2, <1>3, <1>4, <1>5, <1>6, <1>7, SavingKeeps

(* An edit changes the value only, and to one above 0.                      *)
LEMMA EditTells ==
    ASSUME NEW entry \in Rows, NEW value \in Nat \ {0}
    PROVE  LET new == [entry EXCEPT !.value = value]
           IN  /\ new \in Rows
               /\ Walked(entry) => Walked(new)
               /\ \A past : GoesOnFrom(past, entry) => GoesOnFrom(past, new)
               /\ Len(entry.done) \in Nat => GoesOnFrom(entry, new)
<1>1. PICK new : new = [entry EXCEPT !.value = value]
  OBVIOUS
<1>2. /\ new.done = entry.done /\ new.value = value /\ new.next = entry.next
      /\ new.iteration = entry.iteration /\ new.kind = entry.kind /\ new \in Rows
  BY <1>1 DEF Rows
<1>3. Walked(entry) => Walked(new)
  BY <1>2 DEF Walked
<1>4. \A past : GoesOnFrom(past, entry) => GoesOnFrom(past, new)
  BY <1>2 DEF GoesOnFrom
<1>5. Len(entry.done) \in Nat => GoesOnFrom(entry, new)
  BY <1>2 DEF GoesOnFrom
<1> QED
  BY <1>1, <1>2, <1>3, <1>4, <1>5

LEMMA UpdateStateKeeps ==
    ASSUME HistInv, NEW id \in RunId, UpdateState(id)
    PROVE  HistInv'
<1>1. /\ current[id] \in Rows /\ rewound \in Rows /\ turns \in Nat \ {0} /\ edits \in Nat
  BY DEF HistInv, HistTypeOK
<1>2. edits' = edits + 1 /\ timeline' = timeline /\ turns' = turns /\ rewound' = rewound
      /\ current[id] # NoRow
  BY DEF UpdateState
<1>3. PICK entry \in Rows : entry = current[id]
  BY <1>1
<1>4. PICK value \in Nat \ {0} : value = edits'
  <2>1. edits + 1 \in Nat \ {0}
    BY <1>1
  <2> QED
    BY <2>1, <1>2
<1>5. PICK new : new = [entry EXCEPT !.value = value]
  OBVIOUS
<1>6. /\ new \in Rows /\ (Walked(entry) => Walked(new))
      /\ \A past : GoesOnFrom(past, entry) => GoesOnFrom(past, new)
  BY <1>5, EditTells
<1>7. Tells(id, entry, rewound, turns)
  BY <1>2, <1>3 DEF HistInv, RowsTell
<1>8. Tells(id, new, rewound', turns')
  BY <1>2, <1>6, <1>7 DEF Tells
<1>9. Saving(id, new, "stopping")
  BY <1>3, <1>4, <1>5 DEF UpdateState
<1>10. id = "branch" => rewound # NoRow
  BY <1>2 DEF HistInv, NoBranchYet
<1> QED
  BY <1>1, <1>2, <1>4, <1>6, <1>8, <1>9, <1>10, SavingKeeps

LEMMA RewindKeeps ==
    ASSUME HistInv, NEW i, Rewind(i)
    PROVE  HistInv'
<1>1. /\ i \in DOMAIN timeline["story"] /\ "story" \in RunId /\ "branch" \in RunId
      /\ turns = 1 /\ turns' = turns /\ rewound = NoRow /\ timeline' = timeline
      /\ edits' = edits + 1 /\ rewound' = timeline["story"][i]
  BY DEF Rewind, RunId
<1>2. PICK entry : entry = timeline["story"][i]
  OBVIOUS
<1>3. entry \in Rows /\ edits \in Nat
  BY <1>1, <1>2 DEF HistInv, HistTypeOK
<1>4. Walked(entry)
  BY <1>1, <1>2 DEF HistInv, RowsTell, Tells
<1>5. PICK value \in Nat \ {0} : value = edits'
  <2>1. edits + 1 \in Nat \ {0}
    BY <1>3
  <2> QED
    BY <2>1, <1>1
<1>6. PICK new : new = [entry EXCEPT !.value = value]
  OBVIOUS
<1>7. new \in Rows /\ Walked(new) /\ GoesOnFrom(entry, new)
  BY <1>3, <1>4, <1>6, EditTells, RowFields
<1>8. entry # NoRow
  BY <1>4, NoRowIsARow DEF Walked
<1>9. Tells("branch", new, rewound', turns')
  BY <1>1, <1>2, <1>7 DEF Tells
<1>10. Saving("branch", new, "stopping")
  BY <1>1, <1>2, <1>5, <1>6 DEF Rewind
<1>11. /\ turns' \in Nat \ {0} /\ edits' \in Nat /\ rewound' \in Rows /\ rewound' # NoRow
  BY <1>1, <1>2, <1>3, <1>8
<1> QED
  BY <1>1, <1>7, <1>9, <1>10, <1>11, SavingKeeps

LEMMA DeleteKeeps ==
    ASSUME HistInv, DeleteRun
    PROVE  HistInv'
<1> USE DEF HistInv
<1>1. /\ timeline' = timeline /\ runner' = runner /\ edits' = edits /\ torn' = torn
      /\ rewound' = rewound /\ turns' = turns + 1 /\ runner.pc = "idle"
      /\ current' = [current EXCEPT !["story"] = NoRow]
  BY DEF DeleteRun
<1>2. turns \in Nat \ {0} /\ turns' \in Nat \ {0} /\ turns' > 1
  BY <1>1 DEF HistTypeOK
<1>3. /\ current' \in [RunId -> Rows] /\ current'["story"] = NoRow
      /\ \A o \in RunId : o # "story" => current'[o] = current[o]
  BY <1>1, NoRowIsARow DEF HistTypeOK, RunId
<1>4. HistTypeOK'
  BY <1>1, <1>2, <1>3 DEF HistTypeOK
<1>5. ASSUME NEW o \in RunId, NEW r, Tells(o, r, rewound, turns)
      PROVE  Tells(o, r, rewound', turns')
  BY <1>1, <1>2, <1>5 DEF Tells
<1>6. RowsTell'
  <2>1. ASSUME NEW o \in RunId, NEW i \in DOMAIN timeline'[o]
        PROVE  Tells(o, timeline'[o][i], rewound', turns') /\ timeline'[o][i].iteration = i
    BY <2>1, <1>1, <1>5 DEF RowsTell
  <2>2. ASSUME NEW o \in RunId, current'[o] # NoRow
        PROVE  Tells(o, current'[o], rewound', turns')
    <3>1. current'[o] = current[o] /\ current[o] # NoRow
      BY <2>2, <1>3
    <3> QED
      BY <3>1, <1>5 DEF RowsTell
  <2> QED
    BY <2>1, <2>2, <1>1 DEF RowsTell
<1>7. RunnerIsSound'
  BY <1>1 DEF RunnerIsSound
<1>8. NoBranchYet'
  BY <1>1, <1>3 DEF NoBranchYet, RunId
<1>9. TimelineHasTheCheckpoint'
  BY <1>1, <1>3 DEF TimelineHasTheCheckpoint
<1> QED
  BY <1>4, <1>6, <1>7, <1>8, <1>9

LEMMA CrashKeeps ==
    ASSUME HistInv, HistoryCrash
    PROVE  HistInv'
<1> USE DEF HistInv
<1>1. /\ timeline' = timeline /\ current' = current /\ edits' = edits /\ torn' = torn
      /\ rewound' = rewound /\ turns' = turns /\ runner' = AtRest
  BY DEF HistoryCrash
<1>2. /\ runner' \in [pc : {"idle", "saving", "executing", "stopping"}, id : RunId, row : Rows]
      /\ runner'.pc = "idle"
  BY <1>1, NoRowIsARow DEF AtRest, RunId
<1>3. HistTypeOK'
  BY <1>1, <1>2 DEF HistTypeOK
<1>4. RowsTell' /\ RunnerIsSound' /\ NoBranchYet' /\ TimelineHasTheCheckpoint'
  BY <1>1, <1>2 DEF RowsTell, RunnerIsSound, NoBranchYet, TimelineHasTheCheckpoint
<1> QED
  BY <1>3, <1>4

LEMMA HistNextInv == HistInv /\ [HistNext]_histVars => HistInv'
<1> SUFFICES ASSUME HistInv, [HistNext]_histVars
             PROVE  HistInv'
  OBVIOUS
<1>1. CASE FinishSave
  BY <1>1, HistoryInsertKeeps DEF FinishSave
<1>2. CASE StepEnds
  BY <1>2, StepEndsKeeps
<1>3. CASE StepAsks
  BY <1>3, StepAsksKeeps
<1>4. CASE NewTurn
  BY <1>4, NewTurnKeeps
<1>5. CASE DeleteRun
  BY <1>5, DeleteKeeps
<1>6. CASE HistoryCrash
  BY <1>6, CrashKeeps
<1>7. ASSUME NEW id \in RunId, RunFrom(id) \/ UpdateState(id)
      PROVE  HistInv'
  BY <1>7, RunFromKeeps, UpdateStateKeeps
<1>8. ASSUME NEW i \in 0..Steps + 1, Rewind(i)
      PROVE  HistInv'
  BY <1>8, RewindKeeps
<1>9. CASE UNCHANGED histVars
  <2>1. /\ timeline' = timeline /\ current' = current /\ edits' = edits /\ torn' = torn
        /\ rewound' = rewound /\ turns' = turns /\ runner' = runner
    BY <1>9 DEF histVars
  <2> QED
    BY <2>1 DEF HistInv, HistTypeOK, RowsTell, RunnerIsSound, NoBranchYet,
                TimelineHasTheCheckpoint
<1> QED
  BY <1>1, <1>2, <1>3, <1>4, <1>5, <1>6, <1>7, <1>8, <1>9 DEF HistNext

LEMMA HistInvTells == HistInv => HistoryTellsTheStory
<1> SUFFICES ASSUME HistInv
             PROVE  HistoryTellsTheStory
  OBVIOUS
<1>1. ASSUME NEW id \in RunId, NEW i \in DOMAIN timeline[id]
      PROVE  /\ timeline[id][i] \in Rows /\ timeline[id][i].iteration = i
             /\ Tells(id, timeline[id][i], rewound, turns)
  BY DEF HistInv, HistTypeOK, RowsTell
<1>2. "story" \in RunId /\ "branch" \in RunId /\ rewound \in Rows
  BY DEF RunId, HistInv, HistTypeOK
<1>3. RowsCountTheirSteps
  <2> SUFFICES ASSUME turns = 1, NEW i \in DOMAIN timeline["story"]
               PROVE  LET entry == timeline["story"][i]
                      IN  Len(entry.done) = IF entry.kind = "paused" THEN i - 1 ELSE i
    BY DEF RowsCountTheirSteps
  <2>1. PICK entry \in Rows : entry = timeline["story"][i]
    BY <1>1, <1>2
  <2>2. entry.iteration = i /\ Walked(entry)
    BY <2>1, <1>1, <1>2 DEF Tells
  <2> QED
    BY <2>1, <2>2, RowFields DEF Walked
<1>4. RewindKeepsThePast
  <2> SUFFICES ASSUME NEW i \in DOMAIN timeline["branch"]
               PROVE  LET done == timeline["branch"][i].done
                          past == Len(rewound.done)
                      IN  /\ IsPrefix(rewound.done, done)
                          /\ \A k \in DOMAIN done : done[k][1] = k
                          /\ \A k \in past + 1 .. Len(done) : done[k][2] > 0
    BY DEF RewindKeepsThePast
  <2>1. PICK entry \in Rows : entry = timeline["branch"][i]
    BY <1>1, <1>2
  <2>2. Walked(entry) /\ GoesOnFrom(rewound, entry)
    BY <2>1, <1>1, <1>2 DEF Tells
  <2>3. /\ entry.done \in Seq(Nat \X Nat) /\ rewound.done \in Seq(Nat \X Nat)
        /\ DOMAIN entry.done = 1..Len(entry.done)
    BY <1>2, RowFields
  <2>4. IsPrefix(rewound.done, entry.done)
    <3>1. PICK n \in Nat : n = Len(rewound.done)
      BY <2>3
    <3>2. /\ n <= Len(entry.done) /\ \A k \in 1..n : entry.done[k] = rewound.done[k]
      BY <2>2, <3>1 DEF GoesOnFrom
    <3>3. SubSeq(rewound.done, 1, n) = SubSeq(entry.done, 1, n)
      BY <2>3, <3>1, <3>2
    <3> QED
      BY <3>1, <3>2, <3>3 DEF IsPrefix
  <2> QED
    BY <2>1, <2>2, <2>3, <2>4 DEF Walked, GoesOnFrom
<1> QED
  BY <1>3, <1>4 DEF HistoryTellsTheStory, HistInv

(* The timeline has the current checkpoint at its iteration unless a crash  *)
(* cut the last save in two; a rewind's branch begins with the story up to  *)
(* the snapshot and goes on with edited values; and in a story of one turn  *)
(* the row of iteration i is the state after i steps: whatever is paused,   *)
(* answered, edited, deleted, run again and crashed, for any number of      *)
(* steps, turns, edits and crashes.                                         *)
THEOREM HistoryIsTold == HistSpec => []HistoryTellsTheStory
<1>1. HistSpec => []HistInv
  BY HistInitInv, HistNextInv, PTL DEF HistSpec
<1> QED
  BY <1>1, HistInvTells, PTL

===============================================================================
