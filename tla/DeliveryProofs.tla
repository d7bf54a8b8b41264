----------------------------- MODULE DeliveryProofs -----------------------------
(***************************************************************************)
(* Proofs about where runs come from.  For any sessions, ticks, jobs,      *)
(* updates, deaths and failures: what a daemon reports is in what it       *)
(* saved; a job leaves its directory only with its result; an update is    *)
(* forgotten by Telegram only when it was heard, and heard again only      *)
(* behind a fault; and what a run left as a trace arrives once, in order,  *)
(* and is found.                                                           *)
(***************************************************************************)
EXTENDS Channels, DaemonQueue, WorkflowCommands, TraceExport, FiniteSetTheorems, TLAPS

-----------------------------------------------------------------------------
(* Commands that run a workflow again and again. *)

CommandSpec == CommandInit /\ [][CommandNext]_commandVars

Mark == Nat \cup Sessions
CommandStates == [shares : BOOLEAN, items : Seq(Mark), answers : SUBSET Nat]
CommandLocals ==
    [pc : {"idle", "sleeping", "ready", "running", "paused", "ended", "failed"}, at : Nat,
     kept : CommandStates, copy : CommandStates, restored : BOOLEAN, resume : Nat, mark : Mark]
CommandRecords == [state : CommandStates, next : Nat, asked : Nat]

CaseResults == [status : {"ended", "paused", "failed"}, read : Seq(Mark)]

CommandTypeOK ==
    /\ command \in CommandConfig
    /\ seed \in Seq(Mark)
    /\ work \in [Sessions -> CommandLocals]
    /\ saved \in [Sessions -> CommandRecords \cup {NoRecord}]
    /\ rounds \in Nat
    /\ report \in Seq(CaseResults)

AllAre(items, mark) == \A i \in DOMAIN items : items[i] = mark

(* What the daemon printed is in what it saved, and in what it works on.    *)
(* Only a tick without questions comes to an end, and it has been noted.    *)
TicksAreHeld(s, local, row) ==
    /\ s = 1 => announced \subseteq IF row = NoRecord THEN {} ELSE ToSet(row.state.items)
    /\ local.pc # "idle" => announced \subseteq ToSet(ItemsOf(local.kept))
    /\ \/ local.pc \notin {"running", "ended"}
       \/ local.pc = "running" /\ local.at = 1
       \/ local.mark \in ToSet(ItemsOf(local.kept))

(* What a session or an example has, in its dicts and its record, is its.   *)
MarksAreOwn(s, local, row) ==
    /\ ~local.kept.shares /\ ~local.copy.shares
    /\ local.pc # "idle" => AllAre(local.kept.items, local.mark) /\ AllAre(local.copy.items, local.mark)
    /\ command.kind = "assistant" =>
         /\ local.pc # "idle" => local.mark = s
         /\ row # NoRecord => AllAre(row.state.items, s)

SessionIsSound(s, local, row) ==
    /\ command.kind # "assistant" /\ s # 1 => local.pc = "idle"
    /\ local.restored => command.kind \in {"run", "assistant"}
    /\ row # NoRecord => ~row.state.shares
    /\ command.kind = "daemon" => TicksAreHeld(s, local, row)
    /\ ~command.seeded /\ command.kind \in {"eval", "assistant"} => MarksAreOwn(s, local, row)

CommandInv == CommandTypeOK /\ \A s \in Sessions : SessionIsSound(s, work[s], saved[s])

LEMMA RecordsExist == NoRecord \notin CommandRecords
  BY DEF NoRecord, CommandRecords

LEMMA WorkIsTyped ==
    ASSUME CommandInv, NEW s \in Sessions
    PROVE  /\ work[s] \in CommandLocals /\ saved[s] \in CommandRecords \cup {NoRecord}
           /\ command \in CommandConfig /\ seed \in Seq(Mark)
           /\ SessionIsSound(s, work[s], saved[s])
  BY DEF CommandInv, CommandTypeOK

LEMMA SeedStateIsTyped == command \in CommandConfig => SeedState \in CommandStates
  BY DEF SeedState, CommandStates, CommandConfig

LEMMA IdleIsTyped ==
    command \in CommandConfig =>
      /\ IdleCommand \in CommandLocals /\ IdleCommand.pc = "idle" /\ ~IdleCommand.restored
      /\ IdleCommand.kept = SeedState /\ IdleCommand.copy = SeedState
      /\ IdleCommand.mark = 0 /\ IdleCommand.at = 0 /\ IdleCommand.resume = 0
<1> SUFFICES ASSUME command \in CommandConfig
             PROVE  /\ IdleCommand \in CommandLocals /\ IdleCommand.pc = "idle" /\ ~IdleCommand.restored
                    /\ IdleCommand.kept = SeedState /\ IdleCommand.copy = SeedState
                    /\ IdleCommand.mark = 0 /\ IdleCommand.at = 0 /\ IdleCommand.resume = 0
  OBVIOUS
<1>1. SeedState \in CommandStates /\ 0 \in Mark
  BY SeedStateIsTyped DEF Mark
<1>2. IdleCommand \in CommandLocals
  BY <1>1 DEF IdleCommand, CommandLocals
<1> QED
  BY <1>2 DEF IdleCommand

(* A step of one session that leaves the shared list and the history alone. *)
LEMMA SessionMoves ==
    ASSUME CommandInv, NEW s \in Sessions,
           NEW local \in CommandLocals, NEW row \in CommandRecords \cup {NoRecord},
           work' = [work EXCEPT ![s] = local], saved' = [saved EXCEPT ![s] = row],
           command' = command, seed' = seed, announced' = announced,
           rounds' \in Nat, report' \in Seq(CaseResults),
           SessionIsSound(s, local, row)
    PROVE  CommandInv'
<1>0. CommandTypeOK /\ \A u \in Sessions : SessionIsSound(u, work[u], saved[u])
  BY DEF CommandInv
<1>1. CommandTypeOK'
  BY <1>0 DEF CommandTypeOK
<1>2. ASSUME NEW u \in Sessions PROVE SessionIsSound(u, work'[u], saved'[u])
  <2>1. CASE u = s
    BY <2>1, <1>0 DEF CommandTypeOK
  <2>2. CASE u # s
    BY <2>2, <1>0 DEF CommandTypeOK
  <2> QED
    BY <2>1, <2>2
<1>3. ASSUME NEW u \in Sessions PROVE SessionIsSound(u, work[u], saved[u])'
  BY <1>2, <1>3 DEF SessionIsSound, TicksAreHeld, MarksAreOwn, ItemsOf
<1> QED
  BY <1>1, <1>3 DEF CommandInv

(* The one caller of a new process, which has read the document.            *)
LEMMA ProcessStarts ==
    ASSUME CommandInv, NEW s \in Sessions, s = 1, command.kind \in {"run", "daemon"},
           NEW local \in CommandLocals,
           work' = [work EXCEPT ![s] = local], saved' = saved,
           command' = command, seed' = <<>>, announced' = announced,
           rounds' \in Nat, report' = report,
           local.pc \in {"ready", "sleeping"}, ~local.restored,
           command.kind = "daemon" =>
             announced \subseteq ToSet(IF local.kept.shares THEN <<>> ELSE local.kept.items)
    PROVE  CommandInv'
<1>0. CommandTypeOK /\ \A u \in Sessions : SessionIsSound(u, work[u], saved[u])
  BY DEF CommandInv
<1>1. CommandTypeOK'
  BY <1>0 DEF CommandTypeOK
<1>2. ASSUME NEW u \in Sessions PROVE SessionIsSound(u, work[u], saved[u])'
  <2>1. CASE u = s
    <3>1. work'[u] = local
      BY <2>1, <1>0 DEF CommandTypeOK
    <3>2. SessionIsSound(u, work[u], saved[u])
      BY <1>0
    <3>3. ItemsOf(local.kept)' = IF local.kept.shares THEN <<>> ELSE local.kept.items
      BY DEF ItemsOf
    <3>4. command.kind = "daemon" => TicksAreHeld(u, work[u], saved[u])'
      BY <2>1, <3>1, <3>2, <3>3 DEF SessionIsSound, TicksAreHeld
    <3>5. saved'[u] # NoRecord => ~saved'[u].state.shares
      BY <3>2 DEF SessionIsSound
    <3> QED
      BY <2>1, <3>1, <3>4, <3>5 DEF SessionIsSound
  <2>2. CASE u # s
    <3>1. work'[u] = work[u] /\ saved'[u] = saved[u]
      BY <2>2, <1>0 DEF CommandTypeOK
    <3>2. SessionIsSound(u, work[u], saved[u])
      BY <1>0
    <3>3. work[u].pc = "idle"
      BY <2>2, <3>2 DEF SessionIsSound
    <3> QED
      BY <2>2, <3>1, <3>2, <3>3 DEF SessionIsSound, TicksAreHeld, MarksAreOwn
  <2> QED
    BY <2>1, <2>2
<1> QED
  BY <1>1, <1>2 DEF CommandInv

(* A step that is given by what becomes of the locals, with its record.     *)
LEMMA LocalMoves ==
    ASSUME CommandInv, NEW s \in Sessions, NEW local \in CommandLocals,
           work' = [work EXCEPT ![s] = local], saved' = saved,
           command' = command, seed' = seed, announced' = announced,
           rounds' \in Nat, report' \in Seq(CaseResults),
           SessionIsSound(s, local, saved[s])
    PROVE  CommandInv'
<1>1. saved' = [saved EXCEPT ![s] = saved[s]]
  BY DEF CommandInv, CommandTypeOK
<1>2. saved[s] \in CommandRecords \cup {NoRecord}
  BY WorkIsTyped
<1> QED
  BY <1>1, <1>2, SessionMoves

LEMMA RunStartsInv ==
    ASSUME CommandInv, NEW s \in Sessions, RunStarts(s) PROVE CommandInv'
<1>1. PICK given \in {0} \cup (IF saved[s].next = 0 THEN {saved[s].asked} ELSE {}) :
        work' = [work EXCEPT ![s] = [IdleCommand EXCEPT !.pc = "ready", !.resume = given]]
  BY DEF RunStarts
<1> DEFINE local == [IdleCommand EXCEPT !.pc = "ready", !.resume = given]
<1>2. command.kind = "run" /\ s = 1 /\ rounds' \in Nat
  BY DEF RunStarts, CommandInv, CommandTypeOK
<1>3. given \in Nat
  BY WorkIsTyped DEF CommandRecords, NoRecord
<1>4. local \in CommandLocals /\ local.pc = "ready" /\ ~local.restored
  BY <1>3, IdleIsTyped, WorkIsTyped DEF CommandLocals
<1>5. saved' = saved /\ command' = command /\ seed' = <<>> /\ announced' = announced /\ report' = report
  BY DEF RunStarts
<1> HIDE DEF local
<1>6. work' = [work EXCEPT ![s] = local]
  BY <1>1 DEF local
<1> QED
  BY <1>2, <1>4, <1>5, <1>6, ProcessStarts

LEMMA DaemonStartsInv ==
    ASSUME CommandInv, NEW s \in Sessions, DaemonStarts(s) PROVE CommandInv'
<1> DEFINE state == IF saved[s] = NoRecord THEN SeedState ELSE saved[s].state
           local == [IdleCommand EXCEPT !.pc = "sleeping", !.kept = state]
<1>1. SessionIsSound(s, work[s], saved[s]) /\ saved[s] \in CommandRecords \cup {NoRecord}
  BY WorkIsTyped
<1>2. command.kind = "daemon" /\ s = 1
  BY DEF DaemonStarts
<1>3. state \in CommandStates
  BY WorkIsTyped, SeedStateIsTyped DEF CommandRecords
<1>4. announced \subseteq ToSet(IF state.shares THEN <<>> ELSE state.items)
  <2>1. CASE saved[s] = NoRecord
    BY <2>1, <1>1, <1>2 DEF SessionIsSound, TicksAreHeld
  <2>2. CASE saved[s] # NoRecord
    BY <2>2, <1>1, <1>2 DEF SessionIsSound, TicksAreHeld
  <2> QED
    BY <2>1, <2>2
<1> HIDE DEF state
<1>5. local \in CommandLocals /\ local.pc = "sleeping" /\ ~local.restored /\ local.kept = state
  BY <1>3, IdleIsTyped, WorkIsTyped DEF CommandLocals
<1>6. work' = [work EXCEPT ![s] = local]
  BY DEF DaemonStarts, state
<1>7. saved' = saved /\ command' = command /\ seed' = <<>> /\ announced' = announced /\ report' = report
      /\ rounds' \in Nat
  BY DEF DaemonStarts, CommandInv, CommandTypeOK
<1> HIDE DEF local
<1>8. local.pc \in {"ready", "sleeping"}
  BY <1>5
<1>9. announced \subseteq ToSet(IF local.kept.shares THEN <<>> ELSE local.kept.items)
  BY <1>4, <1>5
<1> QED
  BY <1>2, <1>5, <1>6, <1>7, <1>8, <1>9, ProcessStarts

(* Steps that only move a run on, or end it, change nothing that is kept.   *)
LEMMA RunGoesOn ==
    ASSUME CommandInv, NEW s \in Sessions, NEW local \in CommandLocals,
           work' = [work EXCEPT ![s] = local], saved' = saved,
           command' = command, seed' = seed, announced' = announced,
           rounds' \in Nat, report' \in Seq(CaseResults),
           local.kept = work[s].kept, local.copy = work[s].copy, local.restored = work[s].restored,
           command.kind # "daemon" => local.mark = work[s].mark,
           work[s].pc # "idle", local.pc \notin {"running", "ended"}
    PROVE  CommandInv'
<1>1. SessionIsSound(s, work[s], saved[s])
  BY WorkIsTyped
<1>2. command.kind = "daemon" => TicksAreHeld(s, local, saved[s])
  BY <1>1 DEF SessionIsSound, TicksAreHeld
<1>3. ~command.seeded /\ command.kind \in {"eval", "assistant"} => MarksAreOwn(s, local, saved[s])
  BY <1>1 DEF SessionIsSound, MarksAreOwn
<1>4. SessionIsSound(s, local, saved[s])
  BY <1>1, <1>2, <1>3 DEF SessionIsSound
<1> QED
  BY <1>4, LocalMoves

LEMMA TickInv ==
    ASSUME CommandInv, NEW s \in Sessions, Tick(s) PROVE CommandInv'
<1> PICK old \in CommandLocals : old = work[s]
  BY WorkIsTyped
<1> DEFINE local == [old EXCEPT !.pc = "ready", !.mark = rounds + 1]
<1>1. rounds \in Nat /\ rounds' = rounds + 1 /\ rounds' \in Nat /\ rounds + 1 \in Mark
      /\ report' \in Seq(CaseResults)
  BY DEF Tick, CommandInv, CommandTypeOK, Mark
<1>2. local \in CommandLocals
  BY <1>1 DEF CommandLocals
<1>3. work' = [work EXCEPT ![s] = local]
  BY <1>1 DEF Tick, CommandInv, CommandTypeOK, CommandLocals
<1>4. local.kept = old.kept /\ local.copy = old.copy /\ local.restored = old.restored
      /\ local.pc = "ready" /\ command.kind = "daemon" /\ old.pc # "idle"
  BY DEF Tick, CommandLocals
<1>5. saved' = saved /\ command' = command /\ seed' = seed /\ announced' = announced
  BY DEF Tick
<1> HIDE DEF local
<1> QED
  BY <1>1, <1>2, <1>3, <1>4, <1>5, RunGoesOn

(* ... with the locals but for the program counter as they were.            *)
LEMMA PcMoves ==
    ASSUME CommandInv, NEW s \in Sessions, NEW pc \in {"idle", "sleeping", "ready", "paused", "failed"},
           work' = [work EXCEPT ![s].pc = pc], saved' = saved,
           command' = command, seed' = seed, announced' = announced,
           rounds' \in Nat, report' \in Seq(CaseResults), work[s].pc # "idle"
    PROVE  CommandInv'
<1> PICK old \in CommandLocals : old = work[s]
  BY WorkIsTyped
<1> DEFINE local == [old EXCEPT !.pc = pc]
<1>2. local \in CommandLocals
  BY DEF CommandLocals
<1>3. work' = [work EXCEPT ![s] = local]
  BY DEF CommandInv, CommandTypeOK, CommandLocals
<1>4. local.kept = old.kept /\ local.copy = old.copy /\ local.restored = old.restored
      /\ local.pc = pc /\ local.mark = old.mark /\ old.pc # "idle"
  BY DEF CommandLocals
<1> HIDE DEF local
<1> QED
  BY <1>2, <1>3, <1>4, RunGoesOn

(* A run that is over, or begins, has the workflow's initial state.         *)
LEMMA RunIsFresh ==
    ASSUME CommandInv, NEW s \in Sessions, NEW local \in CommandLocals,
           work' = [work EXCEPT ![s] = local], saved' = saved,
           command' = command, seed' = seed, announced' = announced,
           rounds' \in Nat, report' \in Seq(CaseResults),
           local.kept = SeedState, local.copy = SeedState, ~local.restored,
           local.pc \in {"idle", "ready"},
           local.pc = "ready" => /\ command.kind \in {"eval", "assistant"}
                                 /\ command.kind = "assistant" => local.mark = s
                                 /\ command.kind = "eval" => s = 1
    PROVE  CommandInv'
<1>1. SessionIsSound(s, work[s], saved[s])
  BY WorkIsTyped
<1>2. command.kind = "daemon" => TicksAreHeld(s, local, saved[s])
  BY <1>1 DEF SessionIsSound, TicksAreHeld
<1>3. ASSUME ~command.seeded, command.kind \in {"eval", "assistant"} PROVE MarksAreOwn(s, local, saved[s])
  <2>1. MarksAreOwn(s, work[s], saved[s])
    BY <1>1, <1>3 DEF SessionIsSound
  <2>2. ~SeedState.shares /\ AllAre(SeedState.items, local.mark)
    BY <1>3 DEF SeedState, AllAre
  <2> QED
    BY <2>1, <2>2 DEF MarksAreOwn
<1>4. SessionIsSound(s, local, saved[s])
  BY <1>1, <1>2, <1>3 DEF SessionIsSound
<1> QED
  BY <1>4, LocalMoves

LEMMA RunIsOver ==
    ASSUME CommandInv, NEW s \in Sessions, work' = [work EXCEPT ![s] = IdleCommand], saved' = saved,
           command' = command, seed' = seed, announced' = announced, rounds' = rounds, report' = report
    PROVE  CommandInv'
<1>1. rounds' \in Nat /\ report' \in Seq(CaseResults)
  BY DEF CommandInv, CommandTypeOK
<1>2. /\ IdleCommand \in CommandLocals /\ IdleCommand.pc = "idle" /\ ~IdleCommand.restored
      /\ IdleCommand.kept = SeedState /\ IdleCommand.copy = SeedState
  BY IdleIsTyped, WorkIsTyped
<1> QED
  BY <1>1, <1>2, RunIsFresh

LEMMA DaemonStopsInv ==
    ASSUME CommandInv, NEW s \in Sessions, DaemonStops(s) PROVE CommandInv'
  BY PcMoves DEF DaemonStops, CommandInv, CommandTypeOK

LEMMA TickSkippedInv ==
    ASSUME CommandInv, NEW s \in Sessions, TickSkipped(s) PROVE CommandInv'
  BY PcMoves DEF TickSkipped, CommandInv, CommandTypeOK

LEMMA JudgeFailsInv ==
    ASSUME CommandInv, NEW s \in Sessions, JudgeFails(s) PROVE CommandInv'
<1>1. report' \in Seq(CaseResults) /\ rounds' \in Nat
  BY DEF JudgeFails
<1>2. work' = [work EXCEPT ![s].pc = "idle"] /\ work[s].pc = "ended" /\ command' = command
      /\ seed' = seed /\ saved' = saved /\ announced' = announced
  BY DEF JudgeFails
<1> QED
  BY <1>1, <1>2, PcMoves

LEMMA RunExitsInv ==
    ASSUME CommandInv, NEW s \in Sessions, RunExits(s) PROVE CommandInv'
  BY RunIsOver DEF RunExits

LEMMA DaemonFailsInv ==
    ASSUME CommandInv, NEW s \in Sessions, DaemonFails(s) PROVE CommandInv'
  BY RunIsOver DEF DaemonFails

LEMMA TurnEndsInv ==
    ASSUME CommandInv, NEW s \in Sessions, TurnEnds(s) PROVE CommandInv'
  BY RunIsOver DEF TurnEnds

LEMMA CaseDoneInv ==
    ASSUME CommandInv, NEW s \in Sessions, CaseDone(s) PROVE CommandInv'
<1>1. work[s] \in CommandLocals /\ seed \in Seq(Mark)
  BY WorkIsTyped
<1>2. ItemsOf(work[s].kept) \in Seq(Mark)
  BY <1>1 DEF ItemsOf, CommandLocals, CommandStates
<1>3. [status |-> work[s].pc, read |-> ItemsOf(work[s].kept)] \in CaseResults
  BY <1>2 DEF CaseDone, CaseResults
<1>4. report' \in Seq(CaseResults) /\ rounds' \in Nat
  BY <1>3 DEF CaseDone, CommandInv, CommandTypeOK
<1> QED
  BY <1>4, PcMoves DEF CaseDone

LEMMA CaseStartsInv ==
    ASSUME CommandInv, NEW s \in Sessions, CaseStarts(s) PROVE CommandInv'
<1> DEFINE local == [IdleCommand EXCEPT !.pc = "ready", !.mark = Len(report) + 1]
<1>1. report \in Seq(CaseResults) /\ rounds \in Nat
  BY DEF CommandInv, CommandTypeOK
<1>2. Len(report) + 1 \in Mark
  BY <1>1 DEF Mark
<1>3. local \in CommandLocals /\ local.pc = "ready" /\ ~local.restored
      /\ local.kept = SeedState /\ local.copy = SeedState
  BY <1>2, IdleIsTyped, WorkIsTyped DEF CommandLocals
<1>4. work' = [work EXCEPT ![s] = local] /\ saved' = saved /\ command' = command /\ seed' = seed
      /\ announced' = announced /\ rounds' = rounds /\ report' = report
      /\ command.kind = "eval" /\ s = 1
  BY DEF CaseStarts
<1> HIDE DEF local
<1> QED
  BY <1>1, <1>3, <1>4, RunIsFresh

LEMMA AnsweredInv ==
    ASSUME CommandInv, NEW s \in Sessions, Answered(s) PROVE CommandInv'
<1> PICK old \in CommandLocals : old = work[s]
  BY WorkIsTyped
<1> DEFINE local == [old EXCEPT !.pc = "ready", !.resume = Question(old.at)]
<1>1. Question(old.at) \in Nat
  BY WorkIsTyped DEF Question, Finish, CommandConfig, CommandLocals
<1>2. local \in CommandLocals
  BY <1>1 DEF CommandLocals
<1>3. work' = [work EXCEPT ![s] = local]
  BY DEF Answered, CommandInv, CommandTypeOK, CommandLocals
<1>4. local.kept = old.kept /\ local.copy = old.copy /\ local.restored = old.restored
      /\ local.pc = "ready" /\ local.mark = old.mark /\ old.pc # "idle"
  BY DEF Answered, CommandLocals
<1>5. saved' = saved /\ command' = command /\ seed' = seed /\ announced' = announced
      /\ rounds' \in Nat /\ report' \in Seq(CaseResults)
  BY DEF Answered, CommandInv, CommandTypeOK
<1> HIDE DEF local
<1> QED
  BY <1>2, <1>3, <1>4, <1>5, RunGoesOn

(* What is saved is a copy; the daemon and eval give no checkpointer.       *)
LEMMA RecordIsACopy ==
    ASSUME CommandInv, NEW s \in Sessions, NEW state \in CommandStates,
           NEW next \in Nat, NEW question \in Nat
    PROVE  \E row \in CommandRecords \cup {NoRecord} :
             /\ Record(s, state, next, question) = [saved EXCEPT ![s] = row]
             /\ command.kind \notin {"run", "assistant"} => row = saved[s]
             /\ row = saved[s] \/ (row # NoRecord /\ ~row.state.shares /\ row.state.items = ItemsOf(state))
<1> DEFINE copied == Copied(state)
           row == IF Checkpointed THEN [state |-> copied, next |-> next, asked |-> question] ELSE saved[s]
<1>1. seed \in Seq(Mark) /\ saved[s] \in CommandRecords \cup {NoRecord}
  BY WorkIsTyped
<1>2. ItemsOf(state) \in Seq(Mark)
  BY <1>1 DEF ItemsOf, CommandStates
<1>3. copied \in CommandStates /\ ~copied.shares /\ copied.items = ItemsOf(state)
  BY <1>2 DEF Copied, CommandStates
<1>4. Record(s, state, next, question) = [saved EXCEPT ![s] = row]
  BY DEF Record, CommandInv, CommandTypeOK
<1>5. command.kind \notin {"run", "assistant"} => row = saved[s]
  BY DEF Checkpointed
<1> HIDE DEF copied
<1>6. [state |-> copied, next |-> next, asked |-> question] \in CommandRecords
  BY <1>3 DEF CommandRecords
<1>7. row \in CommandRecords \cup {NoRecord}
  BY <1>1, <1>6
<1>8. row = saved[s] \/ (row # NoRecord /\ ~row.state.shares /\ row.state.items = ItemsOf(state))
  BY <1>3, <1>6, RecordsExist
<1> QED
  BY <1>4, <1>5, <1>7, <1>8

LEMMA MarkedHolds ==
    ASSUME NEW items \in Seq(Mark), NEW mark \in Mark
    PROVE  /\ Marked(items, mark) \in Seq(Mark)
           /\ ToSet(items) \subseteq ToSet(Marked(items, mark))
           /\ mark \in ToSet(Marked(items, mark))
           /\ AllAre(items, mark) => AllAre(Marked(items, mark), mark)
<1>1. CASE mark \in ToSet(items)
  BY <1>1 DEF Marked
<1>2. CASE mark \notin ToSet(items)
  <2> DEFINE longer == Append(items, mark)
  <2>1. longer \in Seq(Mark) /\ Len(longer) = Len(items) + 1
        /\ longer[Len(items) + 1] = mark /\ Len(items) \in Nat
        /\ \A i \in 1..Len(items) : longer[i] = items[i]
    OBVIOUS
  <2>2. Marked(items, mark) = longer
    BY <1>2 DEF Marked
  <2> HIDE DEF longer
  <2>3. DOMAIN items = 1..Len(items) /\ DOMAIN longer = 1..(Len(items) + 1)
    BY <2>1
  <2>4. ToSet(items) \subseteq ToSet(longer)
    BY <2>1, <2>3 DEF ToSet
  <2>5. mark \in ToSet(longer)
    BY <2>1, <2>3 DEF ToSet
  <2>6. AllAre(items, mark) => AllAre(longer, mark)
    BY <2>1, <2>3 DEF AllAre
  <2> QED
    BY <2>1, <2>2, <2>4, <2>5, <2>6
<1> QED
  BY <1>1, <1>2

LEMMA TurnStartsInv ==
    ASSUME CommandInv, NEW s \in Sessions, TurnStarts(s) PROVE CommandInv'
<1> PICK waits \in BOOLEAN :
      /\ work' = [work EXCEPT ![s] = [IdleCommand EXCEPT !.pc = "ready", !.mark = s,
                       !.resume = IF waits THEN saved[s].asked ELSE 0]]
      /\ saved' = IF saved[s] = NoRecord \/ waits THEN saved ELSE Record(s, saved[s].state, 1, 0)
      /\ waits => saved[s] \in CommandRecords
  <2>1. saved[s].next = 0 => saved[s] \in CommandRecords
    BY WorkIsTyped DEF NoRecord
  <2> QED
    BY <2>1 DEF TurnStarts
<1> DEFINE given == IF waits THEN saved[s].asked ELSE 0
           local == [IdleCommand EXCEPT !.pc = "ready", !.mark = s, !.resume = given]
<1>1. command.kind = "assistant" /\ command' = command /\ seed' = seed /\ announced' = announced
      /\ rounds' \in Nat /\ report' \in Seq(CaseResults)
  BY DEF TurnStarts, CommandInv, CommandTypeOK
<1>2. given \in Nat /\ s \in Mark
  BY DEF CommandRecords, Mark
<1> HIDE DEF given
<1>3. local \in CommandLocals /\ local.pc = "ready" /\ ~local.restored /\ local.mark = s
      /\ local.kept = SeedState /\ local.copy = SeedState
  BY <1>2, IdleIsTyped, WorkIsTyped DEF CommandLocals
<1>4. work' = [work EXCEPT ![s] = local]
  BY DEF given
<1> HIDE DEF local
<1>5. CASE saved' = saved
  BY <1>1, <1>3, <1>4, <1>5, RunIsFresh
<1>6. CASE saved' # saved
  <2>1. saved[s] \in CommandRecords /\ saved' = Record(s, saved[s].state, 1, 0)
    BY <1>6, WorkIsTyped
  <2>2. PICK state \in CommandStates : state = saved[s].state
    BY <2>1 DEF CommandRecords
  <2>10. PICK next \in Nat, question \in Nat : next = 1 /\ question = 0
    OBVIOUS
  <2>9. saved' = Record(s, state, next, question)
    BY <2>1, <2>2, <2>10
  <2>3. PICK row \in CommandRecords \cup {NoRecord} :
          /\ saved' = [saved EXCEPT ![s] = row]
          /\ command.kind \notin {"run", "assistant"} => row = saved[s]
          /\ row = saved[s] \/ (row # NoRecord /\ ~row.state.shares /\ row.state.items = ItemsOf(state))
    <3>1. \E row \in CommandRecords \cup {NoRecord} :
             /\ Record(s, state, next, question) = [saved EXCEPT ![s] = row]
             /\ command.kind \notin {"run", "assistant"} => row = saved[s]
             /\ row = saved[s] \/ (row # NoRecord /\ ~row.state.shares /\ row.state.items = ItemsOf(state))
      BY RecordIsACopy
    <3> QED
      BY <2>9, <3>1
  <2>4. SessionIsSound(s, work[s], saved[s])
    BY WorkIsTyped
  <2>5. ~saved[s].state.shares
    BY <2>1, <2>4, RecordsExist DEF SessionIsSound
  <2>6. row # NoRecord /\ ~row.state.shares /\ row.state.items = saved[s].state.items
    BY <2>1, <2>2, <2>3, <2>5, RecordsExist DEF ItemsOf
  <2>7. ASSUME ~command.seeded PROVE MarksAreOwn(s, local, row)
    <3>1. MarksAreOwn(s, work[s], saved[s])
      BY <1>1, <2>4, <2>7 DEF SessionIsSound
    <3>2. ~SeedState.shares /\ AllAre(SeedState.items, local.mark)
      BY <2>7 DEF SeedState, AllAre
    <3>3. AllAre(row.state.items, s)
      BY <3>1, <2>1, <2>6, <1>1, RecordsExist DEF MarksAreOwn
    <3> QED
      BY <1>3, <3>2, <3>3 DEF MarksAreOwn
  <2>8. SessionIsSound(s, local, row)
    BY <1>1, <1>3, <2>6, <2>7 DEF SessionIsSound
  <2> QED
    BY <1>1, <1>3, <1>4, <2>3, <2>8, SessionMoves
<1> QED
  BY <1>5, <1>6

LEMMA GraphRunsInv ==
    ASSUME CommandInv, NEW s \in Sessions, GraphRuns(s) PROVE CommandInv'
<1> PICK old \in CommandLocals : old = work[s]
  BY WorkIsTyped
<1>0. saved' = saved /\ command' = command /\ seed' = seed /\ announced' = announced
      /\ rounds' \in Nat /\ report' \in Seq(CaseResults) /\ old.pc = "ready"
  BY DEF GraphRuns, CommandInv, CommandTypeOK
<1>1. SessionIsSound(s, old, saved[s])
  BY WorkIsTyped
<1>2. CASE ~Checkpointed \/ saved[s] = NoRecord
  <2> DEFINE local == [old EXCEPT !.pc = "running", !.at = 1, !.restored = FALSE]
  <2>1. work' = [work EXCEPT ![s] = local]
    BY <1>2 DEF GraphRuns, CommandInv, CommandTypeOK
  <2>2. local \in CommandLocals
    BY DEF CommandLocals
  <2>3. local.pc = "running" /\ local.at = 1 /\ ~local.restored
        /\ local.kept = old.kept /\ local.copy = old.copy /\ local.mark = old.mark
    BY DEF CommandLocals
  <2> HIDE DEF local
  <2>4. SessionIsSound(s, local, saved[s])
    BY <1>0, <1>1, <2>3 DEF SessionIsSound, TicksAreHeld, MarksAreOwn
  <2> QED
    BY <1>0, <2>1, <2>2, <2>4, LocalMoves
<1>3. CASE Checkpointed /\ saved[s] # NoRecord
  <2>0. saved[s] \in CommandRecords /\ command.kind \in {"run", "assistant"} /\ command \in CommandConfig
    BY <1>3, WorkIsTyped DEF Checkpointed
  <2> PICK row \in CommandRecords : row = saved[s]
    BY <2>0
  <2>1. row.state \in CommandStates /\ row.next \in Nat /\ row.asked \in Nat /\ ~row.state.shares
        /\ row.asked + 1 \in Nat
    BY <1>1, <1>3 DEF SessionIsSound, CommandRecords
  <2>2. CASE row.next = 0 /\ row.asked # 0 /\ old.resume = 0
    <3> DEFINE local == [old EXCEPT !.pc = "paused", !.at = row.asked + 1]
    <3>1. work' = [work EXCEPT ![s] = local]
      BY <1>3, <2>2 DEF GraphRuns, CommandInv, CommandTypeOK
    <3>2. local \in CommandLocals
      BY <2>1 DEF CommandLocals
    <3>3. local.pc = "paused" /\ local.restored = old.restored
          /\ local.kept = old.kept /\ local.copy = old.copy /\ local.mark = old.mark
      BY DEF CommandLocals
    <3> HIDE DEF local
    <3>4. SessionIsSound(s, local, saved[s])
      BY <1>0, <1>1, <2>0, <3>3 DEF SessionIsSound, MarksAreOwn
    <3> QED
      BY <1>0, <3>1, <3>2, <3>4, LocalMoves
  <2>3. CASE ~(row.next = 0 /\ row.asked # 0 /\ old.resume = 0)
    <3>1. PICK copy \in CommandStates, at \in Nat :
            /\ work' = [work EXCEPT ![s] = [old EXCEPT !.pc = "running", !.at = at, !.restored = TRUE, !.copy = copy]]
            /\ ~copy.shares /\ copy.items = row.state.items
      <4>1. CASE row.next = 0 /\ row.asked # 0
        <5> DEFINE copy == [row.state EXCEPT !.answers = @ \cup {row.asked}]
                   at == After(row.asked + 1)
        <5>1. copy \in CommandStates /\ ~copy.shares /\ copy.items = row.state.items
          BY <2>1 DEF CommandStates
        <5>2. at \in Nat
          BY <2>0, <2>1 DEF After, Finish, CommandConfig
        <5>3. work' = [work EXCEPT ![s] = [old EXCEPT !.pc = "running", !.at = at, !.restored = TRUE, !.copy = copy]]
          BY <1>3, <2>3, <4>1 DEF GraphRuns, CommandInv, CommandTypeOK
        <5> HIDE DEF copy, at
        <5> QED
          BY <5>1, <5>2, <5>3
      <4>2. CASE ~(row.next = 0 /\ row.asked # 0)
        <5>1. work' = [work EXCEPT ![s] = [old EXCEPT !.pc = "running", !.at = row.next, !.restored = TRUE,
                                                      !.copy = row.state]]
          BY <1>3, <4>2 DEF GraphRuns, CommandInv, CommandTypeOK
        <5> QED
          BY <5>1, <2>1
      <4> QED
        BY <4>1, <4>2
    <3> DEFINE local == [old EXCEPT !.pc = "running", !.at = at, !.restored = TRUE, !.copy = copy]
    <3>2. local \in CommandLocals
      BY DEF CommandLocals
    <3>3. local.pc = "running" /\ local.kept = old.kept /\ local.copy = copy /\ local.mark = old.mark
      BY DEF CommandLocals
    <3>4. work' = [work EXCEPT ![s] = local]
      BY <3>1
    <3> HIDE DEF local
    <3>5. ASSUME ~command.seeded, command.kind = "assistant" PROVE MarksAreOwn(s, local, saved[s])
      <4>1. MarksAreOwn(s, old, saved[s])
        BY <1>1, <3>5 DEF SessionIsSound
      <4>2. old.mark = s /\ AllAre(row.state.items, s)
        BY <4>1, <3>5, <1>0, <1>3 DEF MarksAreOwn
      <4>3. AllAre(local.copy.items, local.mark)
        BY <4>2, <3>1, <3>3
      <4> QED
        BY <4>1, <4>2, <4>3, <3>1, <3>3, <1>0 DEF MarksAreOwn
    <3>6. SessionIsSound(s, local, saved[s])
      BY <1>0, <1>1, <2>0, <3>3, <3>5 DEF SessionIsSound
    <3> QED
      BY <1>0, <3>2, <3>4, <3>6, LocalMoves
  <2> QED
    BY <2>2, <2>3
<1> QED
  BY <1>2, <1>3

(* A node of a run that puts its state in the record, if there is one.      *)
LEMMA NodeRecords ==
    ASSUME CommandInv, NEW s \in Sessions, NEW pc \in {"paused", "ended", "failed"},
           NEW next \in Nat, NEW question \in Nat,
           work' = [work EXCEPT ![s].pc = pc], saved' = Record(s, Working(s), next, question),
           command' = command, seed' = seed, announced' = announced,
           rounds' = rounds, report' = report,
           work[s].pc = "running", pc = "ended" => work[s].at # 1
    PROVE  CommandInv'
<1> PICK old \in CommandLocals : old = work[s]
  BY WorkIsTyped
<1> DEFINE local == [old EXCEPT !.pc = pc]
<1>0. rounds' \in Nat /\ report' \in Seq(CaseResults)
  BY DEF CommandInv, CommandTypeOK
<1>1. SessionIsSound(s, old, saved[s])
  BY WorkIsTyped
<1>2. local \in CommandLocals
  BY DEF CommandLocals
<1>3. local.kept = old.kept /\ local.copy = old.copy /\ local.restored = old.restored
      /\ local.mark = old.mark /\ local.pc = pc
  BY DEF CommandLocals
<1>4. work' = [work EXCEPT ![s] = local]
  BY DEF CommandInv, CommandTypeOK
<1> HIDE DEF local
<1>5. PICK state \in CommandStates : state = Working(s)
  BY DEF Working, CommandLocals
<1>6. PICK row \in CommandRecords \cup {NoRecord} :
        /\ Record(s, state, next, question) = [saved EXCEPT ![s] = row]
        /\ command.kind \notin {"run", "assistant"} => row = saved[s]
        /\ row = saved[s] \/ (row # NoRecord /\ ~row.state.shares /\ row.state.items = ItemsOf(state))
  BY SMTT(30), RecordIsACopy
<1>7. /\ saved' = [saved EXCEPT ![s] = row]
      /\ command.kind \notin {"run", "assistant"} => row = saved[s]
      /\ row = saved[s] \/ (row # NoRecord /\ ~row.state.shares /\ row.state.items = ItemsOf(state))
  BY <1>5, <1>6
<1>8. row # NoRecord => ~row.state.shares
  BY <1>1, <1>7 DEF SessionIsSound
<1>9. command.kind = "daemon" => TicksAreHeld(s, local, row)
  BY <1>1, <1>3, <1>7 DEF SessionIsSound, TicksAreHeld
<1>10. ASSUME ~command.seeded, command.kind \in {"eval", "assistant"} PROVE MarksAreOwn(s, local, row)
  <2>1. MarksAreOwn(s, old, saved[s])
    BY <1>1, <1>10 DEF SessionIsSound
  <2>2. AllAre(ItemsOf(state), old.mark)
    BY <2>1, <1>5 DEF MarksAreOwn, Working, ItemsOf
  <2>3. command.kind = "assistant" /\ row # NoRecord => AllAre(row.state.items, s)
    BY <2>1, <2>2, <1>7 DEF MarksAreOwn
  <2> QED
    BY <2>1, <2>3, <1>3 DEF MarksAreOwn
<1>11. SessionIsSound(s, local, row)
  BY <1>1, <1>3, <1>8, <1>9, <1>10 DEF SessionIsSound
<1> QED
  BY <1>0, <1>2, <1>4, <1>7, <1>11, SessionMoves

LEMMA AskInv ==
    ASSUME CommandInv, NEW s \in Sessions, Ask(s) PROVE CommandInv'
<1>1. PICK question \in Nat : question = Question(work[s].at)
  BY WorkIsTyped DEF Question, Finish, CommandConfig, CommandLocals
<1>2. saved' = Record(s, Working(s), 0, question)
  BY <1>1 DEF Ask
<1> QED
  BY <1>2, NodeRecords DEF Ask

LEMMA CompleteInv ==
    ASSUME CommandInv, NEW s \in Sessions, Complete(s) PROVE CommandInv'
<1>1. Finish # 1
  BY WorkIsTyped DEF Finish, CommandConfig
<1>2. PICK none \in Nat : none = 0
  OBVIOUS
<1>3. saved' = Record(s, Working(s), none, none) /\ work[s].at # 1
  BY <1>1, <1>2 DEF Complete
<1> QED
  BY <1>3, NodeRecords DEF Complete

LEMMA NodeFailsInv ==
    ASSUME CommandInv, NEW s \in Sessions, NodeFails(s) PROVE CommandInv'
<1>1. PICK at \in Nat : at = work[s].at
  BY WorkIsTyped DEF CommandLocals
<1>2. saved' = Record(s, Working(s), at, 0)
  BY <1>1 DEF NodeFails
<1> QED
  BY <1>2, NodeRecords DEF NodeFails

(* The mark is appended to the run's own list, or to the document's.        *)
LEMMA NoteInv ==
    ASSUME CommandInv, NEW s \in Sessions, Note(s) PROVE CommandInv'
<1> PICK old \in CommandLocals : old = work[s]
  BY WorkIsTyped
<1>0. /\ rounds' \in Nat /\ report' \in Seq(CaseResults) /\ command' = command /\ announced' = announced
      /\ old.pc = "running" /\ seed \in Seq(Mark) /\ old.mark \in Mark
      /\ CommandTypeOK /\ \A u \in Sessions : SessionIsSound(u, work[u], saved[u])
  BY DEF Note, CommandInv, CommandTypeOK, CommandLocals
<1>1. SessionIsSound(s, old, saved[s])
  BY WorkIsTyped
<1>2. PICK state \in CommandStates : state = Working(s)
  BY DEF Working, CommandLocals
<1> DEFINE noted == IF state.shares THEN state ELSE [state EXCEPT !.items = Marked(@, old.mark)]
           copy == IF old.restored THEN noted ELSE old.copy
           kept == IF old.restored THEN old.kept ELSE noted
           local == [old EXCEPT !.at = 2, !.copy = copy, !.kept = kept]
<1>3. /\ Marked(state.items, old.mark) \in Seq(Mark)
      /\ old.mark \in ToSet(Marked(state.items, old.mark))
      /\ ToSet(state.items) \subseteq ToSet(Marked(state.items, old.mark))
      /\ AllAre(state.items, old.mark) => AllAre(Marked(state.items, old.mark), old.mark)
  BY <1>0, MarkedHolds DEF CommandStates
<1>4. /\ noted \in CommandStates /\ noted.shares = state.shares
      /\ noted.items = IF state.shares THEN state.items ELSE Marked(state.items, old.mark)
  BY <1>3 DEF CommandStates
<1>12. [state EXCEPT !.items = IF state.shares THEN @ ELSE Marked(@, old.mark)] = noted
  BY DEF CommandStates
<1> HIDE DEF noted
<1>5. work' = [work EXCEPT ![s] = local]
  <2> DEFINE written == [Working(s) EXCEPT !.items = IF Working(s).shares THEN @
                                                     ELSE Marked(@, work[s].mark)]
  <2>1. written = noted
    BY <1>12, <1>2
  <2>2. work' = [work EXCEPT ![s].at = 2, ![s].copy = IF work[s].restored THEN written ELSE @,
                             ![s].kept = IF work[s].restored THEN @ ELSE written]
    BY DEF Note
  <2> HIDE DEF written
  <2>3. copy = (IF work[s].restored THEN written ELSE work[s].copy)
        /\ kept = (IF work[s].restored THEN work[s].kept ELSE written)
    BY <2>1
  <2>4. work \in [Sessions -> CommandLocals]
    BY <1>0 DEF CommandTypeOK
  <2> HIDE DEF copy, kept
  <2>5. work' = [work EXCEPT ![s].at = 2, ![s].copy = copy, ![s].kept = kept]
    BY <2>2, <2>3, <2>4 DEF CommandLocals
  <2> QED
    BY <2>4, <2>5 DEF CommandLocals
<1>13. copy \in CommandStates /\ kept \in CommandStates
  BY <1>4 DEF CommandLocals
<1>6. local \in CommandLocals
  BY <1>13 DEF CommandLocals
<1>7. /\ local.kept = (IF old.restored THEN old.kept ELSE noted)
      /\ local.copy = (IF old.restored THEN noted ELSE old.copy)
      /\ local.restored = old.restored /\ local.mark = old.mark /\ local.pc = "running" /\ local.at = 2
  BY <1>0 DEF CommandLocals
<1> HIDE DEF local
<1>8. PICK row \in CommandRecords \cup {NoRecord} :
        /\ saved' = [saved EXCEPT ![s] = row]
        /\ command.kind \notin {"run", "assistant"} => row = saved[s]
        /\ row = saved[s] \/ (row # NoRecord /\ ~row.state.shares /\ row.state.items = ItemsOf(state))
  <2>1. PICK next \in Nat, question \in Nat :
           next = 1 /\ question = 0 /\ saved' = Record(s, state, next, question)
    BY <1>2 DEF Note
  <2> QED
    BY <2>1, RecordIsACopy
<1>9. row # NoRecord => ~row.state.shares
  BY <1>1, <1>8 DEF SessionIsSound
<1>10. CASE ~state.shares
  <2>1. seed' = seed
    BY <1>10, <1>2 DEF Note
  <2>2. command.kind = "daemon" => TicksAreHeld(s, local, row)
    <3>1. SUFFICES ASSUME command.kind = "daemon" PROVE TicksAreHeld(s, local, row)
      OBVIOUS
    <3>2. TicksAreHeld(s, old, saved[s]) /\ ~old.restored /\ state = old.kept
      BY <3>1, <1>1, <1>2 DEF SessionIsSound, Working
    <3>3. ItemsOf(local.kept) = Marked(state.items, old.mark) /\ ItemsOf(old.kept) = state.items
      BY <3>2, <1>4, <1>7, <1>10 DEF ItemsOf
    <3> QED
      BY <3>1, <3>2, <3>3, <1>0, <1>3, <1>7, <1>8 DEF TicksAreHeld
  <2>3. ASSUME ~command.seeded, command.kind \in {"eval", "assistant"} PROVE MarksAreOwn(s, local, row)
    <3>1. MarksAreOwn(s, old, saved[s])
      BY <1>1, <2>3 DEF SessionIsSound
    <3>2. AllAre(state.items, old.mark) /\ ItemsOf(state) = state.items
      BY <3>1, <1>0, <1>2, <1>10 DEF MarksAreOwn, Working, ItemsOf
    <3>3. AllAre(noted.items, old.mark) /\ ~noted.shares
      BY <3>2, <1>3, <1>4, <1>10
    <3>4. command.kind = "assistant" /\ row # NoRecord => AllAre(row.state.items, s)
      BY <3>1, <3>2, <1>0, <1>8 DEF MarksAreOwn
    <3>5. AllAre(local.kept.items, local.mark) /\ AllAre(local.copy.items, local.mark)
          /\ ~local.kept.shares /\ ~local.copy.shares
      BY <3>1, <3>3, <1>0, <1>7 DEF MarksAreOwn
    <3> QED
      BY <3>1, <3>4, <3>5, <1>0, <1>7 DEF MarksAreOwn
  <2>4. SessionIsSound(s, local, row)
    BY <2>2, <2>3, <1>0, <1>1, <1>7, <1>9 DEF SessionIsSound
  <2> QED
    BY <2>1, <2>4, <1>0, <1>5, <1>6, <1>8, SessionMoves
<1>11. CASE state.shares
  <2>1. seed' = Marked(seed, old.mark)
    BY <1>11, <1>2 DEF Note
  <2>2. /\ seed' \in Seq(Mark) /\ old.mark \in ToSet(seed') /\ ToSet(seed) \subseteq ToSet(seed')
    BY <2>1, <1>0, MarkedHolds
  <2>3. command.seeded \/ command.kind \notin {"eval", "assistant"}
    BY <1>1, <1>2, <1>11 DEF SessionIsSound, MarksAreOwn, Working
  <2>4. CommandTypeOK'
    BY <2>2, <1>0, <1>5, <1>6, <1>8 DEF CommandTypeOK
  <2>5. ASSUME NEW u \in Sessions PROVE SessionIsSound(u, work[u], saved[u])'
    <3>1. CASE u = s
      <4>1. work'[u] = local /\ saved'[u] = row
        BY <3>1, <1>0, <1>5, <1>8 DEF CommandTypeOK
      <4>2. ASSUME command.kind = "daemon" PROVE TicksAreHeld(u, work[u], saved[u])'
        <5>1. TicksAreHeld(s, old, saved[s]) /\ ~old.restored /\ state = old.kept /\ row = saved[s]
          BY <4>2, <1>1, <1>2, <1>8 DEF SessionIsSound, Working
        <5>2. local.kept.shares /\ old.kept.shares
          BY <5>1, <1>4, <1>7, <1>11
        <5>3. announced \subseteq ToSet(seed)
          BY <5>1, <5>2, <1>0 DEF TicksAreHeld, ItemsOf
        <5>4. ItemsOf(work[u].kept)' = seed'
          BY <4>1, <5>2 DEF ItemsOf
        <5> QED
          BY <4>1, <5>1, <5>3, <5>4, <2>2, <3>1, <1>0, <1>7 DEF TicksAreHeld
      <4> QED
        BY <4>1, <4>2, <3>1, <2>3, <1>0, <1>1, <1>7, <1>9 DEF SessionIsSound
    <3>2. CASE u # s
      <4>1. work'[u] = work[u] /\ saved'[u] = saved[u] /\ SessionIsSound(u, work[u], saved[u])
        BY <3>2, <1>0, <1>5, <1>8 DEF CommandTypeOK
      <4>2. command.kind = "daemon" => work[u].pc = "idle" /\ u # 1
        BY <4>1, <3>2, <1>0, <1>1 DEF SessionIsSound
      <4> QED
        BY <4>1, <4>2, <2>3, <1>0 DEF SessionIsSound, TicksAreHeld
    <3> QED
      BY <3>1, <3>2
  <2> QED
    BY <2>4, <2>5 DEF CommandInv
<1> QED
  BY <1>10, <1>11

LEMMA TickSavedInv ==
    ASSUME CommandInv, NEW s \in Sessions, TickSaved(s) PROVE CommandInv'
<1> PICK old \in CommandLocals : old = work[s]
  BY WorkIsTyped
<1> DEFINE local == [old EXCEPT !.pc = "sleeping"]
           copied == Copied(old.kept)
           record == [state |-> copied, next |-> 0, asked |-> 0]
<1>0. /\ CommandTypeOK /\ \A u \in Sessions : SessionIsSound(u, work[u], saved[u])
      /\ command.kind = "daemon" /\ old.pc = "ended" /\ command' = command /\ seed' = seed
  BY DEF TickSaved, CommandInv
<1>1. TicksAreHeld(s, old, saved[s]) /\ ~old.restored /\ s = 1
      /\ (saved[s] # NoRecord => ~saved[s].state.shares)
  BY <1>0 DEF SessionIsSound
<1>2. ItemsOf(old.kept) \in Seq(Mark)
  BY <1>0, WorkIsTyped DEF ItemsOf, CommandLocals, CommandStates
<1>3. copied \in CommandStates /\ ~copied.shares /\ copied.items = ItemsOf(old.kept)
  BY <1>2 DEF Copied, CommandLocals, CommandStates
<1> HIDE DEF copied
<1>4. record \in CommandRecords /\ record.state = copied
  BY <1>3 DEF CommandRecords
<1> HIDE DEF record
<1>5. local \in CommandLocals
  BY DEF CommandLocals
<1>6. local.pc = "sleeping" /\ local.kept = old.kept /\ local.restored = old.restored
  BY DEF CommandLocals
<1>7. work' = [work EXCEPT ![s] = local]
  BY <1>0 DEF TickSaved, CommandTypeOK
<1> HIDE DEF local
<1>8. PICK row \in CommandRecords \cup {NoRecord} :
        /\ saved' = [saved EXCEPT ![s] = row]
        /\ row # NoRecord => ~row.state.shares
        /\ announced' \subseteq IF row = NoRecord THEN {} ELSE ToSet(row.state.items)
  <2>1. CASE command.durable
    <3>1. saved' = [saved EXCEPT ![s] = record] /\ announced' = announced \cup {old.mark}
      BY <2>1 DEF TickSaved, record, copied
    <3>2. announced' \subseteq ToSet(copied.items)
      BY <3>1, <1>0, <1>1, <1>3 DEF TicksAreHeld
    <3> QED
      BY <3>1, <3>2, <1>3, <1>4, RecordsExist
  <2>2. CASE ~command.durable
    <3>1. saved' = saved /\ announced' = announced
      BY <2>2 DEF TickSaved
    <3>2. saved' = [saved EXCEPT ![s] = saved[s]] /\ saved[s] \in CommandRecords \cup {NoRecord}
      BY <3>1, <1>0 DEF CommandTypeOK
    <3> QED
      BY <3>1, <3>2, <1>1 DEF TicksAreHeld
  <2> QED
    BY <2>1, <2>2
<1>9. announced' \subseteq ToSet(ItemsOf(old.kept))
  BY <1>0, <1>1 DEF TickSaved, TicksAreHeld
<1>10. CommandTypeOK'
  BY <1>0, <1>5, <1>7, <1>8 DEF CommandTypeOK, TickSaved
<1>11. ASSUME NEW u \in Sessions PROVE SessionIsSound(u, work[u], saved[u])'
  <2>1. CASE u = s
    <3>1. work'[u] = local /\ saved'[u] = row /\ ItemsOf(work[u].kept)' = ItemsOf(old.kept)
      BY <2>1, <1>0, <1>6, <1>7, <1>8 DEF CommandTypeOK, ItemsOf
    <3> QED
      BY <2>1, <3>1, <1>0, <1>1, <1>6, <1>8, <1>9 DEF SessionIsSound, TicksAreHeld
  <2>2. CASE u # s
    <3>1. work'[u] = work[u] /\ saved'[u] = saved[u] /\ SessionIsSound(u, work[u], saved[u])
      BY <2>2, <1>0, <1>7, <1>8 DEF CommandTypeOK
    <3>2. work[u].pc = "idle" /\ u # 1
      BY <3>1, <2>2, <1>0, <1>1 DEF SessionIsSound
    <3> QED
      BY <3>1, <3>2, <1>0 DEF SessionIsSound, TicksAreHeld
  <2> QED
    BY <2>1, <2>2
<1> QED
  BY <1>10, <1>11 DEF CommandInv

LEMMA PruneInv ==
    ASSUME CommandInv, NEW s \in Sessions, Prune(s) PROVE CommandInv'
<1>1. /\ command.kind \in {"run", "assistant"} /\ command' = command /\ work' = work /\ seed' = seed
      /\ announced' = announced /\ rounds' \in Nat /\ report' \in Seq(CaseResults)
      /\ saved' = [saved EXCEPT ![s] = NoRecord]
  BY DEF Prune, Checkpointed, CommandInv, CommandTypeOK
<1>2. PICK old \in CommandLocals : old = work[s] /\ SessionIsSound(s, old, saved[s])
  BY WorkIsTyped
<1>3. work' = [work EXCEPT ![s] = old]
  BY <1>1, <1>2 DEF CommandInv, CommandTypeOK
<1>4. SessionIsSound(s, old, NoRecord)
  BY <1>1, <1>2 DEF SessionIsSound, MarksAreOwn
<1>5. PICK row \in CommandRecords \cup {NoRecord} : row = NoRecord
  OBVIOUS
<1> QED
  BY <1>1, <1>3, <1>4, <1>5, SessionMoves

LEMMA EvalEndsInv ==
    ASSUME CommandInv, NEW s \in Sessions, EvalEnds(s) PROVE CommandInv'
  BY DEF EvalEnds, CommandInv, CommandTypeOK, SessionIsSound, TicksAreHeld, MarksAreOwn, ItemsOf

LEMMA CommandDiesInv ==
    ASSUME CommandInv, CommandDies PROVE CommandInv'
<1>1. /\ command \in CommandConfig /\ command' = command /\ work' = [s \in Sessions |-> IdleCommand]
      /\ seed' = <<>> /\ saved' = saved /\ announced' = announced
      /\ CommandTypeOK /\ \A u \in Sessions : SessionIsSound(u, work[u], saved[u])
  BY DEF CommandDies, CommandInv, CommandTypeOK
<1>2. /\ IdleCommand \in CommandLocals /\ IdleCommand.pc = "idle" /\ ~IdleCommand.restored
      /\ IdleCommand.kept = SeedState /\ IdleCommand.copy = SeedState
  BY <1>1, IdleIsTyped
<1>3. CommandTypeOK'
  BY <1>1, <1>2 DEF CommandTypeOK, CommandDies
<1>4. ASSUME NEW u \in Sessions PROVE SessionIsSound(u, work[u], saved[u])'
  <2>1. work'[u] = IdleCommand /\ saved'[u] = saved[u] /\ SessionIsSound(u, work[u], saved[u])
    BY <1>1
  <2>2. command.kind = "daemon" => TicksAreHeld(u, work[u], saved[u])'
    BY <2>1, <1>1, <1>2 DEF SessionIsSound, TicksAreHeld
  <2>3. ASSUME ~command.seeded, command.kind \in {"eval", "assistant"}
        PROVE  MarksAreOwn(u, work[u], saved[u])'
    <3>1. MarksAreOwn(u, work[u], saved[u]) /\ ~SeedState.shares
      BY <2>1, <2>3 DEF SessionIsSound, SeedState
    <3> QED
      BY <3>1, <2>1, <1>1, <1>2 DEF MarksAreOwn
  <2> QED
    BY <2>1, <2>2, <2>3, <1>1, <1>2 DEF SessionIsSound
<1> QED
  BY <1>3, <1>4 DEF CommandInv

LEMMA CommandInitInv == CommandInit => CommandInv
<1> SUFFICES ASSUME CommandInit PROVE CommandInv
  OBVIOUS
<1>1. /\ command \in CommandConfig /\ work = [s \in Sessions |-> IdleCommand]
      /\ saved = [s \in Sessions |-> NoRecord] /\ announced = {}
  BY CommandAssumption DEF CommandInit
<1>2. /\ IdleCommand \in CommandLocals /\ IdleCommand.pc = "idle" /\ ~IdleCommand.restored
      /\ IdleCommand.kept = SeedState /\ IdleCommand.copy = SeedState
  BY <1>1, IdleIsTyped
<1>3. CommandTypeOK
  BY <1>1, <1>2 DEF CommandTypeOK, CommandInit
<1>4. ASSUME NEW s \in Sessions PROVE SessionIsSound(s, work[s], saved[s])
  <2>1. command.kind = "daemon" => TicksAreHeld(s, work[s], saved[s])
    BY <1>1, <1>2 DEF TicksAreHeld
  <2>2. ~command.seeded => MarksAreOwn(s, work[s], saved[s])
    BY <1>1, <1>2 DEF MarksAreOwn, SeedState
  <2> QED
    BY <1>1, <1>2, <2>1, <2>2 DEF SessionIsSound
<1> QED
  BY <1>3, <1>4 DEF CommandInv

LEMMA CommandNextInv == CommandInv /\ [CommandNext]_commandVars => CommandInv'
<1> SUFFICES ASSUME CommandInv, [CommandNext]_commandVars PROVE CommandInv'
  OBVIOUS
<1>1. ASSUME NEW s \in Sessions, CommandWork(s) PROVE CommandInv'
  BY <1>1, GraphRunsInv, NoteInv, AskInv, CompleteInv, AnsweredInv, RunExitsInv, TickSavedInv,
     TickSkippedInv, DaemonFailsInv, CaseDoneInv, EvalEndsInv, TurnEndsInv DEF CommandWork
<1>2. ASSUME NEW s \in Sessions,
             \/ RunStarts(s) \/ DaemonStarts(s) \/ Tick(s) \/ DaemonStops(s)
             \/ CaseStarts(s) \/ TurnStarts(s) \/ NodeFails(s) \/ JudgeFails(s) \/ Prune(s)
      PROVE  CommandInv'
  BY <1>2, RunStartsInv, DaemonStartsInv, TickInv, DaemonStopsInv, CaseStartsInv, TurnStartsInv,
     NodeFailsInv, JudgeFailsInv, PruneInv
<1>3. CASE CommandDies
  BY <1>3, CommandDiesInv
<1>4. CASE UNCHANGED commandVars
  BY <1>4 DEF commandVars, CommandInv, CommandTypeOK, SessionIsSound, TicksAreHeld, MarksAreOwn, ItemsOf
<1> QED
  BY <1>1, <1>2, <1>3, <1>4 DEF CommandNext

(* A tick whose state the daemon saved is in the state of every later tick, *)
(* whatever pauses, fails, dies or is started again; and examples of an     *)
(* evaluation, or sessions of an assistant, work on what is theirs, when    *)
(* the document's initial state holds no list that a node appends to.       *)
THEOREM CommandsKeepTheirRunsApart == CommandSpec => []RunsKeepTheirOwn
<1>1. CommandInv => RunsKeepTheirOwn
  <2> SUFFICES ASSUME CommandInv PROVE RunsKeepTheirOwn
    OBVIOUS
  <2>1. ASSUME NEW s \in Sessions, command.kind = "daemon", work[s].pc # "idle"
        PROVE  announced \subseteq ToSet(ItemsOf(work[s].kept))
    BY <2>1, WorkIsTyped DEF SessionIsSound, TicksAreHeld
  <2>2. ASSUME ~command.seeded, NEW s \in Sessions PROVE OwnMarks(s)
    <3>1. command.kind \in {"eval", "assistant"} => MarksAreOwn(s, work[s], saved[s])
      BY <2>2, WorkIsTyped DEF SessionIsSound
    <3> QED
      BY <3>1 DEF OwnMarks, MarksAreOwn, AllAre, Working, ItemsOf
  <2> QED
    BY <2>1, <2>2 DEF RunsKeepTheirOwn, SavedTicksAreKept, OnlyASeededListIsShared, RunsAreIndependent
<1>2. CommandSpec => []CommandInv
  BY CommandInitInv, CommandNextInv, PTL DEF CommandSpec
<1> QED
  BY <1>1, <1>2, PTL

-----------------------------------------------------------------------------
(* The queue of the daemon. *)

QueueSpec == QueueInit /\ [][QueueNext]_queueVars

FileStates == {"none", "partial", "full"}
JobSteps == {"run", "write", "written", "unlink"}

QueueTypeOK ==
    /\ jobs \in [JobIds -> FileStates]
    /\ results \in [JobIds -> FileStates]
    /\ writing \in {0} \cup JobIds
    /\ working \in BOOLEAN
    /\ listed \in SUBSET JobIds
    /\ job \in [id : JobIds, at : JobSteps] \cup {NoJob}
    /\ ran \in [JobIds -> Nat]
    /\ workerDeaths \in Nat

(* The job in the worker's hands has its file, and its result before it     *)
(* loses the file; the producer writes one that nobody has run.             *)
JobIsThere ==
    /\ job # NoJob => jobs[job.id] = "full"
    /\ job.at = "unlink" => results[job.id] = "full"
    /\ writing # 0 => jobs[writing] = "partial"

HasRun(j) == working /\ job.id = j /\ job.at \in {"write", "written", "unlink"}

(* A job that is still there has been run only by workers that ended under  *)
(* it, and by the one that now has it.                                      *)
RunsAreAccounted ==
    \A j \in JobIds :
      /\ ran[j] <= 1 + workerDeaths
      /\ jobs[j] # "none" /\ ~HasRun(j) => ran[j] <= workerDeaths
      /\ ran[j] > 0 /\ jobs[j] = "none" => results[j] = "full"

QueueInv == QueueTypeOK /\ JobIsThere /\ RunsAreAccounted

LEMMA JobIsTyped ==
    ASSUME QueueInv
    PROVE  /\ job.at \in JobSteps => job.id \in JobIds /\ job # NoJob /\ jobs[job.id] = "full"
           /\ NoJob.at = "idle" /\ NoJob.id \notin JobIds
  BY DEF QueueInv, QueueTypeOK, JobIsThere, NoJob, JobSteps, JobIds

LEMMA QueueInitInv == QueueInit => QueueInv
  BY DEF QueueInit, QueueInv, QueueTypeOK, JobIsThere, RunsAreAccounted, NoJob, FileStates

LEMMA EnqueueInv ==
    ASSUME QueueInv, NEW j \in JobIds, Enqueue(j) PROVE QueueInv'
  BY DEF Enqueue, QueueInv, QueueTypeOK, JobIsThere, RunsAreAccounted, HasRun, FileStates

LEMMA EnqueueWritesInv ==
    ASSUME QueueInv, EnqueueWrites PROVE QueueInv'
  BY DEF EnqueueWrites, QueueInv, QueueTypeOK, JobIsThere, RunsAreAccounted, HasRun, FileStates

LEMMA ProducerDiesInv ==
    ASSUME QueueInv, ProducerDies PROVE QueueInv'
  BY DEF ProducerDies, QueueInv, QueueTypeOK, JobIsThere, RunsAreAccounted, HasRun

LEMMA ListInv ==
    ASSUME QueueInv, List PROVE QueueInv'
  BY DEF List, Pending, QueueInv, QueueTypeOK, JobIsThere, RunsAreAccounted, HasRun

LEMMA LoadInv ==
    ASSUME QueueInv, NEW j \in JobIds, Load(j) PROVE QueueInv'
  BY JobIsTyped DEF Load, QueueInv, QueueTypeOK, JobIsThere, RunsAreAccounted, HasRun, JobSteps

LEMMA LoadFailsInv ==
    ASSUME QueueInv, NEW j \in JobIds, LoadFails(j) PROVE QueueInv'
  BY JobIsTyped DEF LoadFails, QueueInv, QueueTypeOK, JobIsThere, RunsAreAccounted, HasRun

(* A step of the worker with the job it has, which ends nothing.            *)
LEMMA WorkerMoves ==
    ASSUME QueueInv, working, job.at \in JobSteps, NEW step \in JobSteps,
           job' = [job EXCEPT !.at = step]
    PROVE  /\ job' \in [id : JobIds, at : JobSteps] /\ job'.id = job.id /\ job'.at = step
           /\ job # NoJob /\ job' # NoJob /\ jobs[job.id] = "full" /\ job.id \in JobIds
  BY JobIsTyped DEF QueueInv, QueueTypeOK, NoJob, JobSteps

LEMMA RunInv ==
    ASSUME QueueInv, Run PROVE QueueInv'
<1>0. QueueTypeOK /\ JobIsThere /\ RunsAreAccounted
  BY DEF QueueInv
<1> PICK j \in JobIds : j = job.id
  BY JobIsTyped DEF Run, JobSteps
<1>1. /\ job' \in [id : JobIds, at : JobSteps] /\ job'.id = j /\ job'.at = "write"
      /\ job' # NoJob /\ jobs[j] = "full"
  BY WorkerMoves DEF Run, JobSteps
<1>2. ran' = [ran EXCEPT ![j] = ran[j] + 1] /\ ran[j] \in Nat /\ ran[j] <= workerDeaths
  BY <1>0, <1>1 DEF Run, QueueTypeOK, RunsAreAccounted, HasRun
<1>3. QueueTypeOK'
  BY <1>0, <1>1, <1>2 DEF QueueTypeOK, Run
<1>4. JobIsThere'
  BY <1>0, <1>1 DEF JobIsThere, Run
<1>5. ASSUME NEW i \in JobIds
      PROVE  /\ ran'[i] <= 1 + workerDeaths'
             /\ jobs'[i] # "none" /\ ~HasRun(i)' => ran'[i] <= workerDeaths'
             /\ ran'[i] > 0 /\ jobs'[i] = "none" => results'[i] = "full"
  BY <1>0, <1>1, <1>2 DEF Run, QueueTypeOK, RunsAreAccounted, HasRun
<1> QED
  BY <1>3, <1>4, <1>5 DEF QueueInv, RunsAreAccounted

LEMMA OpenResultInv ==
    ASSUME QueueInv, OpenResult PROVE QueueInv'
<1>0. QueueTypeOK /\ JobIsThere /\ RunsAreAccounted
  BY DEF QueueInv
<1> PICK j \in JobIds : j = job.id
  BY JobIsTyped DEF OpenResult, JobSteps
<1>1. /\ job' \in [id : JobIds, at : JobSteps] /\ job'.id = j /\ job'.at = "written"
      /\ job' # NoJob /\ jobs[j] = "full"
  BY WorkerMoves DEF OpenResult, JobSteps
<1>2. results' = [results EXCEPT ![j] = "partial"]
  BY DEF OpenResult
<1> QED
  BY <1>0, <1>1, <1>2 DEF QueueInv, QueueTypeOK, JobIsThere, RunsAreAccounted, HasRun, OpenResult, FileStates

LEMMA FillResultInv ==
    ASSUME QueueInv, FillResult PROVE QueueInv'
<1>0. QueueTypeOK /\ JobIsThere /\ RunsAreAccounted
  BY DEF QueueInv
<1> PICK j \in JobIds : j = job.id
  BY JobIsTyped DEF FillResult, JobSteps
<1>1. /\ job' \in [id : JobIds, at : JobSteps] /\ job'.id = j /\ job'.at = "unlink"
      /\ job' # NoJob /\ jobs[j] = "full"
  BY WorkerMoves DEF FillResult, JobSteps
<1>2. results' = [results EXCEPT ![j] = "full"]
  BY DEF FillResult
<1> QED
  BY <1>0, <1>1, <1>2 DEF QueueInv, QueueTypeOK, JobIsThere, RunsAreAccounted, HasRun, FillResult, FileStates

LEMMA UnlinkInv ==
    ASSUME QueueInv, Unlink PROVE QueueInv'
<1>0. QueueTypeOK /\ JobIsThere /\ RunsAreAccounted
  BY DEF QueueInv
<1> PICK j \in JobIds : j = job.id /\ results[j] = "full" /\ jobs[j] = "full"
  BY <1>0, JobIsTyped DEF Unlink, JobSteps, JobIsThere
<1>1. jobs' = [jobs EXCEPT ![j] = "none"] /\ job' = NoJob /\ NoJob.id \notin JobIds /\ NoJob.at = "idle"
  BY JobIsTyped DEF Unlink
<1> QED
  BY <1>0, <1>1 DEF QueueInv, QueueTypeOK, JobIsThere, RunsAreAccounted, HasRun, Unlink, FileStates

LEMMA WorkerEndsInv ==
    ASSUME QueueInv, WorkerDies \/ WorkerStarts PROVE QueueInv'
<1>0. QueueTypeOK /\ JobIsThere /\ RunsAreAccounted
  BY DEF QueueInv
<1>1. CASE WorkerDies
  <2>0. workerDeaths \in Nat /\ workerDeaths' = workerDeaths + 1
    BY <1>0, <1>1 DEF WorkerDies, QueueTypeOK
  <2>1. /\ ~working' /\ working' \in BOOLEAN
        /\ jobs' = jobs /\ results' = results /\ writing' = writing /\ listed' = listed /\ job' = job
        /\ ran' = ran
    BY <1>1 DEF WorkerDies
  <2>2. QueueTypeOK' /\ JobIsThere'
    BY <1>0, <2>0, <2>1 DEF QueueTypeOK, JobIsThere
  <2>3. ASSUME NEW j \in JobIds
        PROVE  /\ ran[j] <= workerDeaths'
               /\ ran[j] <= 1 + workerDeaths'
               /\ ran[j] > 0 /\ jobs[j] = "none" => results[j] = "full"
    BY <1>0, <2>0 DEF QueueTypeOK, RunsAreAccounted
  <2> QED
    BY <2>1, <2>2, <2>3 DEF QueueInv, RunsAreAccounted
<1>2. CASE WorkerStarts
  BY <1>0, <1>2, JobIsTyped DEF QueueInv, QueueTypeOK, JobIsThere, RunsAreAccounted, HasRun, WorkerStarts
<1> QED
  BY <1>1, <1>2

LEMMA QueueNextInv == QueueInv /\ [QueueNext]_queueVars => QueueInv'
<1> SUFFICES ASSUME QueueInv, [QueueNext]_queueVars PROVE QueueInv'
  OBVIOUS
<1>3. ASSUME NEW j \in JobIds, Enqueue(j) \/ Load(j) \/ LoadFails(j) PROVE QueueInv'
  BY <1>3, EnqueueInv, LoadInv, LoadFailsInv
<1>4. CASE EnqueueWrites \/ ProducerDies \/ List
  BY <1>4, EnqueueWritesInv, ProducerDiesInv, ListInv
<1>5. CASE Run \/ OpenResult \/ FillResult \/ Unlink \/ WorkerDies \/ WorkerStarts
  BY <1>5, RunInv, OpenResultInv, FillResultInv, UnlinkInv, WorkerEndsInv
<1>1. CASE QueueNext
  BY <1>1, <1>3, <1>4, <1>5 DEF QueueNext
<1>2. CASE UNCHANGED queueVars
  BY <1>2 DEF queueVars, QueueInv, QueueTypeOK, JobIsThere, RunsAreAccounted, HasRun
<1> QED
  BY <1>1, <1>2

(* A job that was run has left its directory only for its whole result, and *)
(* its turn was run again at most once for every end of the worker.         *)
THEOREM JobsAreNotLost == QueueSpec => []NoJobIsLost
<1>1. QueueInv => NoJobIsLost
  BY DEF QueueInv, RunsAreAccounted, NoJobIsLost
<1>2. QueueSpec => []QueueInv
  BY QueueInitInv, QueueNextInv, PTL DEF QueueSpec
<1> QED
  BY <1>1, <1>2, PTL

-----------------------------------------------------------------------------
(* The updates of a bot. *)

TelegramSpec == TelegramInit /\ [][TelegramNext]_telegramVars

HandleTasks == [id : Ids, at : {"received", "ran"}, call : Nat]

TelegramTypeOK ==
    /\ bot \in Bots
    /\ sent \in Seq(UpdateKinds) /\ Len(sent) <= MaxUpdates
    /\ forgotten \in Nat
    /\ alive \in BOOLEAN
    /\ offset \in Nat
    /\ batch \in Seq(Ids)
    /\ tasks \in SUBSET HandleTasks /\ IsFiniteSet(tasks)
    /\ turns \in [Ids -> Nat]
    /\ outcome \in [Ids -> {"none", "answered", "ignored", "failed"}]
    /\ deaths \in Nat /\ failures \in Nat /\ slow \in Nat

(* The batch goes on where the offset is.                                   *)
BatchFollows ==
    /\ forgotten <= Confirmed
    /\ Confirmed + Len(batch) <= Len(sent)
    /\ \A i \in 1..Len(batch) : batch[i] = Confirmed + i
    /\ bot.mode = "webhook" => batch = <<>>

(* A poller has at most the update before its offset in hand, and has       *)
(* settled the ones before it.                                              *)
OneAtATime ==
    bot.mode # "webhook" => \A task \in tasks : task.id = Confirmed /\ \A other \in tasks : other = task

SettledSoFar ==
    \A u \in Ids : /\ u <= forgotten => outcome[u] # "none"
                   /\ u <= Confirmed /\ outcome[u] = "none" => \E task \in tasks : task.id = u

(* Turns of a poller: one for each process that took the update.            *)
PollsAreCounted ==
    bot.mode = "polling" =>
      \A u \in Ids :
        /\ turns[u] <= 1 + deaths
        /\ u > Confirmed \/ ~alive => turns[u] <= deaths
        /\ (\E task \in tasks : task.id = u /\ task.at = "received") => turns[u] <= deaths

(* Turns of a webhook, those to come included: one more than the troubles   *)
(* as long as a call is at work, or when one has been served.               *)
Received(u) == {task \in tasks : task.id = u /\ task.at = "received"}
Troubles == deaths + failures + slow

CallsAreCounted ==
    bot.mode = "webhook" =>
      \A u \in Ids :
        LET taken == turns[u] + Cardinality(Received(u))
        IN  /\ taken <= 1 + Troubles
            /\ ~alive => taken <= Troubles
            /\ outcome[u] \in {"none", "failed"} /\ (\A task \in tasks : task.id # u) => taken <= Troubles

TelegramInv ==
    /\ TelegramTypeOK /\ BatchFollows /\ OneAtATime /\ SettledSoFar
    /\ PollsAreCounted /\ CallsAreCounted

LEMMA TelegramParts ==
    ASSUME TelegramInv
    PROVE  /\ TelegramTypeOK /\ BatchFollows /\ OneAtATime /\ SettledSoFar
           /\ PollsAreCounted /\ CallsAreCounted
           /\ Confirmed \in Nat /\ Len(sent) \in Nat /\ Len(batch) \in Nat
           /\ MaxUpdates \in Nat /\ BatchLimit \in Nat
  BY ChannelsAssumption DEF TelegramInv, TelegramTypeOK, Confirmed

LEMMA ReceivedIsFinite ==
    ASSUME TelegramInv, NEW u \in Ids
    PROVE  /\ IsFiniteSet(Received(u)) /\ Cardinality(Received(u)) \in Nat
           /\ ((\A task \in tasks : task.id # u) => Cardinality(Received(u)) = 0)
<1>1. Received(u) \subseteq tasks /\ IsFiniteSet(tasks)
  BY DEF TelegramInv, TelegramTypeOK, Received
<1>2. IsFiniteSet(Received(u)) /\ Cardinality(Received(u)) \in Nat
  BY <1>1, FS_Subset, FS_CardinalityType
<1>3. (\A task \in tasks : task.id # u) => Received(u) = {}
  BY DEF Received
<1> QED
  BY <1>2, <1>3, FS_EmptySet

LEMMA UserSendsInv ==
    ASSUME TelegramInv, NEW kind \in UpdateKinds, UserSends(kind) PROVE TelegramInv'
<1>0. /\ TelegramTypeOK /\ BatchFollows /\ OneAtATime /\ SettledSoFar
      /\ PollsAreCounted /\ CallsAreCounted
  BY TelegramParts
<1>1. /\ bot' = bot /\ forgotten' = forgotten /\ alive' = alive /\ offset' = offset /\ batch' = batch
      /\ tasks' = tasks /\ turns' = turns /\ outcome' = outcome /\ deaths' = deaths
      /\ failures' = failures /\ slow' = slow
  BY DEF UserSends
<1>2. sent' \in Seq(UpdateKinds) /\ Len(sent') = Len(sent) + 1 /\ Len(sent) < MaxUpdates
      /\ Len(sent) \in Nat /\ MaxUpdates \in Nat
  BY TelegramParts DEF UserSends, TelegramTypeOK
<1>3. Confirmed' = Confirmed /\ Confirmed \in Nat /\ Len(batch) \in Nat
  BY <1>1, TelegramParts DEF Confirmed
<1>4. TelegramTypeOK'
  BY <1>0, <1>1, <1>2 DEF TelegramTypeOK
<1>5. BatchFollows'
  BY <1>0, <1>1, <1>2, <1>3 DEF BatchFollows
<1>6. OneAtATime' /\ SettledSoFar'
  BY <1>0, <1>1, <1>3 DEF OneAtATime, SettledSoFar
<1>7. PollsAreCounted' /\ CallsAreCounted'
  BY <1>0, <1>1, <1>3 DEF PollsAreCounted, CallsAreCounted, Received, Troubles
<1> QED
  BY <1>4, <1>5, <1>6, <1>7 DEF TelegramInv

LEMMA GetUpdatesInv ==
    ASSUME TelegramInv, GetUpdates PROVE TelegramInv'
<1>0. /\ TelegramTypeOK /\ BatchFollows /\ OneAtATime /\ SettledSoFar
      /\ PollsAreCounted /\ CallsAreCounted
      /\ Confirmed \in Nat /\ Len(sent) \in Nat /\ MaxUpdates \in Nat /\ BatchLimit \in Nat
  BY TelegramParts
<1>1. /\ bot' = bot /\ sent' = sent /\ alive' = alive /\ offset' = offset
      /\ tasks' = tasks /\ turns' = turns /\ outcome' = outcome /\ deaths' = deaths
      /\ failures' = failures /\ slow' = slow /\ forgotten' = Confirmed
      /\ bot.mode # "webhook" /\ tasks = {}
  BY DEF GetUpdates, Idle
<1>2. Confirmed' = Confirmed
  BY <1>0, <1>1 DEF Confirmed, TelegramTypeOK
<1> DEFINE due == Waiting(Confirmed)
           most == IF Len(due) > BatchLimit THEN BatchLimit ELSE Len(due)
<1>3. Confirmed <= Len(sent) /\ Len(sent) <= MaxUpdates
  BY <1>0 DEF BatchFollows, TelegramTypeOK
<1>4. /\ due \in Seq(Ids) /\ Len(due) = Len(sent) - Confirmed
      /\ \A i \in 1..Len(due) : due[i] = Confirmed + i
  <2>1. \A i \in 1..(Len(sent) - Confirmed) : Confirmed + i \in Ids
    BY <1>0, <1>3 DEF Ids
  <2>2. Len(sent) - Confirmed \in Nat
    BY <1>0, <1>3
  <2> QED
    BY <2>1, <2>2 DEF Waiting
<1>5. batch' = SubSeq(due, 1, most)
  BY DEF GetUpdates
<1> HIDE DEF due
<1>6. most \in Nat /\ most <= Len(due)
  BY <1>0, <1>4
<1> HIDE DEF most
<1>7. /\ batch' \in Seq(Ids) /\ Len(batch') = most /\ \A i \in 1..Len(batch') : batch'[i] = Confirmed + i
  BY <1>4, <1>5, <1>6
<1>8. TelegramTypeOK'
  BY <1>0, <1>1, <1>7 DEF TelegramTypeOK
<1>9. BatchFollows'
  <2>1. Confirmed + most <= Len(sent)
    BY <1>0, <1>3, <1>4, <1>6
  <2> QED
    BY <2>1, <1>0, <1>1, <1>2, <1>7 DEF BatchFollows
<1>10. OneAtATime' /\ SettledSoFar'
  BY <1>0, <1>1, <1>2 DEF OneAtATime, SettledSoFar
<1>11. PollsAreCounted' /\ CallsAreCounted'
  BY <1>0, <1>1, <1>2 DEF PollsAreCounted, CallsAreCounted
<1> QED
  BY <1>8, <1>9, <1>10, <1>11 DEF TelegramInv

LEMMA TakeUpdateInv ==
    ASSUME TelegramInv, TakeUpdate PROVE TelegramInv'
<1>0. /\ TelegramTypeOK /\ BatchFollows /\ OneAtATime /\ SettledSoFar
      /\ PollsAreCounted /\ CallsAreCounted
      /\ Confirmed \in Nat /\ Len(sent) \in Nat /\ MaxUpdates \in Nat
  BY TelegramParts
<1>1. /\ bot' = bot /\ sent' = sent /\ forgotten' = forgotten /\ alive' = alive
      /\ turns' = turns /\ outcome' = outcome /\ deaths' = deaths
      /\ failures' = failures /\ slow' = slow
      /\ tasks = {} /\ batch # <<>> /\ batch' = Tail(batch) /\ offset' = Head(batch) + 1
      /\ tasks' = {[id |-> Head(batch), at |-> "received", call |-> 0]}
  BY DEF TakeUpdate
<1>2. /\ batch \in Seq(Ids) /\ Len(batch) \in Nat /\ Len(batch) > 0 /\ Head(batch) = batch[1]
      /\ Tail(batch) \in Seq(Ids) /\ Len(Tail(batch)) = Len(batch) - 1
      /\ \A i \in 1..(Len(batch) - 1) : Tail(batch)[i] = batch[i + 1]
  BY <1>0, <1>1 DEF TelegramTypeOK
<1>3. Head(batch) = Confirmed + 1 /\ Head(batch) \in Ids
  <2>1. batch[1] = Confirmed + 1
    BY <1>0, <1>2 DEF BatchFollows
  <2>2. batch[1] \in Ids
    BY <1>2
  <2> QED
    BY <1>2, <2>1, <2>2
<1>4. Confirmed' = Confirmed + 1 /\ bot.mode # "webhook"
  BY <1>0, <1>1, <1>3 DEF Confirmed, BatchFollows
<1> DEFINE taken == [id |-> Head(batch), at |-> "received", call |-> 0]
<1>12. taken \in HandleTasks /\ taken.id = Confirmed + 1 /\ taken.at = "received"
  BY <1>3 DEF HandleTasks
<1>13. tasks' = {taken}
  BY <1>1
<1> HIDE DEF taken
<1> PICK task \in HandleTasks : task.id = Confirmed + 1 /\ task.at = "received" /\ task = taken
  BY <1>12
<1>5. tasks' = {task} /\ IsFiniteSet({task})
  BY <1>13, FS_Singleton
<1>14. Head(batch) + 1 \in Nat
  BY <1>0, <1>3
<1>15. offset' \in Nat /\ batch' \in Seq(Ids) /\ tasks' \in SUBSET HandleTasks /\ IsFiniteSet(tasks')
  BY <1>1, <1>2, <1>5, <1>14
<1>6. TelegramTypeOK'
  BY <1>0, <1>1, <1>15 DEF TelegramTypeOK
<1>7. BatchFollows'
  <2>1. forgotten <= Confirmed + 1
    BY <1>0 DEF BatchFollows, TelegramTypeOK
  <2>2. Confirmed + 1 + (Len(batch) - 1) <= Len(sent)
    BY <1>0, <1>2 DEF BatchFollows
  <2>3. \A i \in 1..(Len(batch) - 1) : Tail(batch)[i] = Confirmed + 1 + i
    <3> SUFFICES ASSUME NEW i \in 1..(Len(batch) - 1) PROVE Tail(batch)[i] = Confirmed + 1 + i
      OBVIOUS
    <3>1. i + 1 \in 1..Len(batch) /\ i \in Nat
      BY <1>2
    <3>2. batch[i + 1] = Confirmed + (i + 1)
      BY <3>1, <1>0 DEF BatchFollows
    <3> QED
      BY <3>1, <3>2, <1>0, <1>2
  <2> QED
    BY <2>1, <2>2, <2>3, <1>1, <1>2, <1>4 DEF BatchFollows
<1>8. OneAtATime'
  BY <1>4, <1>5 DEF OneAtATime
<1>9. SettledSoFar'
  <2> SUFFICES ASSUME NEW u \in Ids
               PROVE  /\ u <= forgotten => outcome[u] # "none"
                      /\ u <= Confirmed + 1 /\ outcome[u] = "none" => task.id = u
    BY <1>1, <1>4, <1>5 DEF SettledSoFar
  <2>1. u <= Confirmed => outcome[u] # "none"
    BY <1>0, <1>1 DEF SettledSoFar
  <2>2. u <= forgotten => outcome[u] # "none"
    BY <1>0 DEF SettledSoFar
  <2>3. u <= Confirmed + 1 => u <= Confirmed \/ u = Confirmed + 1
    BY <1>0 DEF Ids
  <2> QED
    BY <2>1, <2>2, <2>3
<1>10. PollsAreCounted'
  <2> SUFFICES ASSUME bot.mode = "polling", NEW u \in Ids
               PROVE  /\ turns[u] <= 1 + deaths
                      /\ u > Confirmed + 1 \/ ~alive => turns[u] <= deaths
                      /\ task.id = u => turns[u] <= deaths
    BY <1>1, <1>4, <1>5 DEF PollsAreCounted
  <2>1. /\ turns[u] <= 1 + deaths
        /\ u > Confirmed \/ ~alive => turns[u] <= deaths
    BY <1>0 DEF PollsAreCounted
  <2> QED
    BY <2>1, <1>0 DEF PollsAreCounted, Ids
<1>11. CallsAreCounted'
  BY <1>1, <1>4 DEF CallsAreCounted
<1> QED
  BY <1>6, <1>7, <1>8, <1>9, <1>10, <1>11 DEF TelegramInv

(* The process ends, and everything in it stays as it was.                  *)
LEMMA ProcessEnds ==
    ASSUME TelegramInv, alive, ~alive', alive' \in BOOLEAN, deaths' \in Nat,
           deaths' = deaths + 1 \/ (deaths' = deaths /\ bot.mode = "once"),
           bot' = bot, sent' = sent, forgotten' = forgotten, offset' = offset, batch' = batch,
           tasks' = tasks, turns' = turns, outcome' = outcome, failures' = failures, slow' = slow
    PROVE  TelegramInv'
<1>0. /\ TelegramTypeOK /\ BatchFollows /\ OneAtATime /\ SettledSoFar
      /\ PollsAreCounted /\ CallsAreCounted
  BY TelegramParts
<1>1. Confirmed' = Confirmed /\ \A u \in Ids : Received(u)' = Received(u)
  BY DEF Confirmed, Received
<1>2. TelegramTypeOK'
  BY <1>0 DEF TelegramTypeOK
<1>3. BatchFollows' /\ OneAtATime' /\ SettledSoFar'
  BY <1>0, <1>1 DEF BatchFollows, OneAtATime, SettledSoFar
<1>4. PollsAreCounted'
  <2> SUFFICES ASSUME bot.mode = "polling", NEW u \in Ids
               PROVE  turns[u] <= deaths' /\ turns[u] <= 1 + deaths'
    BY DEF PollsAreCounted
  <2>1. turns[u] <= 1 + deaths /\ turns[u] \in Nat /\ deaths \in Nat
    BY <1>0 DEF PollsAreCounted, TelegramTypeOK
  <2> QED
    BY <2>1
<1>5. CallsAreCounted'
  <2> SUFFICES ASSUME bot.mode = "webhook", NEW u \in Ids
               PROVE  /\ turns[u] + Cardinality(Received(u)) <= 1 + Troubles'
                      /\ turns[u] + Cardinality(Received(u)) <= Troubles'
    BY <1>1 DEF CallsAreCounted
  <2>1. turns[u] + Cardinality(Received(u)) <= 1 + Troubles
    BY <1>0 DEF CallsAreCounted
  <2>2. turns[u] + Cardinality(Received(u)) \in Nat /\ Troubles \in Nat /\ Troubles' = Troubles + 1
    BY <1>0, ReceivedIsFinite DEF TelegramTypeOK, Troubles
  <2> QED
    BY <2>1, <2>2
<1> QED
  BY <1>2, <1>3, <1>4, <1>5 DEF TelegramInv

LEMMA ProcessEndsInv ==
    ASSUME TelegramInv, GetUpdatesFails \/ Crash \/ OncePassEnds PROVE TelegramInv'
<1>1. deaths \in Nat
  BY TelegramParts DEF TelegramTypeOK
<1>5. deaths + 1 \in Nat
  BY <1>1
<1>2. CASE GetUpdatesFails
  <2>1. alive /\ ~alive' /\ alive' \in BOOLEAN
    BY <1>2 DEF GetUpdatesFails
  <2>2. deaths' = deaths + 1 /\ deaths' \in Nat
    BY <1>2, <1>5 DEF GetUpdatesFails
  <2> QED
    BY <1>2, <2>1, <2>2, ProcessEnds DEF GetUpdatesFails
<1>3. CASE Crash
  <2>1. alive /\ ~alive' /\ alive' \in BOOLEAN
    BY <1>3 DEF Crash
  <2>2. deaths' = deaths + 1 /\ deaths' \in Nat
    BY <1>3, <1>5 DEF Crash
  <2> QED
    BY <1>3, <2>1, <2>2, ProcessEnds DEF Crash
<1>4. CASE OncePassEnds
  BY <1>1, <1>4, ProcessEnds DEF OncePassEnds
<1> QED
  BY <1>2, <1>3, <1>4

LEMMA StartInv ==
    ASSUME TelegramInv, Start PROVE TelegramInv'
<1>0. /\ TelegramTypeOK /\ BatchFollows /\ OneAtATime /\ SettledSoFar
      /\ PollsAreCounted /\ CallsAreCounted /\ Confirmed \in Nat
  BY TelegramParts
<1>1. /\ bot' = bot /\ sent' = sent /\ forgotten' = forgotten /\ turns' = turns /\ outcome' = outcome
      /\ deaths' = deaths /\ failures' = failures /\ slow' = slow
      /\ ~alive /\ alive' \in BOOLEAN /\ offset' = 0 /\ batch' = <<>> /\ tasks' = {}
  BY DEF Start
<1>2. Confirmed' = forgotten /\ forgotten \in Nat
  BY <1>0, <1>1 DEF Confirmed, TelegramTypeOK
<1>3. TelegramTypeOK'
  BY <1>0, <1>1, FS_EmptySet DEF TelegramTypeOK
<1>4. BatchFollows'
  <2>1. forgotten <= Confirmed /\ Confirmed + Len(batch) <= Len(sent) /\ Len(batch) \in Nat /\ Len(sent) \in Nat
    BY <1>0, TelegramParts DEF BatchFollows
  <2>2. forgotten + 0 <= Len(sent) /\ forgotten <= forgotten
    BY <2>1, <1>0, <1>2
  <2> QED
    BY <2>2, <1>1, <1>2 DEF BatchFollows
<1>5. OneAtATime' /\ SettledSoFar'
  BY <1>0, <1>1, <1>2 DEF OneAtATime, SettledSoFar
<1>6. PollsAreCounted'
  BY <1>0, <1>1 DEF PollsAreCounted, TelegramTypeOK
<1>7. CallsAreCounted'
  <2> SUFFICES ASSUME bot.mode = "webhook", NEW u \in Ids
               PROVE  turns[u] + 0 <= Troubles /\ turns[u] + 0 <= 1 + Troubles
    <3>1. \A u \in Ids : Cardinality(Received(u))' = 0
      BY <1>1, FS_EmptySet DEF Received
    <3>2. Troubles' = Troubles
      BY <1>1 DEF Troubles
    <3> QED
      BY <1>1, <3>1, <3>2 DEF CallsAreCounted
  <2>1. turns[u] + Cardinality(Received(u)) <= Troubles
    BY <1>0, <1>1 DEF CallsAreCounted
  <2>2. turns[u] \in Nat /\ Cardinality(Received(u)) \in Nat /\ Troubles \in Nat
    BY <1>0, ReceivedIsFinite DEF TelegramTypeOK, Troubles
  <2> QED
    BY <2>1, <2>2
<1> QED
  BY <1>3, <1>4, <1>5, <1>6, <1>7 DEF TelegramInv

LEMMA WebhookCallInv ==
    ASSUME TelegramInv, NEW u \in Ids, WebhookCall(u) PROVE TelegramInv'
<1>0. /\ TelegramTypeOK /\ BatchFollows /\ OneAtATime /\ SettledSoFar
      /\ PollsAreCounted /\ CallsAreCounted
  BY TelegramParts
<1> DEFINE inProgress == {task \in tasks : task.id = u}
           call == [id |-> u, at |-> "received", call |-> Cardinality(inProgress)]
<1>1. /\ bot' = bot /\ sent' = sent /\ forgotten' = forgotten /\ alive' = alive /\ offset' = offset
      /\ batch' = batch /\ turns' = turns /\ outcome' = outcome /\ deaths' = deaths /\ failures' = failures
      /\ alive /\ bot.mode = "webhook" /\ outcome[u] \in {"none", "failed"}
      /\ slow' = (IF inProgress = {} THEN slow ELSE slow + 1)
      /\ tasks' = tasks \cup {call}
  BY DEF WebhookCall
<1>2. inProgress \subseteq tasks
  OBVIOUS
<1>3. Cardinality(inProgress) \in Nat
  BY <1>0, <1>2, FS_Subset, FS_CardinalityType DEF TelegramTypeOK
<1>4. call \in HandleTasks /\ call.id = u /\ call.at = "received"
  BY <1>3 DEF HandleTasks
<1>5. Confirmed' = Confirmed
  BY <1>1 DEF Confirmed
<1>6. \A v \in Ids : v # u => Received(v)' = Received(v)
  BY <1>1, <1>4 DEF Received
<1>7. Received(u)' = Received(u) \cup {call}
  BY <1>1, <1>4 DEF Received
<1>8. inProgress = {} <=> \A task \in tasks : task.id # u
  OBVIOUS
<1> HIDE DEF inProgress, call
<1>9. IsFiniteSet(tasks')
  BY <1>0, <1>1, FS_AddElement DEF TelegramTypeOK
<1>10. TelegramTypeOK'
  BY <1>0, <1>1, <1>4, <1>9 DEF TelegramTypeOK
<1>11. BatchFollows' /\ OneAtATime' /\ PollsAreCounted'
  BY <1>0, <1>1, <1>5 DEF BatchFollows, OneAtATime, PollsAreCounted, Bots
<1>12. SettledSoFar'
  BY <1>0, <1>1, <1>5 DEF SettledSoFar
<1>13. CallsAreCounted'
  <2>0. Troubles \in Nat /\ Troubles' = Troubles + (IF inProgress = {} THEN 0 ELSE 1)
    BY <1>0, <1>1 DEF Troubles, TelegramTypeOK
  <2>1. ASSUME NEW v \in Ids, v # u
        PROVE  LET taken == turns[v] + Cardinality(Received(v)')
               IN  /\ taken <= 1 + Troubles'
                   /\ outcome[v] \in {"none", "failed"} /\ (\A task \in tasks' : task.id # v) => taken <= Troubles'
    <3>1. /\ turns[v] + Cardinality(Received(v)) <= 1 + Troubles
          /\ outcome[v] \in {"none", "failed"} /\ (\A task \in tasks : task.id # v) =>
               turns[v] + Cardinality(Received(v)) <= Troubles
          /\ turns[v] + Cardinality(Received(v)) \in Nat
      BY <1>0, <1>1, ReceivedIsFinite DEF CallsAreCounted, TelegramTypeOK
    <3>2. (\A task \in tasks' : task.id # v) => \A task \in tasks : task.id # v
      BY <1>1
    <3> QED
      BY <2>0, <2>1, <3>1, <3>2, <1>6
  <2>2. turns[u] + Cardinality(Received(u)') <= 1 + Troubles'
    <3>1. Cardinality(Received(u)') <= Cardinality(Received(u)) + 1 /\ Cardinality(Received(u)') \in Nat
      <4>1. IsFiniteSet(Received(u)) /\ Cardinality(Received(u)) \in Nat
        BY ReceivedIsFinite
      <4>2. Cardinality(Received(u) \cup {call})
              = IF call \in Received(u) THEN Cardinality(Received(u)) ELSE Cardinality(Received(u)) + 1
        BY <4>1, FS_AddElement
      <4> QED
        BY <4>1, <4>2, <1>7
    <3>3. turns[u] \in Nat /\ Cardinality(Received(u)) \in Nat
      BY <1>0, ReceivedIsFinite DEF TelegramTypeOK
    <3>2. /\ turns[u] + Cardinality(Received(u)) <= 1 + Troubles
          /\ inProgress = {} => turns[u] + Cardinality(Received(u)) <= Troubles
      BY <1>0, <1>1, <1>8 DEF CallsAreCounted
    <3> QED
      BY <2>0, <3>1, <3>2, <3>3
  <2>3. \E task \in tasks' : task.id = u
    BY <1>1, <1>4
  <2> QED
    BY <2>1, <2>2, <2>3, <1>1 DEF CallsAreCounted
<1> QED
  BY <1>10, <1>11, <1>12, <1>13 DEF TelegramInv

(* Sums of three grow with their middle one.                                *)
LEMMA SumsGrow ==
    ASSUME NEW a \in Nat, NEW b \in Nat, NEW more \in Nat, NEW c \in Nat, b <= more
    PROVE  a + more + c \in Nat /\ a + b + c \in Nat /\ a + b + c <= a + more + c
  OBVIOUS

(* A task that is done with, well or not.                                   *)
LEMMA SettleKeeps ==
    ASSUME TelegramInv, NEW task \in tasks, NEW how \in {"answered", "ignored", "failed"},
           Settle(task, how), alive,
           bot' = bot, sent' = sent, forgotten' = forgotten, alive' = alive, offset' = offset,
           batch' = batch, turns' = turns, deaths' = deaths, slow' = slow,
           failures' \in Nat, failures <= failures',
           how = "failed" => failures' = failures + 1
    PROVE  TelegramInv'
<1>0. /\ TelegramTypeOK /\ BatchFollows /\ OneAtATime /\ SettledSoFar
      /\ PollsAreCounted /\ CallsAreCounted /\ Confirmed \in Nat
  BY TelegramParts
<1> PICK u \in Ids : u = task.id
  BY <1>0 DEF TelegramTypeOK, HandleTasks
<1>1. /\ tasks' = tasks \ {task}
      /\ outcome' = [outcome EXCEPT ![u] = IF outcome[u] \in {"answered", "ignored"} THEN outcome[u] ELSE how]
  BY DEF Settle
<1>2. /\ outcome' \in [Ids -> {"none", "answered", "ignored", "failed"}]
      /\ outcome'[u] # "none" /\ (outcome'[u] \in {"none", "failed"} => how = "failed")
      /\ \A v \in Ids : v # u => outcome'[v] = outcome[v]
  BY <1>0, <1>1 DEF TelegramTypeOK
<1>3. Confirmed' = Confirmed
  BY DEF Confirmed
<1>4. IsFiniteSet(tasks') /\ tasks' \in SUBSET HandleTasks
  BY <1>0, <1>1, FS_Subset DEF TelegramTypeOK
<1>5. TelegramTypeOK'
  BY <1>0, <1>2, <1>4 DEF TelegramTypeOK
<1>6. BatchFollows' /\ OneAtATime'
  BY <1>0, <1>1, <1>3 DEF BatchFollows, OneAtATime
<1>7. SettledSoFar'
  <2> SUFFICES ASSUME NEW v \in Ids
               PROVE  /\ v <= forgotten => outcome'[v] # "none"
                      /\ v <= Confirmed /\ outcome'[v] = "none" => \E other \in tasks' : other.id = v
    BY <1>3 DEF SettledSoFar
  <2>1. CASE v = u
    BY <2>1, <1>2
  <2>2. CASE v # u
    BY <2>2, <1>0, <1>1, <1>2 DEF SettledSoFar
  <2> QED
    BY <2>1, <2>2
<1>8. PollsAreCounted'
  BY <1>0, <1>1, <1>3 DEF PollsAreCounted
<1>9. CallsAreCounted'
  <2> SUFFICES ASSUME bot.mode = "webhook", NEW v \in Ids
               PROVE  LET taken == turns[v] + Cardinality(Received(v)')
                      IN  /\ taken <= 1 + Troubles'
                          /\ outcome'[v] \in {"none", "failed"} /\ (\A other \in tasks' : other.id # v)
                               => taken <= Troubles'
    BY DEF CallsAreCounted
  <2>1. IsFiniteSet(Received(v)) /\ Received(v)' \subseteq Received(v)
    BY <1>1, ReceivedIsFinite DEF Received
  <2>2. Cardinality(Received(v)') <= Cardinality(Received(v)) /\ Cardinality(Received(v)) \in Nat
        /\ Cardinality(Received(v)') \in Nat
    BY <2>1, FS_Subset, FS_CardinalityType
  <2>3. /\ turns[v] + Cardinality(Received(v)) <= 1 + Troubles
        /\ outcome[v] \in {"none", "failed"} /\ (\A other \in tasks : other.id # v)
             => turns[v] + Cardinality(Received(v)) <= Troubles
    BY <1>0 DEF CallsAreCounted
  <2>4. turns[v] \in Nat /\ Troubles \in Nat /\ Troubles' \in Nat /\ Troubles <= Troubles'
        /\ (how = "failed" => Troubles' = Troubles + 1)
    <3>1. turns[v] \in Nat /\ deaths \in Nat /\ failures \in Nat /\ slow \in Nat
      BY <1>0 DEF TelegramTypeOK
    <3>2. Troubles = deaths + failures + slow /\ Troubles' = deaths + failures' + slow
      BY DEF Troubles
    <3> PICK more \in Nat : more = failures'
      OBVIOUS
    <3>3. failures <= more /\ (how = "failed" => more = failures + 1)
      OBVIOUS
    <3>4. Troubles' = deaths + more + slow
      BY <3>2
    <3>5. deaths + more + slow \in Nat /\ deaths + failures + slow \in Nat
          /\ deaths + failures + slow <= deaths + more + slow
      BY <3>1, <3>3, SumsGrow
    <3>6. more = failures + 1 => deaths + more + slow = (deaths + failures + slow) + 1
      BY <3>1
    <3>7. Troubles \in Nat /\ Troubles' \in Nat /\ Troubles <= Troubles'
      BY <3>2, <3>4, <3>5
    <3>8. how = "failed" => Troubles' = Troubles + 1
      BY <3>2, <3>3, <3>4, <3>6
    <3> QED
      BY <3>1, <3>7, <3>8
  <2>5. turns[v] + Cardinality(Received(v)') <= 1 + Troubles'
    BY <2>2, <2>3, <2>4
  <2>6. ASSUME outcome'[v] \in {"none", "failed"}, \A other \in tasks' : other.id # v
        PROVE  turns[v] + Cardinality(Received(v)') <= Troubles'
    <3>1. CASE v = u
      <4>1. Troubles' = Troubles + 1
        BY <3>1, <2>4, <2>6, <1>2
      <4> QED
        BY <4>1, <2>2, <2>3, <2>4
    <3>2. CASE v # u
      <4>1. outcome[v] \in {"none", "failed"} /\ \A other \in tasks : other.id # v
        BY <3>2, <2>6, <1>1, <1>2
      <4> QED
        BY <4>1, <2>2, <2>3, <2>4
    <3> QED
      BY <3>1, <3>2
  <2> QED
    BY <2>5, <2>6
<1> QED
  BY <1>5, <1>6, <1>7, <1>8, <1>9 DEF TelegramInv

LEMMA RunTurnInv ==
    ASSUME TelegramInv, NEW task \in tasks, RunTurn(task), alive PROVE TelegramInv'
<1>0. /\ TelegramTypeOK /\ BatchFollows /\ OneAtATime /\ SettledSoFar
      /\ PollsAreCounted /\ CallsAreCounted /\ Confirmed \in Nat
  BY TelegramParts
<1> PICK u \in Ids : u = task.id
  BY <1>0 DEF TelegramTypeOK, HandleTasks
<1> DEFINE after == [task EXCEPT !.at = "ran"]
<1>1. /\ bot' = bot /\ sent' = sent /\ forgotten' = forgotten /\ alive' = alive /\ offset' = offset
      /\ batch' = batch /\ outcome' = outcome /\ deaths' = deaths /\ failures' = failures /\ slow' = slow
      /\ task.at = "received"
      /\ turns' = [turns EXCEPT ![u] = turns[u] + 1]
      /\ tasks' = (tasks \ {task}) \cup {after}
  BY DEF RunTurn
<1>2. after \in HandleTasks /\ after.id = u /\ after.at = "ran"
  BY <1>0 DEF TelegramTypeOK, HandleTasks
<1> HIDE DEF after
<1>3. Confirmed' = Confirmed
  BY <1>1 DEF Confirmed
<1>4. /\ turns[u] \in Nat /\ turns' \in [Ids -> Nat] /\ turns'[u] = turns[u] + 1
      /\ \A v \in Ids : v # u => turns'[v] = turns[v]
  BY <1>0, <1>1 DEF TelegramTypeOK
<1>5. IsFiniteSet(tasks') /\ tasks' \in SUBSET HandleTasks
  <2>1. IsFiniteSet(tasks \ {task})
    BY <1>0, FS_Subset DEF TelegramTypeOK
  <2>2. IsFiniteSet((tasks \ {task}) \cup {after})
    BY <2>1, FS_AddElement
  <2> QED
    BY <2>2, <1>0, <1>1, <1>2 DEF TelegramTypeOK
<1>6. TelegramTypeOK'
  BY <1>0, <1>1, <1>4, <1>5 DEF TelegramTypeOK
<1>7. BatchFollows' /\ OneAtATime'
  BY <1>0, <1>1, <1>2, <1>3 DEF BatchFollows, OneAtATime
<1>8. SettledSoFar'
  BY <1>0, <1>1, <1>2, <1>3 DEF SettledSoFar
<1>9. PollsAreCounted'
  <2> SUFFICES ASSUME bot.mode = "polling", NEW v \in Ids
               PROVE  /\ turns'[v] <= 1 + deaths
                      /\ v > Confirmed \/ ~alive => turns'[v] <= deaths
                      /\ (\E other \in tasks' : other.id = v /\ other.at = "received") => turns'[v] <= deaths
    BY <1>1, <1>3 DEF PollsAreCounted
  <2>1. u = Confirmed /\ \A other \in tasks : other = task
    BY <1>0 DEF OneAtATime
  <2>2. tasks' = {after}
    BY <2>1, <1>1
  <2>3. CASE v = u
    <3>1. turns[u] <= deaths
      BY <1>0, <1>1 DEF PollsAreCounted
    <3> QED
      BY <3>1, <2>1, <2>2, <2>3, <1>0, <1>2, <1>4 DEF TelegramTypeOK, Ids
  <2>4. CASE v # u
    BY <2>2, <2>4, <1>0, <1>2, <1>4 DEF PollsAreCounted
  <2> QED
    BY <2>3, <2>4
<1>10. CallsAreCounted'
  <2> SUFFICES ASSUME bot.mode = "webhook", NEW v \in Ids
               PROVE  LET taken == turns'[v] + Cardinality(Received(v)')
                      IN  /\ taken <= 1 + Troubles
                          /\ outcome[v] \in {"none", "failed"} /\ (\A other \in tasks' : other.id # v)
                               => taken <= Troubles
    <3>1. Troubles' = Troubles
      BY <1>1 DEF Troubles
    <3> QED
      BY <3>1, <1>1 DEF CallsAreCounted
  <2>1. CASE v = u
    <3>1. Received(v)' = Received(v) \ {task} /\ task \in Received(v)
      BY <2>1, <1>1, <1>2 DEF Received
    <3>2. IsFiniteSet(Received(v)) /\ Cardinality(Received(v)) \in Nat
      BY ReceivedIsFinite
    <3>3. Cardinality(Received(v) \ {task}) = Cardinality(Received(v)) - 1
      BY <3>1, <3>2, FS_RemoveElement
    <3>4. turns'[v] + Cardinality(Received(v)') = turns[v] + Cardinality(Received(v))
      BY <2>1, <3>1, <3>2, <3>3, <1>4
    <3>5. turns[v] + Cardinality(Received(v)) <= 1 + Troubles
      BY <1>0 DEF CallsAreCounted
    <3>6. \E other \in tasks' : other.id = v
      BY <2>1, <1>1, <1>2
    <3> QED
      BY <3>4, <3>5, <3>6
  <2>2. CASE v # u
    <3>1. Received(v)' = Received(v)
      BY <2>2, <1>1, <1>2 DEF Received
    <3>2. (\A other \in tasks' : other.id # v) => \A other \in tasks : other.id # v
      BY <2>2, <1>1
    <3> QED
      BY <2>2, <3>1, <3>2, <1>0, <1>4 DEF CallsAreCounted
  <2> QED
    BY <2>1, <2>2
<1> QED
  BY <1>6, <1>7, <1>8, <1>9, <1>10 DEF TelegramInv

LEMMA HandleInv ==
    ASSUME TelegramInv, NEW task \in tasks, Handle(task) PROVE TelegramInv'
<1>1. alive /\ failures \in Nat /\ failures <= failures
  BY TelegramParts DEF Handle, TelegramTypeOK
<1>2. CASE Ignore(task)
  BY <1>1, <1>2, SettleKeeps DEF Ignore
<1>3. CASE RunTurn(task)
  BY <1>1, <1>3, RunTurnInv
<1>4. CASE SendMessage(task)
  BY <1>1, <1>4, SettleKeeps DEF SendMessage
<1>5. CASE HandlingFails(task)
  <2>1. failures' = failures + 1
    BY <1>5 DEF HandlingFails
  <2>2. failures' \in Nat /\ failures <= failures'
    BY <1>1, <2>1
  <2> QED
    BY <1>1, <1>5, <2>1, <2>2, SettleKeeps DEF HandlingFails
<1> QED
  BY <1>2, <1>3, <1>4, <1>5 DEF Handle

LEMMA TelegramInitInv == TelegramInit => TelegramInv
<1> SUFFICES ASSUME TelegramInit PROVE TelegramInv
  OBVIOUS
<1>1. Confirmed = 0 /\ \A u \in Ids : Cardinality(Received(u)) = 0
  <2>1. \A u \in Ids : Received(u) = {}
    BY DEF TelegramInit, Received
  <2> QED
    BY <2>1, FS_EmptySet DEF TelegramInit, Confirmed
<1>2. TelegramTypeOK
  BY ChannelsAssumption, FS_EmptySet DEF TelegramInit, TelegramTypeOK
<1>3. BatchFollows /\ OneAtATime
  BY <1>1 DEF TelegramInit, BatchFollows, OneAtATime
<1>4. SettledSoFar /\ PollsAreCounted
  BY <1>1 DEF TelegramInit, SettledSoFar, PollsAreCounted, Ids
<1>5. CallsAreCounted
  BY <1>1 DEF TelegramInit, CallsAreCounted, Troubles
<1> QED
  BY <1>2, <1>3, <1>4, <1>5 DEF TelegramInv

LEMMA TelegramNextInv == TelegramInv /\ [TelegramNext]_telegramVars => TelegramInv'
<1> SUFFICES ASSUME TelegramInv, [TelegramNext]_telegramVars PROVE TelegramInv'
  OBVIOUS
<1>1. ASSUME NEW kind \in UpdateKinds, UserSends(kind) PROVE TelegramInv'
  BY <1>1, UserSendsInv
<1>2. CASE GetUpdates
  BY <1>2, GetUpdatesInv
<1>3. CASE TakeUpdate
  BY <1>3, TakeUpdateInv
<1>4. CASE GetUpdatesFails \/ OncePassEnds \/ Crash
  BY <1>4, ProcessEndsInv
<1>5. ASSUME NEW u \in Ids, WebhookCall(u) PROVE TelegramInv'
  BY <1>5, WebhookCallInv
<1>6. ASSUME NEW task \in tasks, Handle(task) PROVE TelegramInv'
  BY <1>6, HandleInv
<1>7. CASE Start
  BY <1>7, StartInv
<1>8. CASE UNCHANGED telegramVars
  BY <1>8 DEF telegramVars, TelegramInv, TelegramTypeOK, BatchFollows, OneAtATime, SettledSoFar,
     PollsAreCounted, CallsAreCounted, Confirmed, Received, Troubles
<1> QED
  BY <1>1, <1>2, <1>3, <1>4, <1>5, <1>6, <1>7, <1>8 DEF TelegramNext

LEMMA TelegramInvHolds == TelegramSpec => []TelegramInv
  BY TelegramInitInv, TelegramNextInv, PTL DEF TelegramSpec

(* An update that getUpdates makes the service forget was handled, wherever *)
(* a bot that polls failed, died or was started again before it.            *)
THEOREM PolledUpdatesAreNotLost == TelegramSpec => ForgottenWasHandled
<1>1. TelegramInv /\ [TelegramNext]_telegramVars =>
        [bot.mode # "webhook" =>
           \A u \in (forgotten + 1)..forgotten' : outcome[u] # "none"]_telegramVars
  <2> SUFFICES ASSUME TelegramInv, TelegramNext, bot.mode # "webhook",
                      NEW u \in (forgotten + 1)..forgotten'
               PROVE  outcome[u] # "none"
    OBVIOUS
  <2>0. /\ forgotten \in Nat /\ Confirmed \in Nat /\ Len(batch) \in Nat /\ Len(sent) \in Nat /\ MaxUpdates \in Nat
        /\ Confirmed + Len(batch) <= Len(sent) /\ Len(sent) <= MaxUpdates /\ SettledSoFar
    BY TelegramParts DEF TelegramTypeOK, BatchFollows
  <2>1. CASE forgotten' = forgotten
    BY <2>0, <2>1
  <2>2. CASE GetUpdates
    <3>1. forgotten' = Confirmed /\ tasks = {}
      BY <2>2 DEF GetUpdates, Idle
    <3>2. u \in Ids /\ u <= Confirmed
      BY <2>0, <3>1 DEF Ids
    <3> QED
      BY <2>0, <3>1, <3>2 DEF SettledSoFar
  <2>3. GetUpdates \/ forgotten' = forgotten
    BY DEF TelegramNext, UserSends, GetUpdatesFails, TakeUpdate, OncePassEnds, WebhookCall, Handle,
       Ignore, RunTurn, SendMessage, HandlingFails, Crash, Start
  <2> QED
    BY <2>1, <2>2, <2>3
<1> QED
  BY <1>1, TelegramInvHolds, PTL DEF TelegramSpec, ForgottenWasHandled

(* A message is heard again only behind a fault: once for every end of the  *)
(* process, and behind a webhook once for every call that failed or was     *)
(* repeated while the first one ran.                                        *)
THEOREM MessagesAreHeardAgainOnlyBehindFaults == TelegramSpec => []NoTurnTwiceForNothing
<1>1. TelegramInv => NoTurnTwiceForNothing
  <2> SUFFICES ASSUME TelegramInv, bot.mode # "once", NEW u \in Ids
               PROVE  turns[u] <= 1 + deaths + (IF bot.mode = "webhook" THEN failures + slow ELSE 0)
    BY DEF NoTurnTwiceForNothing
  <2>0. /\ turns[u] \in Nat /\ deaths \in Nat /\ failures \in Nat /\ slow \in Nat
        /\ PollsAreCounted /\ CallsAreCounted /\ bot.mode \in {"polling", "once", "webhook"}
    BY TelegramParts DEF TelegramTypeOK, Bots
  <2>1. CASE bot.mode = "polling"
    BY <2>0, <2>1 DEF PollsAreCounted
  <2>2. CASE bot.mode = "webhook"
    <3>1. turns[u] + Cardinality(Received(u)) <= 1 + Troubles /\ Cardinality(Received(u)) \in Nat
      BY <2>0, <2>2, ReceivedIsFinite DEF CallsAreCounted
    <3> QED
      BY <2>0, <2>2, <3>1 DEF Troubles
  <2> QED
    BY <2>0, <2>1, <2>2
<1> QED
  BY <1>1, TelegramInvHolds, PTL

-----------------------------------------------------------------------------
(* The export of runs.                                                     *)

ExportSpec == ExportInit /\ [][ExportNext]_exportVars

Walks == [open : BOOLEAN, byTag : BOOLEAN, offset : Nat, total : Nat,
          seen : SUBSET Nat, wanted : SUBSET Nat, untagged : BOOLEAN]

ExportTypeOK ==
  /\ exported \in Nat
  /\ open \subseteq 1..exported /\ file \subseteq 1..exported
  /\ locally \in Seq(Outcomes) /\ Len(locally) = exported
  /\ queue \in Seq(Nat) /\ received \in Seq(Nat)
  /\ pages \in Walks

Rising(runs) == \A i, j \in 1..Len(runs) : i < j => runs[i] < runs[j]

(* The queue goes on where the endpoint has come to; only the first of it   *)
(* may have arrived, when its answer was lost.                              *)
PostsAreInOrder ==
  /\ Rising(received) /\ Rising(queue)
  /\ \A i \in 1..Len(queue) : queue[i] <= exported
  /\ \A i \in 1..Len(received) :
       received[i] <= exported /\ \A j \in 1..Len(queue) : received[i] <= queue[j]

Waits(run) == \E i \in 1..Len(queue) : queue[i] = run
Arrived(run) == \E i \in 1..Len(received) : received[i] = run

(* Until the process dies a run is posted, given up or waits; one that was  *)
(* stored is in the file.                                                   *)
RunsAreSomewhere ==
  /\ process # "dead" /\ "http" \in sinks =>
       \A run \in Runs : Arrived(run) \/ run \in gaveUp \/ Waits(run)
  /\ process = "closed" => Len(queue) = 0
  /\ \A run \in Runs : locally[run] = "stored" => run \in file

(* A wanted run that was not seen is behind all the pages that were read.   *)
Behind(run) == Cardinality(Newer(run, Matching(pages.byTag))) >= pages.offset + PageSize
WantedIsAhead ==
  process = "running" /\ pages.open /\ ~pages.untagged =>
    \A run \in pages.wanted :
      run \in Matching(pages.byTag) /\ (run \in pages.seen \/ Behind(run))

ExportInv ==
  ExportTypeOK /\ PostsAreInOrder /\ RunsAreSomewhere /\ WantedIsAhead /\ PagesSkipNothing

LEMMA ExportParts ==
    ASSUME ExportInv
    PROVE  /\ ExportTypeOK /\ PostsAreInOrder /\ RunsAreSomewhere /\ WantedIsAhead
           /\ PagesSkipNothing
           /\ PageSize \in Nat /\ PageSize > 0
  BY ExportAssumption DEF ExportInv

-----------------------------------------------------------------------------
(* Ranks in a list of runs.                                                 *)

(* A list that grows has no fewer newer runs.                               *)
LEMMA RanksGrow ==
    ASSUME NEW before, NEW after, NEW run, before \subseteq after, IsFiniteSet(after)
    PROVE  /\ Cardinality(Newer(run, before)) \in Nat
           /\ Cardinality(Newer(run, after)) \in Nat
           /\ Cardinality(Newer(run, before)) <= Cardinality(Newer(run, after))
<1>1. Newer(run, after) \subseteq after /\ Newer(run, before) \subseteq Newer(run, after)
  BY DEF Newer
<1>2. IsFiniteSet(Newer(run, after))
  BY <1>1, FS_Subset
<1>3. IsFiniteSet(Newer(run, before))
  BY <1>1, <1>2, FS_Subset
<1> QED
  BY <1>1, <1>2, <1>3, FS_Subset, FS_CardinalityType

(* A run that is listed is not newer than itself.                           *)
LEMMA RankIsBelowTotal ==
    ASSUME NEW shown, NEW run \in shown, shown \subseteq Nat, IsFiniteSet(shown)
    PROVE  /\ Cardinality(Newer(run, shown)) \in Nat /\ Cardinality(shown) \in Nat
           /\ Cardinality(Newer(run, shown)) < Cardinality(shown)
<1>1. Newer(run, shown) \subseteq shown /\ run \notin Newer(run, shown)
  BY DEF Newer
<1>2. IsFiniteSet(Newer(run, shown))
  BY <1>1, FS_Subset
<1>3. Cardinality(Newer(run, shown)) # Cardinality(shown)
  BY <1>1, FS_Subset
<1>4. Cardinality(Newer(run, shown)) <= Cardinality(shown)
  BY <1>1, FS_Subset
<1>5. Cardinality(Newer(run, shown)) \in Nat /\ Cardinality(shown) \in Nat
  BY <1>2, FS_CardinalityType
<1> QED
  BY <1>3, <1>4, <1>5

LEMMA ListsAreFinite ==
    ASSUME ExportTypeOK, NEW byTag
    PROVE  Matching(byTag) \subseteq Nat /\ IsFiniteSet(Matching(byTag))
<1>1. Matching(byTag) \subseteq 1..exported
  BY DEF ExportTypeOK, Matching, Listed
<1>2. IsFiniteSet(1..exported)
  BY FS_Interval DEF ExportTypeOK
<1> QED
  BY <1>1, <1>2, FS_Subset DEF ExportTypeOK

(* A page that is read: who is neither on it nor before it is behind it.    *)
LEMMA PageIsRead ==
    ASSUME ExportInv, NEW byTag, NEW from \in Nat, NEW run \in Matching(byTag),
           Cardinality(Newer(run, Matching(byTag))) >= from,
           run \notin ListRuns(byTag, from).items
    PROVE  /\ Cardinality(Newer(run, Matching(byTag))) >= from + PageSize
           /\ ListRuns(byTag, from).total > from + PageSize
<1>0. ExportTypeOK /\ PageSize \in Nat
  BY ExportParts
<1>1. Matching(byTag) \subseteq Nat /\ IsFiniteSet(Matching(byTag))
  BY <1>0, ListsAreFinite
<1>2. /\ Cardinality(Newer(run, Matching(byTag))) \in Nat
      /\ Cardinality(Matching(byTag)) \in Nat
      /\ Cardinality(Newer(run, Matching(byTag))) < Cardinality(Matching(byTag))
  BY <1>1, RankIsBelowTotal
<1>3. Cardinality(Newer(run, Matching(byTag))) \notin from..(from + PageSize - 1)
  BY DEF ListRuns
<1>4. Cardinality(Newer(run, Matching(byTag))) >= from + PageSize
  BY <1>0, <1>2, <1>3
<1>5. ListRuns(byTag, from).total = Cardinality(Matching(byTag))
  BY DEF ListRuns
<1> QED
  BY <1>0, <1>2, <1>4, <1>5

(* A step that takes nothing off the list leaves the walk where it was.     *)
LEMMA WalkStays ==
    ASSUME ExportInv, ExportTypeOK', UNCHANGED pages,
           process' = "running" => process = "running",
           process' = "running" /\ ~pages.untagged => Matching(pages.byTag) \subseteq Matching(pages.byTag)'
    PROVE  WantedIsAhead' /\ PagesSkipNothing'
<1>0. ExportTypeOK /\ WantedIsAhead /\ PagesSkipNothing /\ PageSize \in Nat
  BY ExportParts
<1>1. PagesSkipNothing'
  BY <1>0 DEF PagesSkipNothing, HasNextPage
<1>2. ASSUME process' = "running", pages.open, ~pages.untagged, NEW run \in pages.wanted
      PROVE  run \in Matching(pages.byTag)' /\ (run \in pages.seen \/ Behind(run)')
  <2> DEFINE before == Matching(pages.byTag)
             after == Matching(pages.byTag)'
  <2>1. before \subseteq after /\ IsFiniteSet(after)
    <3>1. before \subseteq after
      BY <1>2
    <3>2. after \subseteq 1..exported' /\ exported' \in Nat
      BY DEF ExportTypeOK, Matching, Listed
    <3>3. IsFiniteSet(1..exported')
      BY <3>2, FS_Interval
    <3> QED
      BY <3>1, <3>2, <3>3, FS_Subset
  <2>2. run \in before /\ (run \in pages.seen \/ Behind(run))
    BY <1>0, <1>2 DEF WantedIsAhead
  <2>3. /\ Cardinality(Newer(run, before)) \in Nat
        /\ Cardinality(Newer(run, after)) \in Nat
        /\ Cardinality(Newer(run, before)) <= Cardinality(Newer(run, after))
    BY <2>1, RanksGrow
  <2>4. pages.offset \in Nat
    BY <1>0 DEF ExportTypeOK, Walks
  <2>5. ASSUME Behind(run) PROVE Behind(run)'
    <3>1. Cardinality(Newer(run, before)) >= pages.offset + PageSize
      BY <2>5 DEF Behind
    <3>2. Cardinality(Newer(run, after)) >= pages.offset + PageSize
      BY <3>1, <2>3, <2>4, <1>0
    <3> QED
      BY <3>2 DEF Behind, Newer
  <2> QED
    BY <2>1, <2>2, <2>5
<1> QED
  BY <1>1, <1>2 DEF WantedIsAhead

(* Nothing of the posts changes: neither do their facts.                    *)
LEMMA PostsStay ==
    ASSUME PostsAreInOrder, UNCHANGED <<received, queue, exported>>
    PROVE  PostsAreInOrder'
  BY DEF PostsAreInOrder, Rising

-----------------------------------------------------------------------------
(* Each action.                                                             *)

LEMMA ExportInitInv == ExportInit => ExportInv
<1> SUFFICES ASSUME ExportInit PROVE ExportInv
  OBVIOUS
<1>1. ExportTypeOK
  <2>1. NoPages \in Walks
    BY DEF NoPages, Walks
  <2>2. queue \in Seq(Nat) /\ received \in Seq(Nat) /\ locally \in Seq(Outcomes) /\ Len(locally) = 0
    BY DEF ExportInit
  <2> QED
    BY <2>1, <2>2 DEF ExportInit, ExportTypeOK
<1>2. PostsAreInOrder
  BY DEF ExportInit, PostsAreInOrder, Rising
<1>3. RunsAreSomewhere
  BY DEF ExportInit, RunsAreSomewhere, Runs
<1>4. WantedIsAhead /\ PagesSkipNothing
  BY DEF ExportInit, WantedIsAhead, PagesSkipNothing, NoPages
<1> QED
  BY <1>1, <1>2, <1>3, <1>4 DEF ExportInv

LEMMA RunEndsInv ==
    ASSUME ExportInv, RunEnds, UNCHANGED sinks
    PROVE  ExportInv'
<1> DEFINE run == exported + 1
<1>0. PICK ending \in Outcomes :
        /\ CompositeExport(run, ending) /\ locally' = Append(locally, ending)
        /\ process = "running" /\ exported' = run
        /\ UNCHANGED <<sinks, attempt, received, gaveUp, process, pages, tagged>>
  BY DEF RunEnds, dashboardVars
<1>1. /\ ExportTypeOK /\ PostsAreInOrder /\ RunsAreSomewhere
      /\ exported \in Nat /\ run \in Nat /\ run = exported + 1
  BY ExportParts DEF ExportTypeOK
<1> HIDE DEF run
<1>2. /\ LocalExport(run, ending) /\ Submit(run)
  BY <1>0 DEF CompositeExport
<1>3. /\ open' \subseteq open \cup {run} /\ file' \subseteq file \cup open \cup {run}
      /\ file \subseteq file' /\ file \cup open \subseteq file' \cup open'
      /\ ending = "stored" => run \in file'
  BY <1>2 DEF LocalExport
<1>4. \/ queue' = Append(queue, run) /\ "http" \in sinks
      \/ queue' = queue /\ "http" \notin sinks
  BY <1>2 DEF Submit
<1>5. Len(locally') = run /\ locally'[run] = ending /\ \A i \in 1..exported : locally'[i] = locally[i]
  <2>1. locally \in Seq(Outcomes) /\ Len(locally) = exported /\ locally' = Append(locally, ending)
    BY <1>0, <1>1 DEF ExportTypeOK
  <2> QED
    BY <2>1, <1>1
<1>6. ExportTypeOK'
  <2>1. 1..exported \subseteq 1..run /\ run \in 1..run
    BY <1>1
  <2>2. open' \subseteq 1..run /\ file' \subseteq 1..run
    BY <2>1, <1>1, <1>3 DEF ExportTypeOK
  <2>3. queue \in Seq(Nat) /\ locally \in Seq(Outcomes)
    BY <1>1 DEF ExportTypeOK
  <2>4. queue' \in Seq(Nat)
    <3>1. run \in Nat => Append(queue, run) \in Seq(Nat)
      BY <2>3
    <3> QED
      BY <3>1, <2>3, <1>1, <1>4
  <2>5. locally' \in Seq(Outcomes)
    BY <2>3, <1>0
  <2> QED
    BY <2>2, <2>4, <2>5, <1>0, <1>1, <1>5 DEF ExportTypeOK
<1>7. PostsAreInOrder'
  <2>1. CASE queue' = queue
    BY <2>1, <1>0, <1>1 DEF PostsAreInOrder, Rising, ExportTypeOK
  <2>2. CASE queue' = Append(queue, run)
    <3>1. /\ Len(queue') = Len(queue) + 1 /\ queue'[Len(queue) + 1] = run
          /\ \A i \in 1..Len(queue) : queue'[i] = queue[i]
          /\ Len(queue) \in Nat /\ Len(received) \in Nat
      BY <2>2, <1>1 DEF ExportTypeOK
    <3>2. /\ \A i \in 1..Len(queue) : queue[i] \in Nat /\ queue[i] < run
          /\ \A i \in 1..Len(received) : received[i] \in Nat /\ received[i] < run
      BY <1>1 DEF PostsAreInOrder, ExportTypeOK
    <3>3. Rising(queue')
      <4>1. ASSUME NEW i \in 1..Len(queue'), NEW j \in 1..Len(queue'), i < j
            PROVE  queue'[i] < queue'[j]
        <5>1. i \in 1..Len(queue)
          BY <3>1, <4>1
        <5>2. CASE j \in 1..Len(queue)
          BY <5>1, <5>2, <4>1, <3>1, <1>1 DEF PostsAreInOrder, Rising
        <5>3. CASE j = Len(queue) + 1
          BY <5>1, <5>3, <3>1, <3>2
        <5> QED
          BY <5>2, <5>3, <3>1
      <4> QED
        BY <4>1 DEF Rising
    <3>4. \A i \in 1..Len(queue') : queue'[i] <= run
      BY SMTT(30), <3>1, <3>2, <1>1
    <3>5. \A i \in 1..Len(received) : \A j \in 1..Len(queue') : received[i] <= queue'[j]
      BY <3>1, <3>2, <1>1 DEF PostsAreInOrder
    <3> QED
      BY <3>2, <3>3, <3>4, <3>5, <1>0, <1>1 DEF PostsAreInOrder, Rising
  <2> QED
    BY <2>1, <2>2, <1>4
<1>8. RunsAreSomewhere'
  <2>1. Runs' = Runs \cup {run}
    BY <1>0, <1>1 DEF Runs
  <2>2. ASSUME "http" \in sinks, NEW old \in Runs'
        PROVE  Arrived(old)' \/ old \in gaveUp' \/ Waits(old)'
    <3>1. /\ Len(queue') = Len(queue) + 1 /\ queue'[Len(queue) + 1] = run
          /\ \A i \in 1..Len(queue) : queue'[i] = queue[i]
          /\ Len(queue) \in Nat
      <4>1. queue \in Seq(Nat) /\ queue' = Append(queue, run)
        BY <2>2, <1>1, <1>4 DEF ExportTypeOK
      <4> QED
        BY <4>1
    <3>2. CASE old = run
      BY <3>1, <3>2 DEF Waits
    <3>3. CASE old \in Runs
      <4>1. Arrived(old) \/ old \in gaveUp \/ Waits(old)
        BY <3>3, <2>2, <1>0, <1>1 DEF RunsAreSomewhere
      <4>2. Waits(old) => Waits(old)'
        BY <3>1 DEF Waits
      <4> QED
        BY <4>1, <4>2, <1>0 DEF Arrived
    <3> QED
      BY <3>2, <3>3, <2>1
  <2>3. ASSUME NEW old \in Runs', locally'[old] = "stored" PROVE old \in file'
    BY <2>1, <2>3, <1>1, <1>3, <1>5 DEF RunsAreSomewhere, Runs
  <2> QED
    BY <2>2, <2>3, <1>0 DEF RunsAreSomewhere
<1>9. WantedIsAhead' /\ PagesSkipNothing'
  <2>1. Matching(pages.byTag) \subseteq Matching(pages.byTag)'
    BY <1>0, <1>3 DEF Matching, Listed
  <2> QED
    BY <2>1, <1>0, <1>6, WalkStays
<1> QED
  BY <1>6, <1>7, <1>8, <1>9 DEF ExportInv

LEMMA PatchRunInv ==
    ASSUME ExportInv, PatchRun, UNCHANGED sinks
    PROVE  ExportInv'
<1>0. PICK run \in Listed :
        /\ \/ tagged' = tagged \cup {run} /\ UNCHANGED pages
           \/ /\ tagged' = tagged \ {run}
              /\ pages' = [pages EXCEPT !.untagged = @ \/ (pages.byTag /\ run \in tagged)]
        /\ open' = {} /\ file' = file \cup open
        /\ UNCHANGED <<sinks, exported, locally, queue, received, gaveUp, process>>
  BY DEF PatchRun, Commit
<1>1. ExportTypeOK /\ PostsAreInOrder /\ RunsAreSomewhere
  BY ExportParts
<1>2. ExportTypeOK'
  <2>1. pages' \in Walks
    BY <1>0, <1>1 DEF ExportTypeOK, Walks
  <2> QED
    BY <2>1, <1>0, <1>1 DEF ExportTypeOK
<1>3. PostsAreInOrder'
  BY <1>0, <1>1, PostsStay
<1>4. RunsAreSomewhere'
  BY <1>0, <1>1 DEF RunsAreSomewhere, Runs, Arrived, Waits
<1>5. WantedIsAhead' /\ PagesSkipNothing'
  <2>1. Listed' = Listed
    BY <1>0 DEF Listed
  <2>2. CASE UNCHANGED pages /\ (pages.untagged \/ Matching(pages.byTag) \subseteq Matching(pages.byTag)')
    BY <2>2, <1>0, <1>2, WalkStays
  <2>3. CASE tagged' = tagged \cup {run} /\ UNCHANGED pages
    BY <2>1, <2>2, <2>3 DEF Matching
  <2>4. CASE /\ tagged' = tagged \ {run}
             /\ pages' = [pages EXCEPT !.untagged = @ \/ (pages.byTag /\ run \in tagged)]
    <3>1. pages \in Walks
      BY <1>1 DEF ExportTypeOK
    <3>2. CASE pages.byTag /\ run \in tagged
      <4>1. pages'.untagged
        BY <2>4, <3>1, <3>2 DEF Walks
      <4> QED
        BY <4>1 DEF WantedIsAhead, PagesSkipNothing
    <3>3. CASE ~(pages.byTag /\ run \in tagged)
      <4>1. pages' = pages
        BY <2>4, <3>1, <3>3 DEF Walks
      <4>2. Matching(pages.byTag) \subseteq Matching(pages.byTag)'
        BY <2>1, <2>4, <3>3, <4>1 DEF Matching
      <4> QED
        BY <4>1, <4>2, <2>2
    <3> QED
      BY <3>2, <3>3
  <2> QED
    BY <2>3, <2>4, <1>0
<1> QED
  BY <1>2, <1>3, <1>4, <1>5 DEF ExportInv

LEMMA OpenListInv ==
    ASSUME ExportInv, OpenList, UNCHANGED sinks
    PROVE  ExportInv'
<1>0. PICK byTag \in BOOLEAN :
        /\ pages' = [NoPages EXCEPT !.open = TRUE, !.byTag = byTag,
                                    !.total = ListRuns(byTag, 0).total,
                                    !.seen = ListRuns(byTag, 0).items,
                                    !.wanted = Matching(byTag)]
        /\ UNCHANGED <<sinks, sinkVars, tagged>>
  BY DEF OpenList
<1>1. /\ ExportTypeOK /\ PostsAreInOrder /\ RunsAreSomewhere /\ PageSize \in Nat
      /\ UNCHANGED <<exported, open, file, locally, queue, received, gaveUp, process>>
  BY <1>0, ExportParts DEF sinkVars
<1>2. /\ Matching(byTag) \subseteq Nat /\ IsFiniteSet(Matching(byTag))
      /\ Matching(byTag)' = Matching(byTag)
  BY <1>0, <1>1, ListsAreFinite DEF Matching, Listed
<1>3. pages' = [open |-> TRUE, byTag |-> byTag, offset |-> 0,
                total |-> ListRuns(byTag, 0).total, seen |-> ListRuns(byTag, 0).items,
                wanted |-> Matching(byTag), untagged |-> FALSE]
  BY <1>0 DEF NoPages
<1>4. ExportTypeOK'
  <2>1. ListRuns(byTag, 0).items \subseteq Nat /\ ListRuns(byTag, 0).total \in Nat
    BY <1>2, FS_CardinalityType DEF ListRuns
  <2>2. pages' \in Walks
    BY <2>1, <1>2, <1>3 DEF Walks
  <2> QED
    BY <2>2, <1>1 DEF ExportTypeOK
<1>5. PostsAreInOrder'
  BY <1>1, PostsStay
<1>6. RunsAreSomewhere'
  BY <1>0, <1>1 DEF RunsAreSomewhere, Runs, Arrived, Waits
<1>7. ASSUME NEW run \in Matching(byTag), run \notin ListRuns(byTag, 0).items
      PROVE  /\ Cardinality(Newer(run, Matching(byTag))) >= 0 + PageSize
             /\ ListRuns(byTag, 0).total > 0 + PageSize
  <2>1. Cardinality(Newer(run, Matching(byTag))) \in Nat
    BY <1>2, RanksGrow
  <2>2. Cardinality(Newer(run, Matching(byTag))) >= 0 /\ 0 \in Nat
    BY <2>1
  <2> QED
    BY <2>2, <1>7, PageIsRead
<1>8. WantedIsAhead'
  BY <1>2, <1>3, <1>7 DEF WantedIsAhead, Behind, Newer
<1>9. PagesSkipNothing'
  BY <1>3, <1>7 DEF PagesSkipNothing, HasNextPage
<1> QED
  BY <1>4, <1>5, <1>6, <1>8, <1>9 DEF ExportInv

LEMMA NextPageInv ==
    ASSUME ExportInv, NextPage, UNCHANGED sinks
    PROVE  ExportInv'
<1>0. PICK byTag, from :
        /\ byTag = pages.byTag /\ from = pages.offset + PageSize
        /\ pages' = [pages EXCEPT !.offset = @ + PageSize,
                                  !.total = ListRuns(byTag, from).total,
                                  !.seen = @ \cup ListRuns(byTag, from).items]
        /\ process = "running" /\ pages.open
        /\ UNCHANGED <<sinks, sinkVars, tagged>>
  BY DEF NextPage, HasNextPage, Served
<1>1. /\ ExportTypeOK /\ PostsAreInOrder /\ RunsAreSomewhere /\ WantedIsAhead
      /\ PageSize \in Nat /\ pages \in Walks
      /\ UNCHANGED <<exported, open, file, locally, queue, received, gaveUp, process>>
  BY <1>0, ExportParts DEF sinkVars, ExportTypeOK
<1>2. /\ Matching(byTag) \subseteq Nat /\ IsFiniteSet(Matching(byTag))
      /\ Matching(byTag)' = Matching(byTag)
  BY <1>0, <1>1, ListsAreFinite DEF Matching, Listed
<1>3. /\ pages'.open /\ pages'.byTag = byTag /\ pages'.offset = from
      /\ pages'.total = ListRuns(byTag, from).total
      /\ pages'.seen = pages.seen \cup ListRuns(byTag, from).items
      /\ pages'.wanted = pages.wanted /\ pages'.untagged = pages.untagged
  BY <1>0, <1>1 DEF Walks
<1>4. from \in Nat
  BY <1>0, <1>1 DEF Walks
<1>5. ExportTypeOK'
  <2>1. ListRuns(byTag, from).items \subseteq Nat /\ ListRuns(byTag, from).total \in Nat
    BY <1>2, FS_CardinalityType DEF ListRuns
  <2>2. pages.seen \cup ListRuns(byTag, from).items \in SUBSET Nat
    BY <2>1, <1>1 DEF Walks
  <2>3. PICK total \in Nat, seen \in SUBSET Nat :
           total = ListRuns(byTag, from).total
           /\ seen = pages.seen \cup ListRuns(byTag, from).items
    BY <2>1, <2>2
  <2>4. pages' = [pages EXCEPT !.offset = from, !.total = total, !.seen = seen]
    BY <2>3, <1>0
  <2>5. pages' \in Walks
    BY <2>4, <1>1, <1>4 DEF Walks
  <2> QED
    BY <2>5, <1>1 DEF ExportTypeOK
<1>6. PostsAreInOrder'
  BY <1>1, PostsStay
<1>7. RunsAreSomewhere'
  BY <1>0, <1>1 DEF RunsAreSomewhere, Runs, Arrived, Waits
<1>8. ASSUME ~pages.untagged, NEW run \in pages.wanted, run \notin pages'.seen
      PROVE  /\ Cardinality(Newer(run, Matching(byTag))) >= from + PageSize
             /\ ListRuns(byTag, from).total > from + PageSize
  <2>1. run \in Matching(byTag) /\ run \notin ListRuns(byTag, from).items
    BY <1>0, <1>1, <1>3, <1>8 DEF WantedIsAhead
  <2>2. Cardinality(Newer(run, Matching(byTag))) >= from
    BY <1>0, <1>1, <1>3, <1>8 DEF WantedIsAhead, Behind
  <2> QED
    BY <2>1, <2>2, <1>4, PageIsRead
<1>9. WantedIsAhead'
  <2>1. \A run \in pages.wanted : ~pages.untagged => run \in Matching(byTag)
    BY <1>0, <1>1 DEF WantedIsAhead
  <2> QED
    BY <2>1, <1>2, <1>3, <1>8 DEF WantedIsAhead, Behind, Newer
<1>10. PagesSkipNothing'
  BY <1>3, <1>8 DEF PagesSkipNothing, HasNextPage
<1> QED
  BY <1>5, <1>6, <1>7, <1>9, <1>10 DEF ExportInv

(* The first run of the queue leaves it.                                    *)
LEMMA FirstLeaves ==
    ASSUME ExportInv, Len(queue) > 0, queue' = Tail(queue), UNCHANGED exported,
           received' \in Seq(Nat), Rising(received'),
           \A i \in 1..Len(received') : received'[i] <= queue[1]
    PROVE  PostsAreInOrder' /\ queue' \in Seq(Nat)
<1>0. ExportTypeOK /\ PostsAreInOrder /\ queue \in Seq(Nat) /\ exported \in Nat
  BY ExportParts DEF ExportTypeOK
<1>1. /\ queue' \in Seq(Nat) /\ Len(queue') \in Nat /\ Len(queue) = Len(queue') + 1
      /\ \A i \in 1..Len(queue') : queue'[i] = queue[i + 1]
  BY <1>0
<1>2. ASSUME NEW i \in 1..Len(queue')
      PROVE  i + 1 \in 1..Len(queue) /\ 1 \in 1..Len(queue) /\ 1 < i + 1
  BY <1>1, <1>2
<1>3. Rising(queue')
  <2>1. ASSUME NEW i \in 1..Len(queue'), NEW j \in 1..Len(queue'), i < j
        PROVE  queue'[i] < queue'[j]
    <3>1. i + 1 < j + 1
      BY <2>1
    <3> QED
      BY <3>1, <1>0, <1>1, <1>2 DEF PostsAreInOrder, Rising
  <2> QED
    BY <2>1 DEF Rising
<1>4. \A i \in 1..Len(queue') : queue'[i] <= exported
  BY <1>0, <1>1, <1>2 DEF PostsAreInOrder
<1>5. ASSUME NEW i \in 1..Len(received')
      PROVE  received'[i] <= exported /\ \A j \in 1..Len(queue') : received'[i] <= queue'[j]
  <2>1. received'[i] \in Nat /\ received'[i] <= queue[1]
    BY <1>5
  <2>2. queue[1] \in Nat /\ queue[1] <= exported
    BY <1>0 DEF PostsAreInOrder
  <2>3. ASSUME NEW j \in 1..Len(queue') PROVE queue'[j] \in Nat /\ queue[1] < queue'[j]
    <3>1. queue'[j] = queue[j + 1] /\ j + 1 \in 1..Len(queue) /\ 1 \in 1..Len(queue) /\ 1 < j + 1
      BY <1>1, <1>2
    <3> QED
      BY SMTT(30), <3>1, <1>0 DEF PostsAreInOrder, Rising
  <2> QED
    BY SMTT(30), <2>1, <2>2, <2>3, <1>0
<1> QED
  BY <1>1, <1>3, <1>4, <1>5 DEF PostsAreInOrder, Rising

(* What the endpoint makes of the first run of the queue.                   *)
LEMMA FirstIsStored ==
    ASSUME ExportInv, Len(queue) > 0, Store(Head(queue))
    PROVE  /\ received' \in Seq(Nat) /\ Rising(received')
           /\ \A i \in 1..Len(received') : received'[i] <= queue[1]
           /\ \A run : Arrived(run) \/ run = queue[1] => Arrived(run)'
<1>0. /\ ExportTypeOK /\ PostsAreInOrder /\ queue \in Seq(Nat) /\ received \in Seq(Nat)
      /\ Head(queue) = queue[1] /\ 1 \in 1..Len(queue) /\ queue[1] \in Nat
      /\ Len(received) \in Nat
  BY ExportParts DEF ExportTypeOK
<1>1. \A i \in 1..Len(received) : received[i] \in Nat /\ received[i] <= queue[1]
  BY <1>0 DEF PostsAreInOrder
<1>2. CASE received' = received /\ queue[1] \in ToSet(received)
  <2>1. PICK i \in DOMAIN received : received[i] = queue[1]
    BY <1>2 DEF ToSet
  <2>2. Arrived(queue[1])
    BY <2>1, <1>0 DEF Arrived
  <2> QED
    BY <2>2, <1>0, <1>1, <1>2 DEF Arrived, PostsAreInOrder, Rising
<1>3. CASE received' = Append(received, queue[1]) /\ queue[1] \notin ToSet(received)
  <2>1. /\ received' \in Seq(Nat) /\ Len(received') = Len(received) + 1
        /\ received'[Len(received) + 1] = queue[1]
        /\ \A i \in 1..Len(received) : received'[i] = received[i]
    BY <1>0, <1>3
  <2>2. \A i \in 1..Len(received) : received[i] < queue[1]
    BY <1>0, <1>1, <1>3 DEF ToSet
  <2>3. Rising(received')
    <3>1. ASSUME NEW i \in 1..Len(received'), NEW j \in 1..Len(received'), i < j
          PROVE  received'[i] < received'[j]
      <4>1. i \in 1..Len(received)
        BY <2>1, <3>1, <1>0
      <4>2. CASE j \in 1..Len(received)
        BY <4>1, <4>2, <3>1, <2>1, <1>0 DEF PostsAreInOrder, Rising
      <4>3. CASE j = Len(received) + 1
        BY <4>1, <4>3, <2>1, <2>2
      <4> QED
        BY <4>2, <4>3, <2>1, <1>0
    <3> QED
      BY <3>1 DEF Rising
  <2>4. ASSUME NEW i \in 1..Len(received') PROVE received'[i] <= queue[1]
    <3>1. i \in 1..Len(received) \/ i = Len(received) + 1
      BY <2>1, <1>0
    <3>2. CASE i \in 1..Len(received)
      BY <3>2, <2>1, <1>1
    <3>3. CASE i = Len(received) + 1
      BY <3>3, <2>1, <1>0
    <3> QED
      BY <3>1, <3>2, <3>3
  <2>5. \A run : Arrived(run) \/ run = queue[1] => Arrived(run)'
    <3>1. Len(received) + 1 \in 1..Len(received') /\ 1..Len(received) \subseteq 1..Len(received')
      BY <2>1, <1>0
    <3> QED
      BY <3>1, <2>1 DEF Arrived
  <2> QED
    BY <2>1, <2>3, <2>4, <2>5
<1> QED
  BY <1>0, <1>2, <1>3 DEF Store

(* Who waited and is not the first, waits behind it.                        *)
LEMMA OthersWait ==
    ASSUME ExportInv, Len(queue) > 0, queue' = Tail(queue), NEW run, Waits(run)
    PROVE  run = queue[1] \/ Waits(run)'
<1>0. queue \in Seq(Nat) /\ Len(queue) \in Nat
  BY ExportParts DEF ExportTypeOK
<1>1. PICK i \in 1..Len(queue) : queue[i] = run
  BY DEF Waits
<1>2. CASE i = 1
  BY <1>1, <1>2
<1>3. CASE i # 1
  <2>1. i - 1 \in 1..Len(queue') /\ queue'[i - 1] = queue[i]
    BY <1>0, <1>3
  <2> QED
    BY <2>1, <1>1 DEF Waits
<1> QED
  BY <1>2, <1>3

LEMMA PostSucceedsInv ==
    ASSUME ExportInv, PostSucceeds, UNCHANGED sinks
    PROVE  ExportInv'
<1>0. /\ queue # <<>> /\ Store(Head(queue)) /\ queue' = Tail(queue)
      /\ process \in {"running", "closing"}
      /\ UNCHANGED <<sinks, exported, open, file, locally, gaveUp, process, pages, tagged>>
  BY DEF PostSucceeds, AtWork, NextPost, dashboardVars
<1>1. /\ ExportTypeOK /\ PostsAreInOrder /\ RunsAreSomewhere /\ Len(queue) > 0
  BY <1>0, ExportParts DEF ExportTypeOK
<1>2. /\ received' \in Seq(Nat) /\ Rising(received')
      /\ \A i \in 1..Len(received') : received'[i] <= queue[1]
      /\ \A run : Arrived(run) \/ run = queue[1] => Arrived(run)'
  BY <1>0, <1>1, FirstIsStored
<1>3. PostsAreInOrder' /\ queue' \in Seq(Nat)
  BY <1>0, <1>1, <1>2, FirstLeaves
<1>4. ExportTypeOK'
  BY <1>0, <1>1, <1>2, <1>3 DEF ExportTypeOK
<1>5. RunsAreSomewhere'
  <2>1. ASSUME NEW run \in Runs, Arrived(run) \/ run \in gaveUp \/ Waits(run)
        PROVE  Arrived(run)' \/ run \in gaveUp' \/ Waits(run)'
    BY <2>1, <1>0, <1>1, <1>2, OthersWait
  <2> QED
    BY <2>1, <1>0, <1>1 DEF RunsAreSomewhere, Runs
<1>6. WantedIsAhead' /\ PagesSkipNothing'
  BY <1>0, <1>4, WalkStays DEF Matching, Listed
<1> QED
  BY <1>3, <1>4, <1>5, <1>6 DEF ExportInv

LEMMA PostFailsInv ==
    ASSUME ExportInv, PostFails, UNCHANGED sinks
    PROVE  ExportInv'
<1>0. /\ queue # <<>> /\ process \in {"running", "closing"}
      /\ received' = received \/ Store(Head(queue))
      /\ \/ queue' = queue /\ gaveUp' = gaveUp
         \/ queue' = Tail(queue) /\ gaveUp' = gaveUp \cup {Head(queue)}
      /\ UNCHANGED <<sinks, exported, open, file, locally, process, pages, tagged>>
  BY DEF PostFails, AtWork, NextPost, dashboardVars
<1>1. /\ ExportTypeOK /\ PostsAreInOrder /\ RunsAreSomewhere
      /\ queue \in Seq(Nat) /\ Len(queue) > 0 /\ Head(queue) = queue[1]
  BY <1>0, ExportParts DEF ExportTypeOK
<1>2. /\ received' \in Seq(Nat) /\ Rising(received')
      /\ \A i \in 1..Len(received') : received'[i] <= queue[1]
      /\ \A run : Arrived(run) => Arrived(run)'
  <2>1. CASE Store(Head(queue))
    BY <2>1, <1>1, FirstIsStored
  <2>2. CASE received' = received
    BY <2>2, <1>1 DEF ExportTypeOK, PostsAreInOrder, Rising, Arrived
  <2> QED
    BY <2>1, <2>2, <1>0
<1>3. PostsAreInOrder' /\ queue' \in Seq(Nat)
  <2>1. CASE queue' = Tail(queue)
    BY <2>1, <1>0, <1>1, <1>2, FirstLeaves
  <2>2. CASE queue' = queue
    <3>1. ASSUME NEW i \in 1..Len(received')
          PROVE  received'[i] <= exported /\ \A j \in 1..Len(queue) : received'[i] <= queue[j]
      <4>1. received'[i] \in Nat /\ received'[i] <= queue[1] /\ 1 \in 1..Len(queue)
        BY <1>1, <1>2, <3>1
      <4>2. /\ queue[1] \in Nat /\ queue[1] <= exported /\ exported \in Nat
        BY <4>1, <1>1 DEF PostsAreInOrder, ExportTypeOK
      <4>3. \A j \in 1..Len(queue) : queue[j] \in Nat /\ queue[1] <= queue[j]
        BY <4>1, <4>2, <1>1 DEF PostsAreInOrder, Rising
      <4> QED
        BY <4>1, <4>2, <4>3
    <3> QED
      BY <3>1, <2>2, <1>0, <1>1, <1>2 DEF PostsAreInOrder, Rising
  <2> QED
    BY <2>1, <2>2, <1>0
<1>4. ExportTypeOK'
  BY <1>0, <1>1, <1>2, <1>3 DEF ExportTypeOK
<1>5. RunsAreSomewhere'
  <2>1. ASSUME NEW run \in Runs, Arrived(run) \/ run \in gaveUp \/ Waits(run)
        PROVE  Arrived(run)' \/ run \in gaveUp' \/ Waits(run)'
    <3>1. CASE queue' = Tail(queue) /\ gaveUp' = gaveUp \cup {Head(queue)}
      BY <3>1, <2>1, <1>1, <1>2, OthersWait
    <3>2. CASE queue' = queue /\ gaveUp' = gaveUp
      BY <3>2, <2>1, <1>2 DEF Waits
    <3> QED
      BY <3>1, <3>2, <1>0
  <2> QED
    BY <2>1, <1>0, <1>1 DEF RunsAreSomewhere, Runs
<1>6. WantedIsAhead' /\ PagesSkipNothing'
  BY <1>0, <1>4, WalkStays DEF Matching, Listed
<1> QED
  BY <1>3, <1>4, <1>5, <1>6 DEF ExportInv

LEMMA CloseInv ==
    ASSUME ExportInv, Close \/ PoolDrained, UNCHANGED sinks
    PROVE  ExportInv'
<1>0. /\ open' \subseteq open /\ process' # "running" /\ process # "dead" /\ process' # "dead"
      /\ process' = "closed" => Len(queue) = 0
      /\ UNCHANGED <<sinks, exported, file, locally, queue, received, gaveUp, pages, tagged>>
  BY DEF Close, PoolDrained, dashboardVars
<1>1. ExportTypeOK /\ PostsAreInOrder /\ RunsAreSomewhere
  BY ExportParts
<1>2. ExportTypeOK'
  BY <1>0, <1>1 DEF ExportTypeOK
<1>3. PostsAreInOrder'
  BY <1>0, <1>1, PostsStay
<1>4. RunsAreSomewhere'
  BY <1>0, <1>1 DEF RunsAreSomewhere, Runs, Arrived, Waits
<1>5. WantedIsAhead' /\ PagesSkipNothing'
  BY <1>0, <1>2, WalkStays
<1> QED
  BY <1>2, <1>3, <1>4, <1>5 DEF ExportInv

LEMMA ProcessDiesInv ==
    ASSUME ExportInv, ProcessDies, UNCHANGED sinks
    PROVE  ExportInv'
<1>0. /\ open' = {} /\ queue' = <<>> /\ process' = "dead"
      /\ UNCHANGED <<sinks, exported, file, locally, received, gaveUp, pages, tagged>>
  BY DEF ProcessDies, dashboardVars
<1>1. ExportTypeOK /\ PostsAreInOrder /\ RunsAreSomewhere
  BY ExportParts
<1>2. ExportTypeOK'
  BY <1>0, <1>1 DEF ExportTypeOK
<1>3. PostsAreInOrder'
  BY <1>0, <1>1 DEF PostsAreInOrder, Rising
<1>4. RunsAreSomewhere'
  BY <1>0, <1>1 DEF RunsAreSomewhere, Runs
<1>5. WantedIsAhead' /\ PagesSkipNothing'
  BY <1>0, <1>2, WalkStays
<1> QED
  BY <1>2, <1>3, <1>4, <1>5 DEF ExportInv

LEMMA ExportNextInv == ExportInv /\ [ExportNext]_exportVars => ExportInv'
<1> SUFFICES ASSUME ExportInv, [ExportNext]_exportVars PROVE ExportInv'
  OBVIOUS
<1>1. CASE ExportNext
  BY <1>1, RunEndsInv, PatchRunInv, OpenListInv, NextPageInv, PostSucceedsInv, PostFailsInv,
     CloseInv, ProcessDiesInv DEF ExportNext
<1>2. CASE UNCHANGED exportVars
  BY <1>2 DEF exportVars, sinkVars, dashboardVars, ExportInv, ExportTypeOK, PostsAreInOrder,
              Rising, RunsAreSomewhere, Runs, Arrived, Waits, WantedIsAhead, Behind, Newer,
              Matching, Listed, PagesSkipNothing, HasNextPage
<1> QED
  BY <1>1, <1>2

LEMMA ExportInvTells == ExportInv => RunsAreExported
<1> SUFFICES ASSUME ExportInv PROVE RunsAreExported
  OBVIOUS
<1>0. /\ ExportTypeOK /\ PostsAreInOrder /\ RunsAreSomewhere /\ PagesSkipNothing
      /\ received \in Seq(Nat)
  BY ExportParts DEF ExportTypeOK
<1>1. ReceivedOnceInOrder
  BY <1>0 DEF ReceivedOnceInOrder, PostsAreInOrder, Rising
<1>2. ASinkOutlivesTheOther
  <2> SUFFICES ASSUME process = "closed"
               PROVE  /\ "http" \in sinks => Runs \subseteq ToSet(received) \cup gaveUp
                      /\ \A run \in Runs : locally[run] = "stored" => run \in file
    BY DEF ASinkOutlivesTheOther
  <2>1. ASSUME "http" \in sinks, NEW run \in Runs
        PROVE  run \in ToSet(received) \cup gaveUp
    <3>1. Arrived(run) \/ run \in gaveUp \/ Waits(run)
      BY <2>1, <1>0 DEF RunsAreSomewhere
    <3>2. ~Waits(run)
      BY <1>0 DEF RunsAreSomewhere, Waits
    <3>3. Arrived(run) => run \in ToSet(received)
      BY <1>0 DEF Arrived, ToSet
    <3> QED
      BY <3>1, <3>2, <3>3
  <2> QED
    BY <2>1, <1>0 DEF RunsAreSomewhere
<1> QED
  BY <1>0, <1>1, <1>2 DEF RunsAreExported

(* The trace of a run arrives once and in order at the endpoint, whatever   *)
(* posts and answers are lost; after close the endpoint has every run that  *)
(* was not given up and the file every run that was stored, whatever went   *)
(* wrong at the other; and a walk through the pages misses no run but when  *)
(* one lost the tag that is listed by.                                     *)
THEOREM RunsArriveAtTheirSinks == ExportSpec => []RunsAreExported
<1>1. ExportSpec => []ExportInv
  BY ExportInitInv, ExportNextInv, PTL DEF ExportSpec
<1> QED
  BY <1>1, ExportInvTells, PTL
=============================================================================
