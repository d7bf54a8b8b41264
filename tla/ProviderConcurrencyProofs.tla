---------------------- MODULE ProviderConcurrencyProofs ----------------------
(***************************************************************************)
(* Proofs about calls of a model, for any number of calls, harnesses,      *)
(* caps, retries and fallbacks.                                            *)
(*                                                                         *)
(* The cap of a provider holds as long as set_provider_concurrency is only *)
(* called while no call is in flight: the counter of active calls then     *)
(* counts exactly the users of the one semaphore in force, so that "idle"  *)
(* means what _concurrency_semaphore takes it to mean.  The bound on the   *)
(* requests of a call holds in any case.  Then the replies of an llm_chat  *)
(* node, the references of a document to its providers, and the rounds of  *)
(* the supervisor of a team, whose calls decide which agent goes on.       *)
(***************************************************************************)
EXTENDS MCCalls, DocumentValidation, SupervisedTeam, FiniteSetTheorems, SequenceTheorems,
        WellFoundedInduction, TLAPS

SlotsInv ==
    /\ current # 0 => Cardinality(Holders(current)) <= sems[current]
    /\ explicit => current # 0
    /\ \A c \in Call : explicit /\ InFlight(c) => call[c].sem # 0
    /\ \A c \in Call : call[c].pc \in {"new", "ready"} => call[c].sem = 0
    /\ \A c \in Call : call[c].pc = "waiting" => call[c].sem # 0

IInv == TypeOK /\ GuardIsReplacedOnlyIdle /\ SlotsInv

LEMMA PartsAreFinite ==
    ASSUME NEW S \in SUBSET Call
    PROVE  IsFiniteSet(S) /\ Cardinality(S) \in Nat
BY ConcurrencyAssumption, FS_Subset, FS_CardinalityType

(* Whoever holds a slot of the current semaphore is one of its users.       *)
LEMMA HoldersAreUsers ==
    \A sem \in Nat \ {0} : Holders(sem) \subseteq Users
BY DEF Holders, Users, InFlight

(* TypeOK' from its parts, for a step that moves no call to another guard.  *)
LEMMA SameGuards ==
    ASSUME TypeOK,
           sems' \in Seq(Nat \ {0}), Len(sems) <= Len(sems'), current' \in 0..Len(sems'),
           explicit' \in BOOLEAN, active' \in Nat,
           call' \in [Call -> Locals], \A d \in Call : call'[d].sem = call[d].sem,
           posts' \in [Call -> Nat], reconfigured' \in 0..MaxReconfigurations
    PROVE  TypeOK'
<1>1. Len(sems) \in Nat /\ Len(sems') \in Nat
  BY DEF TypeOK
<1>2. \A d \in Call : call[d].sem \in 0..Len(sems)
  BY DEF TypeOK
<1>3. \A d \in Call : call'[d].sem \in 0..Len(sems')
  BY <1>1, <1>2
<1> QED
  BY <1>3 DEF TypeOK

(* The steps that leave the guards and the caps alone.                      *)
LEMMA SameCaps ==
    ASSUME TypeOK, UNCHANGED <<sems, current, explicit, reconfigured>>,
           active' \in Nat,
           call' \in [Call -> Locals], \A d \in Call : call'[d].sem = call[d].sem,
           posts' \in [Call -> Nat]
    PROVE  TypeOK'
<1>1. /\ sems' \in Seq(Nat \ {0})
      /\ current' \in 0..Len(sems')
      /\ explicit' \in BOOLEAN
      /\ reconfigured' \in 0..MaxReconfigurations
  BY DEF TypeOK
<1>2. Len(sems) <= Len(sems')
  <2>1. Len(sems) \in Nat
    BY DEF TypeOK
  <2> QED
    BY <2>1
<1> QED
  BY <1>1, <1>2, SameGuards

(* What _concurrency_semaphore leaves behind is well-typed.                 *)
LEMMA GuardTyped ==
    ASSUME TypeOK, NEW c \in Call, ConcurrencySemaphore(c)
    PROVE  /\ sems' \in Seq(Nat \ {0})
           /\ Len(sems) <= Len(sems')
           /\ current' \in 0..Len(sems')
           /\ ActiveAfterGuard(c) \in Nat
<1>1. CASE MayGrow(c)
  <2>1. Capacity \in Nat
    BY DEF Capacity, TypeOK
  <2>2. MaxParallel[c] \in Nat \ {0}
    BY <1>1, <2>1, ConcurrencyAssumption DEF MayGrow
  <2>3. /\ sems' = Append(sems, MaxParallel[c])
        /\ current' = Len(sems) + 1
        /\ ActiveAfterGuard(c) = 0
    BY <1>1 DEF ConcurrencySemaphore, ActiveAfterGuard
  <2>4. /\ sems' \in Seq(Nat \ {0})
        /\ Len(sems') = Len(sems) + 1
        /\ Len(sems) \in Nat
    BY <2>2, <2>3 DEF TypeOK
  <2> QED
    BY <2>3, <2>4
<1>2. CASE ~MayGrow(c)
  BY <1>2 DEF ConcurrencySemaphore, ActiveAfterGuard, TypeOK
<1> QED
  BY <1>1, <1>2

(* A call that leaves changes its pc, and that of the waiter it wakes.      *)
LEMMA LeaveTyped ==
    ASSUME TypeOK, NEW c \in Call, NEW outcome \in {"done", "failed"},
           Leave(c, outcome)
    PROVE  /\ active' \in Nat
           /\ call' \in [Call -> Locals]
           /\ \A d \in Call : call'[d].sem = call[d].sem
           /\ posts' \in [Call -> Nat]
<1>1. active' \in Nat
  BY DEF Leave, TypeOK
<1>2. CASE call[c].sem = 0 \/ Waiters(call[c].sem) = {}
  <2>1. call' = [call EXCEPT ![c].pc = outcome] /\ posts' = posts
    BY <1>2 DEF Leave
  <2>2. call \in [Call -> Locals] /\ posts \in [Call -> Nat]
    BY DEF TypeOK
  <2> QED
    BY <1>1, <2>1, <2>2 DEF Locals
<1>3. CASE ~(call[c].sem = 0 \/ Waiters(call[c].sem) = {})
  <2>1. PICK w \in Waiters(call[c].sem) :
          /\ call' = [call EXCEPT ![c].pc = outcome, ![w].pc = "posting"]
          /\ posts' = [posts EXCEPT ![w] = @ + 1]
    BY <1>3 DEF Leave
  <2>2. w \in Call /\ call[w].pc = "waiting"
    BY DEF Waiters
  <2>3. call \in [Call -> Locals] /\ posts \in [Call -> Nat]
    BY DEF TypeOK
  <2>4. posts' \in [Call -> Nat]
    BY <2>1, <2>2, <2>3
  <2>5. call' \in [Call -> Locals] /\ \A d \in Call : call'[d].sem = call[d].sem
    BY SMTT(30), <2>1, <2>2, <2>3 DEF Locals
  <2> QED
    BY <1>1, <2>4, <2>5
<1> QED
  BY <1>2, <1>3

(* Type correctness, whenever set_provider_concurrency is called.           *)
LEMMA TypePreserved ==
    ASSUME TypeOK, [Next]_vars
    PROVE  TypeOK'
<1> call \in [Call -> Locals] /\ posts \in [Call -> Nat] /\ active \in Nat
  BY DEF TypeOK
<1>1. CASE UNCHANGED vars
  BY <1>1, SameCaps DEF vars, TypeOK
<1>2. ASSUME NEW c \in Call, BuildHarness(c)
      PROVE  TypeOK'
  <2>1. /\ sems' \in Seq(Nat \ {0})
        /\ Len(sems) <= Len(sems')
        /\ current' \in 0..Len(sems')
        /\ active' \in Nat
    BY <1>2, GuardTyped DEF BuildHarness
  <2>2. /\ call' \in [Call -> Locals]
        /\ \A d \in Call : call'[d].sem = call[d].sem
    BY <1>2 DEF BuildHarness, Locals
  <2>3. /\ explicit' \in BOOLEAN
        /\ posts' \in [Call -> Nat]
        /\ reconfigured' \in 0..MaxReconfigurations
    BY <1>2 DEF BuildHarness, TypeOK
  <2> QED
    BY <2>1, <2>2, <2>3, SameGuards
<1>3. ASSUME NEW c \in Call, IssueUncapped(c)
      PROVE  TypeOK'
  <2>1. call' \in [Call -> Locals] /\ \A d \in Call : call'[d].sem = call[d].sem
    BY <1>3 DEF IssueUncapped, Locals
  <2>2. posts' \in [Call -> Nat] /\ active' \in Nat
    BY <1>3 DEF IssueUncapped
  <2> QED
    BY <1>3, <2>1, <2>2, SameCaps DEF IssueUncapped
<1>4. ASSUME NEW c \in Call, Issue(c)
      PROVE  TypeOK'
  <2>1. /\ sems' \in Seq(Nat \ {0})
        /\ Len(sems) <= Len(sems')
        /\ current' \in 0..Len(sems')
        /\ active' \in Nat
    BY <1>4, GuardTyped DEF Issue
  <2>2. Len(sems) \in Nat /\ Len(sems') \in Nat
    BY <2>1 DEF TypeOK
  <2>3. PICK pc \in {"posting", "waiting"} :
          call' = [call EXCEPT ![c].pc = pc, ![c].sem = current']
    BY <1>4 DEF Issue
  <2>4. /\ call' \in [Call -> Locals]
        /\ call'[c].sem = current'
        /\ \A d \in Call \ {c} : call'[d].sem = call[d].sem
    <3>1. current' \in Nat
      BY <2>1, <2>2
    <3>2. pc \in {"new", "ready", "waiting", "posting", "backoff", "done", "failed"}
      OBVIOUS
    <3> QED
      BY <2>3, <3>1, <3>2 DEF Locals
  <2>5. \A d \in Call : call[d].sem \in 0..Len(sems)
    BY DEF TypeOK
  <2>6. \A d \in Call : call'[d].sem \in 0..Len(sems')
    BY SMTT(30), <2>1, <2>2, <2>4, <2>5
  <2>7. posts' \in [Call -> Nat]
    BY <1>4 DEF Issue
  <2>8. explicit' \in BOOLEAN /\ reconfigured' \in 0..MaxReconfigurations
    BY <1>4 DEF Issue, TypeOK
  <2> QED
    BY <2>1, <2>4, <2>6, <2>7, <2>8 DEF TypeOK
<1>5. ASSUME NEW c \in Call, NEW outcome \in {"done", "failed"}, Leave(c, outcome),
             UNCHANGED <<sems, current, explicit, reconfigured>>
      PROVE  TypeOK'
  BY <1>5, LeaveTyped, SameCaps
<1>6. ASSUME NEW c \in Call, PostFailsForNow(c)
      PROVE  TypeOK'
  <2>1. call' \in [Call -> Locals] /\ \A d \in Call : call'[d].sem = call[d].sem
    BY <1>6 DEF PostFailsForNow, Locals
  <2> QED
    BY <1>6, <2>1, SameCaps DEF PostFailsForNow
<1>7. ASSUME NEW c \in Call, Retry(c)
      PROVE  TypeOK'
  <2>1. call' \in [Call -> Locals] /\ \A d \in Call : call'[d].sem = call[d].sem
    BY <1>7 DEF Retry, Locals
  <2>2. posts' \in [Call -> Nat]
    BY <1>7 DEF Retry
  <2> QED
    BY <1>7, <2>1, <2>2, SameCaps DEF Retry
<1>8. ASSUME NEW c \in Call, FallBack(c)
      PROVE  TypeOK'
  <2>1. call' \in [Call -> Locals] /\ \A d \in Call : call'[d].sem = call[d].sem
    <3>1. PICK t \in Nat : t = call[c].transport + 1
      BY DEF Locals
    <3>2. call' = [call EXCEPT ![c].transport = t, ![c].attempt = 0]
      BY <1>8, <3>1 DEF FallBack
    <3> QED
      BY <3>2 DEF Locals
  <2>2. posts' \in [Call -> Nat]
    BY <1>8 DEF FallBack
  <2> QED
    BY <1>8, <2>1, <2>2, SameCaps DEF FallBack
<1>9. ASSUME NEW c \in Call, Cancel(c)
      PROVE  TypeOK'
  <2>1. CASE Leave(c, "failed")
    BY <1>5, <1>9, <2>1 DEF Cancel
  <2>2. CASE ~Leave(c, "failed")
    <3>1. /\ call' = [call EXCEPT ![c].pc = "failed"]
          /\ active' = IF active = 0 THEN 0 ELSE active - 1
          /\ UNCHANGED posts
          /\ UNCHANGED <<sems, current, explicit, reconfigured>>
      BY <1>9, <2>2 DEF Cancel
    <3>2. call' \in [Call -> Locals] /\ \A d \in Call : call'[d].sem = call[d].sem
      BY <3>1 DEF Locals
    <3>3. active' \in Nat /\ posts' \in [Call -> Nat]
      BY <3>1
    <3> QED
      BY <3>1, <3>2, <3>3, SameCaps
  <2> QED
    BY <2>1, <2>2
<1>10. ASSUME NEW limit \in Limits, SetProviderConcurrency(limit)
       PROVE  TypeOK'
  <2>1. limit \in Nat
    BY ConcurrencyAssumption
  <2>2. /\ reconfigured' \in 0..MaxReconfigurations
        /\ explicit' \in BOOLEAN
        /\ active' \in Nat
        /\ call' = call /\ posts' = posts
    BY <1>10, ConcurrencyAssumption DEF SetProviderConcurrency, TypeOK
  <2>3. Len(sems) \in Nat
    BY DEF TypeOK
  <2>4. /\ sems' \in Seq(Nat \ {0})
        /\ Len(sems) <= Len(sems')
        /\ current' \in 0..Len(sems')
    <3>1. CASE limit > 0
      <4>1. sems' = Append(sems, limit) /\ current' = Len(sems) + 1
        BY <1>10, <3>1 DEF SetProviderConcurrency
      <4>2. sems \in Seq(Nat \ {0}) /\ limit \in Nat \ {0}
        BY <2>1, <3>1 DEF TypeOK
      <4>3. sems' \in Seq(Nat \ {0}) /\ Len(sems') = Len(sems) + 1
        BY <4>1, <4>2
      <4> QED
        BY <2>3, <4>1, <4>3
    <3>2. CASE ~(limit > 0)
      BY <1>10, <2>3, <3>2 DEF SetProviderConcurrency, TypeOK
    <3> QED
      BY <3>1, <3>2
  <2> QED
    BY <2>2, <2>4, SameGuards
<1>11. ASSUME NEW c \in Call, PostSucceeds(c) \/ PostFails(c)
       PROVE  TypeOK'
  BY <1>5, <1>11 DEF PostSucceeds, PostFails
<1> QED
  BY <1>1, <1>2, <1>3, <1>4, <1>6, <1>7, <1>8, <1>9, <1>10, <1>11 DEF Next, Advance

-----------------------------------------------------------------------------
LEMMA NobodyUses ==
    ASSUME TypeOK, GuardIsReplacedOnlyIdle, current = 0 \/ active = 0
    PROVE  Users = {}
<1>1. CASE current = 0
  BY <1>1 DEF GuardIsReplacedOnlyIdle, Users
<1>2. CASE active = 0
  <2>1. Users \subseteq Call
    BY DEF Users
  <2>2. IsFiniteSet(Users)
    BY <2>1, PartsAreFinite
  <2> QED
    BY <1>2, <2>2, FS_EmptySet DEF GuardIsReplacedOnlyIdle
<1> QED
  BY <1>1, <1>2

(* After _concurrency_semaphore the counter and the semaphore fit together  *)
(* as before, whether it put a new one in place or not.                     *)
LEMMA GuardFits ==
    ASSUME IInv, NEW c \in Call, ConcurrencySemaphore(c)
    PROVE  /\ ActiveAfterGuard(c) = Cardinality(Users)
           /\ \A d \in Users : call[d].sem = current'
           /\ current' # 0 => Cardinality(Holders(current')) <= sems'[current']
           /\ explicit \/ MaxParallel[c] > 0 => current' # 0
<1>1. TypeOK /\ GuardIsReplacedOnlyIdle /\ SlotsInv
  BY DEF IInv
<1>2. Len(sems) \in Nat /\ sems \in Seq(Nat \ {0}) /\ MaxParallel[c] \in Nat
  BY <1>1, ConcurrencyAssumption DEF TypeOK
<1>3. CASE MayGrow(c)
  <2>1. Users = {}
    BY <1>1, <1>3, NobodyUses DEF MayGrow
  <2>2. /\ sems' = Append(sems, MaxParallel[c])
        /\ current' = Len(sems) + 1
        /\ ActiveAfterGuard(c) = 0
    BY <1>3 DEF ConcurrencySemaphore, ActiveAfterGuard
  <2>3. sems'[current'] = MaxParallel[c]
    BY <1>2, <2>2
  <2>4. current' \in Nat \ {0}
    BY <1>2, <2>2
  <2>5. Holders(current') = {}
    BY <2>1, <2>4, HoldersAreUsers
  <2>6. Cardinality(Users) = 0 /\ Cardinality(Holders(current')) = 0
    BY <2>1, <2>5, FS_EmptySet
  <2>7. \A d \in Users : call[d].sem = current'
    BY <2>1
  <2>8. Cardinality(Holders(current')) <= sems'[current']
    BY <1>2, <2>3, <2>6
  <2> QED
    BY <2>2, <2>4, <2>6, <2>7, <2>8
<1>4. CASE ~MayGrow(c)
  <2>1. sems' = sems /\ current' = current /\ ActiveAfterGuard(c) = active
    BY <1>4 DEF ConcurrencySemaphore, ActiveAfterGuard
  <2>2. current = 0 /\ ~explicit => ~(MaxParallel[c] > 0)
    BY <1>2, <1>4 DEF MayGrow, Capacity
  <2>3. explicit => current # 0
    BY <1>1 DEF SlotsInv
  <2>4. current # 0 => Cardinality(Holders(current)) <= sems[current]
    BY <1>1 DEF SlotsInv
  <2>5. active = Cardinality(Users) /\ \A d \in Users : call[d].sem = current
    BY <1>1 DEF GuardIsReplacedOnlyIdle
  <2>6. Holders(current') = Holders(current) /\ sems'[current'] = sems[current]
    BY <2>1
  <2>7. explicit \/ MaxParallel[c] > 0 => current' # 0
    BY <2>1, <2>2, <2>3
  <2>8. current' # 0 => Cardinality(Holders(current')) <= sems'[current']
    BY <2>1, <2>4, <2>6
  <2> QED
    BY <2>1, <2>5, <2>7, <2>8
<1> QED
  BY <1>3, <1>4

(* The part of the invariant about single calls, and its other part, for a  *)
(* step that changes no cap.                                                *)
LEMMA SameCapsFit ==
    ASSUME IInv,
           UNCHANGED <<sems, current, explicit>>,
           \A d \in Call : call'[d].sem = call[d].sem,
           Users' \subseteq Users,
           active' = Cardinality(Users'),
           current # 0 => Cardinality(Holders(current)') <= Cardinality(Holders(current)),
           \A d \in Call : InFlight(d)' => InFlight(d) \/ call[d].sem # 0 \/ ~explicit,
           \A d \in Call : call'[d].pc \in {"new", "ready", "waiting"}
                             => call'[d].pc = call[d].pc
    PROVE  GuardIsReplacedOnlyIdle' /\ SlotsInv'
<1>1. TypeOK /\ GuardIsReplacedOnlyIdle /\ SlotsInv
  BY DEF IInv
<1>2. GuardIsReplacedOnlyIdle'
  <2>1. \A d \in Users' : d \in Call /\ d \in Users
    BY DEF Users
  <2> QED
    BY <1>1, <2>1 DEF GuardIsReplacedOnlyIdle
<1>3. (current # 0 => Cardinality(Holders(current)) <= sems[current])'
  <2>1. CASE current = 0
    BY <2>1
  <2>2. CASE current # 0
    <3>1. /\ Holders(current) \in SUBSET Call
          /\ Holders(current)' \in SUBSET Call
      BY DEF Holders
    <3>2. /\ Cardinality(Holders(current)) \in Nat
          /\ Cardinality(Holders(current)') \in Nat
      BY <3>1, PartsAreFinite
    <3>3. sems[current] \in Nat
      BY <1>1, <2>2 DEF TypeOK
    <3>4. Cardinality(Holders(current)) <= sems[current]
      BY <1>1, <2>2 DEF SlotsInv
    <3>5. Cardinality(Holders(current)') <= sems[current]
      BY <2>2, <3>2, <3>3, <3>4
    <3> QED
      BY <3>5
  <2> QED
    BY <2>1, <2>2
<1>4. (explicit => current # 0)'
  BY <1>1 DEF SlotsInv
<1>5. (\A d \in Call : explicit /\ InFlight(d) => call[d].sem # 0)'
  BY <1>1 DEF SlotsInv
<1>6. (\A d \in Call : call[d].pc \in {"new", "ready"} => call[d].sem = 0)'
  BY <1>1 DEF SlotsInv
<1>7. (\A d \in Call : call[d].pc = "waiting" => call[d].sem # 0)'
  BY <1>1 DEF SlotsInv
<1> QED
  BY <1>2, <1>3, <1>4, <1>5, <1>6, <1>7 DEF SlotsInv

-----------------------------------------------------------------------------
LEMMA InitFits == Init => IInv
<1> SUFFICES ASSUME Init PROVE IInv
  OBVIOUS
<1>1. TypeOK
  <2>1. sems \in Seq(Nat \ {0}) /\ Len(sems) = 0
    BY DEF Init
  <2>2. call \in [Call -> Locals] /\ \A c \in Call : call[c].sem = 0
    BY DEF Init, Locals
  <2>3. current = 0 /\ explicit \in BOOLEAN /\ active \in Nat
    BY DEF Init
  <2>5. posts \in [Call -> Nat]
    BY DEF Init
  <2>6. reconfigured \in 0..MaxReconfigurations
    BY ConcurrencyAssumption DEF Init
  <2>7. current \in 0..Len(sems)
    BY <2>1, <2>3
  <2>4. \A c \in Call : call[c].sem \in 0..Len(sems)
    BY <2>1, <2>2
  <2> QED
    BY <2>1, <2>2, <2>3, <2>4, <2>5, <2>6, <2>7 DEF TypeOK
<1>2. Users = {}
  BY DEF Init, Users
<1>3. GuardIsReplacedOnlyIdle
  BY <1>2, FS_EmptySet DEF Init, GuardIsReplacedOnlyIdle
<1>4. SlotsInv
  BY DEF Init, SlotsInv
<1> QED
  BY <1>1, <1>3, <1>4 DEF IInv

LEMMA BuildHarnessFits ==
    ASSUME IInv, NEW c \in Call, BuildHarness(c)
    PROVE  GuardIsReplacedOnlyIdle' /\ SlotsInv'
<1>1. TypeOK /\ GuardIsReplacedOnlyIdle /\ SlotsInv
  BY DEF IInv
<1>2. /\ call' = [call EXCEPT ![c].pc = "ready"]
      /\ call[c].pc = "new"
      /\ active' = ActiveAfterGuard(c)
      /\ explicit' = explicit
      /\ ConcurrencySemaphore(c)
  BY DEF BuildHarness
<1>3. /\ \A d \in Call : call'[d].sem = call[d].sem
      /\ \A d \in Call \ {c} : call'[d].pc = call[d].pc
      /\ call'[c].pc = "ready"
  BY <1>1, <1>2 DEF TypeOK, Locals
<1>4. Users' = Users
  BY <1>2, <1>3 DEF Users, InFlight
<1>5. \A sem : Holders(sem)' = Holders(sem)
  BY <1>2, <1>3 DEF Holders, InFlight
<1>6. GuardIsReplacedOnlyIdle'
  <2>1. \A d \in Users : d \in Call
    BY DEF Users
  <2> QED
    BY <1>2, <1>3, <1>4, <2>1, GuardFits DEF GuardIsReplacedOnlyIdle
<1>7. (current # 0 => Cardinality(Holders(current)) <= sems[current])'
  BY <1>2, <1>5, GuardFits DEF Holders, InFlight
<1>8. (explicit => current # 0)'
  BY <1>2, GuardFits
<1>9. /\ (\A d \in Call : explicit /\ InFlight(d) => call[d].sem # 0)'
      /\ (\A d \in Call : call[d].pc \in {"new", "ready"} => call[d].sem = 0)'
      /\ (\A d \in Call : call[d].pc = "waiting" => call[d].sem # 0)'
  BY <1>1, <1>2, <1>3 DEF SlotsInv, InFlight
<1> QED
  BY <1>6, <1>7, <1>8, <1>9 DEF SlotsInv

LEMMA IssueFits ==
    ASSUME IInv, NEW c \in Call, Issue(c)
    PROVE  GuardIsReplacedOnlyIdle' /\ SlotsInv'
<1>1. TypeOK /\ GuardIsReplacedOnlyIdle /\ SlotsInv
  BY DEF IInv
<1>2. /\ call[c].pc = "ready"
      /\ explicit \/ MaxParallel[c] > 0
      /\ ConcurrencySemaphore(c)
      /\ active' = ActiveAfterGuard(c) + 1
      /\ explicit' = explicit
  BY DEF Issue
<1>3. /\ ActiveAfterGuard(c) = Cardinality(Users)
      /\ \A d \in Users : call[d].sem = current'
      /\ current' # 0
      /\ Cardinality(Holders(current')) <= sems'[current']
  BY <1>2, GuardFits
<1>4. PICK pc \in {"posting", "waiting"} :
        /\ call' = [call EXCEPT ![c].pc = pc, ![c].sem = current']
        /\ pc = "posting" => Cardinality(Holders(current')) < sems'[current']
  BY DEF Issue
<1>5. /\ call'[c].pc = pc
      /\ call'[c].sem = current'
      /\ \A d \in Call \ {c} : call'[d] = call[d]
  BY <1>1, <1>4 DEF TypeOK, Locals
<1>6. Users' = Users \cup {c}
  BY <1>3, <1>5 DEF Users, InFlight
<1>7. c \notin Users /\ c \notin Holders(current')
  BY <1>2 DEF Users, Holders, InFlight
<1>8. Holders(current)' = IF pc = "posting" THEN Holders(current') \cup {c}
                                            ELSE Holders(current')
  BY <1>2, <1>5 DEF Holders, InFlight
<1>9. /\ IsFiniteSet(Users) /\ Cardinality(Users) \in Nat
      /\ IsFiniteSet(Holders(current')) /\ Cardinality(Holders(current')) \in Nat
  BY PartsAreFinite DEF Users, Holders
<1>10. GuardIsReplacedOnlyIdle'
  <2>1. Cardinality(Users') = Cardinality(Users) + 1
    BY <1>6, <1>7, <1>9, FS_AddElement
  <2>2. \A d \in Users' : call'[d].sem = current'
    <3>1. \A d \in Users : d \in Call
      BY DEF Users
    <3> QED
      BY <1>3, <1>5, <1>6, <1>7, <3>1
  <2> QED
    BY <1>2, <1>3, <2>1, <2>2 DEF GuardIsReplacedOnlyIdle
<1>11. Cardinality(Holders(current)') <= sems'[current']
  <2>1. CASE pc = "posting"
    <3>1. Cardinality(Holders(current)') = Cardinality(Holders(current')) + 1
      BY <1>7, <1>8, <1>9, <2>1, FS_AddElement
    <3>2. sems'[current'] \in Nat
      BY <1>1, <1>2, <1>3, GuardTyped
    <3> QED
      BY <1>4, <1>9, <2>1, <3>1, <3>2
  <2>2. CASE pc # "posting"
    BY <1>3, <1>8, <2>2
  <2> QED
    BY <2>1, <2>2
<1>12. /\ (\A d \in Call : explicit /\ InFlight(d) => call[d].sem # 0)'
       /\ (\A d \in Call : call[d].pc \in {"new", "ready"} => call[d].sem = 0)'
       /\ (\A d \in Call : call[d].pc = "waiting" => call[d].sem # 0)'
  BY <1>1, <1>2, <1>3, <1>5 DEF SlotsInv, InFlight
<1> QED
  BY <1>3, <1>10, <1>11, <1>12 DEF SlotsInv

LEMMA LeaveFits ==
    ASSUME IInv, NEW c \in Call, NEW outcome \in {"done", "failed"},
           InFlight(c), Leave(c, outcome), UNCHANGED <<sems, current, explicit>>
    PROVE  GuardIsReplacedOnlyIdle' /\ SlotsInv'
<1>1. TypeOK /\ GuardIsReplacedOnlyIdle /\ SlotsInv
  BY DEF IInv
<1>2. call \in [Call -> Locals] /\ active \in Nat /\ active = Cardinality(Users)
  BY <1>1 DEF TypeOK, GuardIsReplacedOnlyIdle
<1>3. /\ IsFiniteSet(Users)
      /\ IsFiniteSet(Holders(current)) /\ Cardinality(Holders(current)) \in Nat
  BY PartsAreFinite DEF Users, Holders
<1>4. CASE call[c].sem = 0
  <2>1. call' = [call EXCEPT ![c].pc = outcome] /\ active' = active
    BY <1>4 DEF Leave
  <2>2. /\ call'[c].pc = outcome
        /\ \A d \in Call : call'[d].sem = call[d].sem
        /\ \A d \in Call \ {c} : call'[d] = call[d]
    BY <1>2, <2>1 DEF Locals
  <2>3. Users' = Users
    BY <1>4, <2>2 DEF Users, InFlight
  <2>4. current # 0 => Holders(current)' = Holders(current)
    BY <1>4, <2>2 DEF Holders, InFlight
  <2>5. current # 0 => Cardinality(Holders(current)') <= Cardinality(Holders(current))
    BY <1>3, <2>4
  <2>6. \A d \in Call : InFlight(d)' => InFlight(d)
    BY <2>2 DEF InFlight
  <2>7. \A d \in Call : call'[d].pc \in {"new", "ready", "waiting"}
                          => call'[d].pc = call[d].pc
    BY <2>2
  <2> QED
    BY <1>2, <2>1, <2>2, <2>3, <2>5, <2>6, <2>7, SameCapsFit
<1>5. CASE call[c].sem # 0
  <2>1. c \in Users /\ call[c].sem = current
    BY <1>1, <1>5 DEF Users, GuardIsReplacedOnlyIdle
  <2>2. Cardinality(Users \ {c}) = active - 1 /\ active # 0
    BY <1>2, <1>3, <2>1, FS_RemoveElement, FS_EmptySet
  <2>3. active' = active - 1
    BY <1>5, <2>2 DEF Leave
  <2>4. c \in Holders(current)
    BY <2>1 DEF Holders
  <2>5. CASE Waiters(current) = {}
    <3>1. call' = [call EXCEPT ![c].pc = outcome]
      BY <2>1, <2>5 DEF Leave
    <3>2. /\ call'[c].pc = outcome
          /\ \A d \in Call : call'[d].sem = call[d].sem
          /\ \A d \in Call \ {c} : call'[d] = call[d]
      BY <1>2, <3>1 DEF Locals
    <3>3. Users' = Users \ {c}
      BY <3>2 DEF Users, InFlight
    <3>4. Holders(current)' = Holders(current) \ {c}
      BY <3>2 DEF Holders, InFlight
    <3>5. Cardinality(Holders(current)') <= Cardinality(Holders(current))
      BY <1>3, <3>4, FS_Subset
    <3>6. \A d \in Call : InFlight(d)' => InFlight(d)
      BY <3>2 DEF InFlight
    <3>7. \A d \in Call : call'[d].pc \in {"new", "ready", "waiting"}
                            => call'[d].pc = call[d].pc
      BY <3>2
    <3>8. Users' \subseteq Users /\ active' = Cardinality(Users')
      BY <2>2, <2>3, <3>3
    <3> QED
      BY <3>2, <3>5, <3>6, <3>7, <3>8, SameCapsFit
  <2>6. CASE Waiters(current) # {}
    <3>1. PICK w \in Waiters(current) :
            call' = [call EXCEPT ![c].pc = outcome, ![w].pc = "posting"]
      BY <1>5, <2>1, <2>6 DEF Leave
    <3>2. w \in Call /\ call[w].pc = "waiting" /\ call[w].sem = current /\ w # c
      BY DEF Waiters, InFlight
    <3>3. /\ call'[c].pc = outcome
          /\ call'[w].pc = "posting"
          /\ \A d \in Call : call'[d].sem = call[d].sem
          /\ \A d \in Call \ {c, w} : call'[d] = call[d]
      BY <1>2, <3>1, <3>2 DEF Locals
    <3>4. Users' = Users \ {c}
      BY <1>5, <2>1, <3>2, <3>3 DEF Users, InFlight
    <3>5. Holders(current)' = (Holders(current) \ {c}) \cup {w}
      BY <3>2, <3>3 DEF Holders, InFlight
    <3>6. w \notin Holders(current) \ {c}
      BY <3>2 DEF Holders, InFlight
    <3>7. /\ Cardinality(Holders(current) \ {c}) = Cardinality(Holders(current)) - 1
          /\ IsFiniteSet(Holders(current) \ {c})
      BY <1>3, <2>4, FS_RemoveElement
    <3>8. Cardinality(Holders(current)') = Cardinality(Holders(current) \ {c}) + 1
      BY <3>5, <3>6, <3>7, FS_AddElement
    <3>9. Cardinality(Holders(current)') <= Cardinality(Holders(current))
      BY <1>3, <3>7, <3>8
    <3>10. \A d \in Call : InFlight(d)' => InFlight(d) \/ call[d].sem # 0
      BY <1>5, <2>1, <3>2, <3>3 DEF InFlight
    <3>11. \A d \in Call : call'[d].pc \in {"new", "ready", "waiting"}
                             => call'[d].pc = call[d].pc
      BY <3>3
    <3>12. Users' \subseteq Users /\ active' = Cardinality(Users')
      BY <2>2, <2>3, <3>4
    <3> QED
      BY <3>3, <3>9, <3>10, <3>11, <3>12, SameCapsFit
  <2> QED
    BY <2>5, <2>6
<1> QED
  BY <1>4, <1>5

(* A request that goes out without a slot, and the steps inside a cycle.    *)
LEMMA CycleFits ==
    ASSUME IInv, NEW c \in Call,
           IssueUncapped(c) \/ PostFailsForNow(c) \/ Retry(c) \/ FallBack(c)
    PROVE  GuardIsReplacedOnlyIdle' /\ SlotsInv'
<1>1. TypeOK /\ GuardIsReplacedOnlyIdle /\ SlotsInv
  BY DEF IInv
<1>2. call \in [Call -> Locals] /\ active = Cardinality(Users)
  BY <1>1 DEF TypeOK, GuardIsReplacedOnlyIdle
<1>3. UNCHANGED <<sems, current, explicit, active>>
  BY DEF IssueUncapped, PostFailsForNow, Retry, FallBack
<1>4. /\ \A d \in Call : call'[d].sem = call[d].sem
      /\ \A d \in Call \ {c} : call'[d] = call[d]
      /\ call'[c].pc \in {"posting", "backoff"}
  <2>1. CASE IssueUncapped(c)
    BY <1>2, <2>1 DEF IssueUncapped, Locals
  <2>2. CASE PostFailsForNow(c)
    BY <1>2, <2>2 DEF PostFailsForNow, Locals
  <2>3. CASE Retry(c)
    BY <1>2, <2>3 DEF Retry, Locals
  <2>4. CASE FallBack(c)
    BY <1>2, <2>4 DEF FallBack, Locals
  <2> QED
    BY <2>1, <2>2, <2>3, <2>4
<1>5. InFlight(c) \/ (call[c].sem = 0 /\ ~explicit)
  BY <1>1 DEF IssueUncapped, PostFailsForNow, Retry, FallBack, InFlight, SlotsInv
<1>6. Users' = Users
  BY <1>4, <1>5 DEF Users, InFlight
<1>7. current # 0 => Holders(current)' = Holders(current)
  BY <1>3, <1>4, <1>5 DEF Holders, InFlight
<1>8. current # 0 => Cardinality(Holders(current)') <= Cardinality(Holders(current))
  <2>1. Cardinality(Holders(current)) \in Nat
    BY PartsAreFinite DEF Holders
  <2> QED
    BY <1>7, <2>1
<1>9. \A d \in Call : InFlight(d)' => InFlight(d) \/ call[d].sem # 0 \/ ~explicit
  BY <1>4, <1>5 DEF InFlight
<1>10. \A d \in Call : call'[d].pc \in {"new", "ready", "waiting"}
                         => call'[d].pc = call[d].pc
  BY <1>4
<1>11. Users' \subseteq Users /\ active' = Cardinality(Users')
  BY <1>2, <1>3, <1>6
<1> QED
  BY <1>3, <1>4, <1>8, <1>9, <1>10, <1>11, SameCapsFit

LEMMA CancelFits ==
    ASSUME IInv, NEW c \in Call, Cancel(c)
    PROVE  GuardIsReplacedOnlyIdle' /\ SlotsInv'
<1>1. TypeOK /\ GuardIsReplacedOnlyIdle /\ SlotsInv
  BY DEF IInv
<1>2. call \in [Call -> Locals] /\ active \in Nat /\ active = Cardinality(Users)
  BY <1>1 DEF TypeOK, GuardIsReplacedOnlyIdle
<1>3. CASE InFlight(c)
  <2>1. Leave(c, "failed") /\ UNCHANGED <<sems, current, explicit>>
    BY <1>3 DEF Cancel, InFlight
  <2> QED
    BY <1>3, <2>1, LeaveFits
<1>4. CASE ~InFlight(c)
  <2>1. /\ call[c].pc = "waiting"
        /\ call' = [call EXCEPT ![c].pc = "failed"]
        /\ active' = IF active = 0 THEN 0 ELSE active - 1
        /\ UNCHANGED <<sems, current, explicit>>
    BY <1>4 DEF Cancel
  <2>2. /\ call'[c].pc = "failed"
        /\ \A d \in Call : call'[d].sem = call[d].sem
        /\ \A d \in Call \ {c} : call'[d] = call[d]
    BY <1>2, <2>1 DEF Locals
  <2>3. c \in Users
    BY <1>1, <2>1 DEF Users, SlotsInv
  <2>4. Users' = Users \ {c}
    BY <2>2 DEF Users, InFlight
  <2>5. IsFiniteSet(Users) /\ Cardinality(Holders(current)) \in Nat
    BY PartsAreFinite DEF Users, Holders
  <2>6. Cardinality(Users \ {c}) = active - 1 /\ active # 0
    BY <1>2, <2>3, <2>5, FS_RemoveElement, FS_EmptySet
  <2>7. Holders(current)' = Holders(current)
    BY <2>1, <2>2 DEF Holders, InFlight
  <2>8. current # 0 => Cardinality(Holders(current)') <= Cardinality(Holders(current))
    BY <2>5, <2>7
  <2>9. \A d \in Call : InFlight(d)' => InFlight(d)
    BY <2>2 DEF InFlight
  <2>10. \A d \in Call : call'[d].pc \in {"new", "ready", "waiting"}
                           => call'[d].pc = call[d].pc
    BY <2>2
  <2>11. Users' \subseteq Users /\ active' = Cardinality(Users')
    BY <2>1, <2>4, <2>6
  <2> QED
    BY <2>1, <2>2, <2>8, <2>9, <2>10, <2>11, SameCapsFit
<1> QED
  BY <1>3, <1>4

(* This is where a cap set in use would break the invariant.                *)
LEMMA SetProviderConcurrencyFits ==
    ASSUME IInv, ReconfigureInUse = FALSE,
           NEW limit \in Limits, SetProviderConcurrency(limit)
    PROVE  GuardIsReplacedOnlyIdle' /\ SlotsInv'
<1>1. TypeOK /\ SlotsInv /\ limit \in Nat
  BY ConcurrencyAssumption DEF IInv
<1>2. /\ \A d \in Call : call[d].pc # "waiting" /\ ~InFlight(d)
      /\ active' = 0 /\ call' = call
      /\ explicit' = (limit > 0)
  BY DEF SetProviderConcurrency
<1>3. Users' = {} /\ \A sem : Holders(sem)' = {}
  BY <1>2 DEF Users, Holders, InFlight
<1>4. GuardIsReplacedOnlyIdle'
  BY <1>2, <1>3, FS_EmptySet DEF GuardIsReplacedOnlyIdle
<1>5. /\ (explicit => current # 0)'
      /\ (current # 0 => Cardinality(Holders(current)) <= sems[current])'
  <2>1. Cardinality(Holders(current)') = 0
    BY <1>3, FS_EmptySet DEF Holders, InFlight
  <2>2. Len(sems) \in Nat /\ sems \in Seq(Nat \ {0})
    BY <1>1 DEF TypeOK
  <2>3. CASE limit > 0
    <3>1. sems' = Append(sems, limit) /\ current' = Len(sems) + 1
      BY <2>3 DEF SetProviderConcurrency
    <3>2. sems'[current'] = limit /\ current' # 0
      BY <1>1, <2>2, <3>1
    <3> QED
      BY <1>1, <2>1, <3>2
  <2>4. CASE ~(limit > 0)
    BY <1>2, <2>4 DEF SetProviderConcurrency
  <2> QED
    BY <2>3, <2>4
<1>6. /\ (\A d \in Call : explicit /\ InFlight(d) => call[d].sem # 0)'
      /\ (\A d \in Call : call[d].pc \in {"new", "ready"} => call[d].sem = 0)'
      /\ (\A d \in Call : call[d].pc = "waiting" => call[d].sem # 0)'
  BY <1>1, <1>2 DEF SlotsInv, InFlight
<1> QED
  BY <1>4, <1>5, <1>6 DEF SlotsInv

LEMMA Inductive ==
    ASSUME IInv, ReconfigureInUse = FALSE, [Next]_vars
    PROVE  IInv'
<1>1. TypeOK'
  BY TypePreserved DEF IInv
<1>2. GuardIsReplacedOnlyIdle' /\ SlotsInv'
  <2>1. CASE UNCHANGED vars
    BY <2>1 DEF IInv, vars, GuardIsReplacedOnlyIdle, SlotsInv, Users, Holders, InFlight
  <2>2. ASSUME NEW c \in Call, BuildHarness(c)
        PROVE  GuardIsReplacedOnlyIdle' /\ SlotsInv'
    BY <2>2, BuildHarnessFits
  <2>3. ASSUME NEW c \in Call, Issue(c)
        PROVE  GuardIsReplacedOnlyIdle' /\ SlotsInv'
    BY <2>3, IssueFits
  <2>4. ASSUME NEW c \in Call, IssueUncapped(c) \/ PostFailsForNow(c) \/ Retry(c)
                                 \/ FallBack(c)
        PROVE  GuardIsReplacedOnlyIdle' /\ SlotsInv'
    BY <2>4, CycleFits
  <2>5. ASSUME NEW c \in Call, PostSucceeds(c)
        PROVE  GuardIsReplacedOnlyIdle' /\ SlotsInv'
    BY <2>5, LeaveFits DEF PostSucceeds, InFlight
  <2>6. ASSUME NEW c \in Call, PostFails(c)
        PROVE  GuardIsReplacedOnlyIdle' /\ SlotsInv'
    BY <2>6, LeaveFits DEF PostFails, InFlight
  <2>7. ASSUME NEW c \in Call, Cancel(c)
        PROVE  GuardIsReplacedOnlyIdle' /\ SlotsInv'
    BY <2>7, CancelFits
  <2>8. ASSUME NEW limit \in Limits, SetProviderConcurrency(limit)
        PROVE  GuardIsReplacedOnlyIdle' /\ SlotsInv'
    BY <2>8, SetProviderConcurrencyFits
  <2> QED
    BY <2>1, <2>2, <2>3, <2>4, <2>5, <2>6, <2>7, <2>8 DEF Next, Advance
<1> QED
  BY <1>1, <1>2 DEF IInv

-----------------------------------------------------------------------------
(* The variables keep their types, and every call points at a semaphore     *)
(* that exists, also when the cap is set while calls are in flight.         *)
THEOREM TypeCorrect == Spec => []TypeOK
<1>1. Init => TypeOK
  BY InitFits DEF IInv
<1>2. TypeOK /\ [Next]_vars => TypeOK'
  BY TypePreserved
<1> QED
  BY <1>1, <1>2, PTL DEF Spec

LEMMA Invariant ==
    ASSUME ReconfigureInUse = FALSE
    PROVE  Spec => []IInv
<1>1. Init => IInv
  BY InitFits
<1>2. IInv /\ [Next]_vars => IInv'
  BY Inductive
<1> QED
  BY <1>1, <1>2, PTL DEF Spec

(* A cap that is only set while no call is in flight is respected: as the   *)
(* users of the provider all sit at the one semaphore in force, the calls   *)
(* in flight that a cap applies to are the holders of its slots.            *)
THEOREM CapsAreRespected ==
    ASSUME ReconfigureInUse = FALSE
    PROVE  Spec => []CapIsRespected
<1>1. IInv => CapIsRespected
  <2> SUFFICES ASSUME IInv, current # 0
               PROVE  Cardinality({c \in Call : InFlight(c) /\ (explicit \/ call[c].sem # 0)})
                        <= sems[current]
    BY DEF CapIsRespected
  <2>1. {c \in Call : InFlight(c) /\ (explicit \/ call[c].sem # 0)} = Holders(current)
    BY DEF IInv, GuardIsReplacedOnlyIdle, SlotsInv, Users, Holders
  <2> QED
    BY <2>1 DEF IInv, SlotsInv
<1> QED
  BY <1>1, Invariant, PTL

(* _PROVIDER_ACTIVE never drifts from the calls it stands for.              *)
THEOREM GuardsAreReplacedOnlyIdle ==
    ASSUME ReconfigureInUse = FALSE
    PROVE  Spec => []GuardIsReplacedOnlyIdle
<1>1. IInv => GuardIsReplacedOnlyIdle
  BY DEF IInv
<1> QED
  BY <1>1, Invariant, PTL
-----------------------------------------------------------------------------
(* What a call has sent, told by where it is: for every model it is past,   *)
(* at most all the attempts, and for the present one those it has made.     *)
Sent(transport, attempt) == transport * (MaxRetries + 1) + attempt + 1

PostsAreCounted(local, sent) ==
    /\ local.transport <= Fallbacks
    /\ local.attempt <= MaxRetries
    /\ local.pc = "backoff" => local.attempt < MaxRetries
    /\ local.pc \in {"new", "ready", "waiting"} =>
          local.transport = 0 /\ local.attempt = 0 /\ sent = 0
    /\ sent <= Sent(local.transport, local.attempt)

PostsInv == TypeOK /\ \A c \in Call : PostsAreCounted(call[c], posts[c])

LEMMA SentGrows ==
    ASSUME NEW transport \in Nat, NEW attempt \in Nat
    PROVE  /\ Sent(transport, attempt) \in Nat
           /\ Sent(0, 0) = 1
           /\ Sent(transport, attempt + 1) = Sent(transport, attempt) + 1
           /\ attempt <= MaxRetries => Sent(transport, attempt) + 1 <= Sent(transport + 1, 0)
           /\ attempt <= MaxRetries /\ transport <= Fallbacks =>
                Sent(transport, attempt) <= (MaxRetries + 1) * (Fallbacks + 1)
<1>1. PICK width \in Nat : width = MaxRetries + 1
  BY ConcurrencyAssumption
<1>2. PICK last \in Nat : last = Fallbacks
  BY ConcurrencyAssumption
<1>3. PICK past \in Nat : past = transport * width
  BY <1>1
<1>4. (transport + 1) * width = past + width /\ 0 * width = 0
  BY <1>1, <1>3
<1>5. transport <= last => past <= last * width
  BY <1>1, <1>2, <1>3
<1>6. width * (last + 1) = last * width + width /\ last * width \in Nat
  BY <1>1, <1>2
<1>7. MaxRetries \in Nat /\ MaxRetries = width - 1
  BY <1>1, ConcurrencyAssumption
<1>8. Sent(transport, attempt) = past + attempt + 1 /\ Sent(0, 0) = 1
      /\ Sent(transport, attempt + 1) = past + (attempt + 1) + 1
      /\ Sent(transport + 1, 0) = past + width + 0 + 1
  BY <1>1, <1>3, <1>4 DEF Sent
<1>9. (MaxRetries + 1) * (Fallbacks + 1) = last * width + width
  BY <1>1, <1>2, <1>6
<1>10. Sent(transport, attempt) \in Nat
       /\ Sent(transport, attempt + 1) = Sent(transport, attempt) + 1
  BY <1>3, <1>8
<1>11. ASSUME attempt <= MaxRetries PROVE Sent(transport, attempt) + 1 <= Sent(transport + 1, 0)
  <2>1. attempt + 1 <= width
    BY <1>7, <1>11
  <2> QED
    BY <1>3, <1>8, <2>1
<1>12. ASSUME attempt <= MaxRetries, transport <= Fallbacks
       PROVE  Sent(transport, attempt) <= (MaxRetries + 1) * (Fallbacks + 1)
  <2>1. attempt + 1 <= width /\ past <= last * width
    BY <1>2, <1>5, <1>7, <1>12
  <2>2. PICK most \in Nat : most = last * width
    BY <1>6
  <2>3. Sent(transport, attempt) = past + attempt + 1
        /\ (MaxRetries + 1) * (Fallbacks + 1) = most + width
    BY <1>8, <1>9, <2>2
  <2> QED
    BY <1>3, <2>1, <2>2, <2>3
<1> QED
  BY <1>8, <1>10, <1>11, <1>12

(* A call that ends, or sends its first request from the queue.             *)
LEMMA LeaveCounts ==
    ASSUME PostsInv, NEW c \in Call, NEW outcome \in {"done", "failed"}, InFlight(c),
           Leave(c, outcome)
    PROVE  \A d \in Call : PostsAreCounted(call[d], posts[d])'
<1>0. /\ call \in [Call -> Locals] /\ posts \in [Call -> Nat]
      /\ \A d \in Call : PostsAreCounted(call[d], posts[d])
  BY DEF PostsInv, TypeOK
<1>1. PICK ended : ended = [call[c] EXCEPT !.pc = outcome]
  OBVIOUS
<1>2. PostsAreCounted(ended, posts[c])
  BY <1>0, <1>1 DEF PostsAreCounted, Locals
<1>3. CASE call' = [call EXCEPT ![c].pc = outcome] /\ UNCHANGED posts
  <2>1. call' = [call EXCEPT ![c] = ended]
    BY <1>1, <1>3
  <2>2. \A d \in Call : posts'[d] = posts[d] /\ call'[d] = IF d = c THEN ended ELSE call[d]
    BY <1>0, <1>3, <2>1
  <2> QED
    BY <1>0, <1>2, <2>2
<1>4. ASSUME NEW w \in Waiters(call[c].sem),
             call' = [call EXCEPT ![c].pc = outcome, ![w].pc = "posting"],
             posts' = [posts EXCEPT ![w] = @ + 1]
      PROVE  \A d \in Call : PostsAreCounted(call[d], posts[d])'
  <2>0. w \in Call /\ call[w].pc = "waiting" /\ w # c
    BY <1>4 DEF Waiters, InFlight
  <2>1. PICK woken : woken = [call[w] EXCEPT !.pc = "posting"]
    OBVIOUS
  <2>2. PICK first \in Nat : first = posts[w] + 1
    BY <1>0, <2>0
  <2>3. woken.transport = 0 /\ woken.attempt = 0 /\ woken.pc = "posting" /\ first = 1
    BY <1>0, <2>0, <2>1, <2>2 DEF PostsAreCounted, Locals
  <2>4. PostsAreCounted(woken, first)
    BY <2>3, SentGrows, ConcurrencyAssumption DEF PostsAreCounted
  <2>5. \A d \in Call : /\ posts'[d] = IF d = w THEN first ELSE posts[d]
                        /\ call'[d] = IF d = w THEN woken ELSE IF d = c THEN ended ELSE call[d]
    BY <1>0, <1>1, <1>4, <2>0, <2>1, <2>2
  <2> QED
    BY <1>0, <1>2, <2>4, <2>5
<1> QED
  BY <1>3, <1>4 DEF Leave

(* A step of one call, with what it becomes and what it has sent by then.   *)
LEMMA OneCallCounts ==
    ASSUME PostsInv, NEW c \in Call, NEW next, NEW sent, PostsAreCounted(next, sent),
           call' = [call EXCEPT ![c] = next], posts' = [posts EXCEPT ![c] = sent]
    PROVE  \A d \in Call : PostsAreCounted(call[d], posts[d])'
BY DEF PostsInv, TypeOK

LEMMA AdvanceCounts ==
    ASSUME PostsInv, NEW c \in Call, Advance(c) \/ Cancel(c)
    PROVE  \A d \in Call : PostsAreCounted(call[d], posts[d])'
<1>0. /\ call \in [Call -> Locals] /\ posts \in [Call -> Nat]
      /\ PostsAreCounted(call[c], posts[c]) /\ call[c] \in Locals /\ posts[c] \in Nat
  BY DEF PostsInv, TypeOK
<1>1. PICK transport \in Nat, attempt \in Nat :
        transport = call[c].transport /\ attempt = call[c].attempt
  BY <1>0 DEF Locals
<1>2. posts = [posts EXCEPT ![c] = posts[c]]
  BY <1>0
<1>3. CASE BuildHarness(c)
  <2>1. PICK next : next = [call[c] EXCEPT !.pc = "ready"]
    OBVIOUS
  <2>2. call' = [call EXCEPT ![c] = next] /\ posts' = [posts EXCEPT ![c] = posts[c]]
    BY <1>2, <1>3, <2>1 DEF BuildHarness
  <2>3. PostsAreCounted(next, posts[c])
    BY <1>0, <1>3, <2>1 DEF BuildHarness, PostsAreCounted, Locals
  <2> QED
    BY <2>2, <2>3, OneCallCounts
<1>4. ASSUME call[c].pc = "ready", NEW sem,
             call' = [call EXCEPT ![c].pc = "posting", ![c].sem = sem]
             \/ call' = [call EXCEPT ![c].pc = "posting"],
             posts' = [posts EXCEPT ![c] = @ + 1]
      PROVE  \A d \in Call : PostsAreCounted(call[d], posts[d])'
  <2>1. PICK next : next = call'[c]
    OBVIOUS
  <2>2. call' = [call EXCEPT ![c] = next] /\ posts' = [posts EXCEPT ![c] = posts[c] + 1]
    BY <1>0, <1>4, <2>1
  <2>3. /\ next.pc = "posting" /\ next.transport = call[c].transport
        /\ next.attempt = call[c].attempt
    BY <1>0, <1>4, <2>1 DEF Locals
  <2>4. next.transport = 0 /\ next.attempt = 0 /\ posts[c] + 1 = 1
    BY <1>0, <1>4, <2>3 DEF PostsAreCounted
  <2>s. Sent(0, 0) = 1 /\ Fallbacks \in Nat /\ MaxRetries \in Nat
    BY SentGrows, ConcurrencyAssumption
  <2>5. PostsAreCounted(next, posts[c] + 1)
    BY <2>3, <2>4, <2>s DEF PostsAreCounted
  <2> QED
    BY <2>2, <2>5, OneCallCounts
<1>5. CASE IssueUncapped(c)
  BY <1>4, <1>5 DEF IssueUncapped
<1>6. CASE Issue(c)
  <2>1. CASE call' = [call EXCEPT ![c].pc = "waiting", ![c].sem = current'] /\ UNCHANGED posts
    <3>1. PICK next : next = [call[c] EXCEPT !.pc = "waiting", !.sem = current']
      OBVIOUS
    <3>2. call' = [call EXCEPT ![c] = next] /\ posts' = [posts EXCEPT ![c] = posts[c]]
      BY <1>2, <2>1, <3>1
    <3>3. PostsAreCounted(next, posts[c])
      BY <1>0, <1>6, <3>1 DEF Issue, PostsAreCounted, Locals
    <3> QED
      BY <3>2, <3>3, OneCallCounts
  <2> QED
    BY <1>4, <1>6, <2>1 DEF Issue
<1>7. CASE PostFailsForNow(c)
  <2>1. PICK next : next = [call[c] EXCEPT !.pc = "backoff"]
    OBVIOUS
  <2>2. call' = [call EXCEPT ![c] = next] /\ posts' = [posts EXCEPT ![c] = posts[c]]
    BY <1>2, <1>7, <2>1 DEF PostFailsForNow
  <2>3. PostsAreCounted(next, posts[c])
    BY <1>0, <1>7, <2>1 DEF PostFailsForNow, PostsAreCounted, Locals
  <2> QED
    BY <2>2, <2>3, OneCallCounts
<1>8. CASE Retry(c)
  <2>1. PICK next : next = [call[c] EXCEPT !.pc = "posting", !.attempt = attempt + 1]
    OBVIOUS
  <2>2. call' = [call EXCEPT ![c] = next] /\ posts' = [posts EXCEPT ![c] = posts[c] + 1]
    BY <1>0, <1>1, <1>8, <2>1 DEF Retry
  <2>3. next.pc = "posting" /\ next.transport = transport /\ next.attempt = attempt + 1
    BY <1>0, <1>1, <2>1 DEF Locals
  <2>4. attempt < MaxRetries /\ transport <= Fallbacks /\ posts[c] <= Sent(transport, attempt)
    BY <1>0, <1>1, <1>8 DEF Retry, PostsAreCounted
  <2>s. Sent(transport, attempt) \in Nat
        /\ Sent(transport, attempt + 1) = Sent(transport, attempt) + 1
    BY <1>1, SentGrows
  <2>5. posts[c] + 1 <= Sent(transport, attempt + 1)
    BY <1>0, <2>4, <2>s
  <2>6. PostsAreCounted(next, posts[c] + 1)
    BY <1>1, <2>3, <2>4, <2>5, ConcurrencyAssumption DEF PostsAreCounted
  <2> QED
    BY <2>2, <2>6, OneCallCounts
<1>9. CASE FallBack(c)
  <2>1. PICK next : next = [call[c] EXCEPT !.transport = transport + 1, !.attempt = 0]
    OBVIOUS
  <2>2. call' = [call EXCEPT ![c] = next] /\ posts' = [posts EXCEPT ![c] = posts[c] + 1]
    BY <1>0, <1>1, <1>9, <2>1 DEF FallBack
  <2>3. next.pc = "posting" /\ next.transport = transport + 1 /\ next.attempt = 0
    BY <1>0, <1>1, <1>9, <2>1 DEF Locals, FallBack
  <2>4. attempt <= MaxRetries /\ transport < Fallbacks /\ posts[c] <= Sent(transport, attempt)
    BY <1>0, <1>1, <1>9 DEF FallBack, PostsAreCounted
  <2>a. transport + 1 \in Nat /\ 0 \in Nat
    BY <1>1
  <2>b. Sent(transport + 1, 0) \in Nat
    BY <2>a, SentGrows
  <2>5. Sent(transport, attempt) \in Nat /\ Sent(transport + 1, 0) \in Nat
        /\ Sent(transport, attempt) + 1 <= Sent(transport + 1, 0)
    BY <1>1, <2>b, <2>4, SentGrows
  <2>6. posts[c] + 1 <= Sent(transport + 1, 0)
    BY <1>0, <2>4, <2>5
  <2>7. PostsAreCounted(next, posts[c] + 1)
    BY <1>1, <2>3, <2>4, <2>6, ConcurrencyAssumption DEF PostsAreCounted
  <2> QED
    BY <2>2, <2>7, OneCallCounts
<1>10. CASE call[c].pc = "waiting" /\ call' = [call EXCEPT ![c].pc = "failed"] /\ UNCHANGED posts
  <2>1. PICK next : next = [call[c] EXCEPT !.pc = "failed"]
    OBVIOUS
  <2>2. call' = [call EXCEPT ![c] = next] /\ posts' = [posts EXCEPT ![c] = posts[c]]
    BY <1>2, <1>10, <2>1
  <2>3. PostsAreCounted(next, posts[c])
    BY <1>0, <2>1 DEF PostsAreCounted, Locals
  <2> QED
    BY <2>2, <2>3, OneCallCounts
<1>11. CASE PostSucceeds(c) \/ PostFails(c) \/ (InFlight(c) /\ Leave(c, "failed"))
  BY <1>11, LeaveCounts DEF PostSucceeds, PostFails, InFlight
<1> QED
  BY <1>3, <1>5, <1>6, <1>7, <1>8, <1>9, <1>10, <1>11 DEF Advance, Cancel

(* No call sends more requests than its harness may, also when the cap is   *)
(* set while calls are in flight: nothing but a failed attempt, of which    *)
(* every model has max_retries + 1, is followed by another.                 *)
THEOREM RequestsStayBounded == Spec => []RequestsAreBounded
<1>1. Init => PostsInv
  <2> SUFFICES ASSUME Init PROVE PostsInv
    OBVIOUS
  <2>1. TypeOK
    BY InitFits DEF IInv
  <2>2. ASSUME NEW c \in Call PROVE PostsAreCounted(call[c], posts[c])
    <3>1. call[c] = [pc |-> "new", sem |-> 0, attempt |-> 0, transport |-> 0] /\ posts[c] = 0
      BY DEF Init
    <3> QED
      BY <3>1, SentGrows, ConcurrencyAssumption DEF PostsAreCounted
  <2> QED
    BY <2>1, <2>2 DEF PostsInv
<1>2. PostsInv /\ [Next]_vars => PostsInv'
  <2> SUFFICES ASSUME PostsInv, [Next]_vars PROVE PostsInv'
    OBVIOUS
  <2>1. TypeOK'
    BY TypePreserved DEF PostsInv
  <2>2. \A d \in Call : PostsAreCounted(call[d], posts[d])'
    <3>1. CASE UNCHANGED <<call, posts>>
      BY <3>1 DEF PostsInv
    <3>2. CASE \E c \in Call : Advance(c) \/ Cancel(c)
      BY <3>2, AdvanceCounts
    <3> QED
      BY <3>1, <3>2 DEF Next, SetProviderConcurrency, vars
  <2> QED
    BY <2>1, <2>2 DEF PostsInv
<1>3. PostsInv => RequestsAreBounded
  <2> SUFFICES ASSUME PostsInv, NEW c \in Call
               PROVE  posts[c] <= (MaxRetries + 1) * (Fallbacks + 1)
    BY DEF RequestsAreBounded
  <2>1. /\ PostsAreCounted(call[c], posts[c]) /\ posts[c] \in Nat
        /\ call[c].transport \in Nat /\ call[c].attempt \in Nat
    BY DEF PostsInv, TypeOK, Locals
  <2>2. PICK sent \in Nat : sent = Sent(call[c].transport, call[c].attempt)
    BY <2>1, SentGrows
  <2>3. posts[c] <= sent /\ sent <= (MaxRetries + 1) * (Fallbacks + 1)
    BY <2>1, <2>2, SentGrows DEF PostsAreCounted
  <2>4. (MaxRetries + 1) * (Fallbacks + 1) \in Nat
    BY ConcurrencyAssumption
  <2> QED
    BY <2>1, <2>2, <2>3, <2>4
<1> QED
  BY <1>1, <1>2, <1>3, PTL DEF Spec

-----------------------------------------------------------------------------
(* The replies of an llm_chat node.                                        *)

LlmSpec == LlmInit /\ [][LlmNext]_llmVars

ReplyKind == {"full", "sparse", "invalid", UnknownTool} \cup ToolPool
Token == Nat \X Nat \X Nat

LlmLocals ==
  [pc : {"new", "asking", "posting", "streaming", "reading", "filling", "done", "failed", "refused"},
   round : Nat, attempts : Nat, messages : Seq(ReplyKind), transport : Nat, tries : Nat,
   spoken : Seq(Token), emitted : Seq(Token), reply : ReplyKind \cup {"none"},
   result : {"none", "full", "sparse", "raw"}]

LlmTypeOK ==
  /\ llmConfig \in LlmConfigs
  /\ llm \in [LlmNode -> LlmLocals]

EntriesAreSound ==
  \A messages \in DOMAIN replyCache :
    replyCache[messages].transport = 0 /\ replyCache[messages].kind \in ReplyKinds

(* What was spoken is what the last attempt emitted.                        *)
EndsWith(emitted, spoken) ==
  /\ Len(spoken) <= Len(emitted)
  /\ \A i \in 1..Len(spoken) : emitted[Len(emitted) - Len(spoken) + i] = spoken[i]

SpeaksForItself(local) ==
  /\ EndsWith(local.emitted, local.spoken)
  /\ \A i \in 1..Len(local.spoken) : local.spoken[i] = <<local.transport, local.tries, i>>

(* A structured node without tools has one round for each of its attempts.  *)
RoundsAreAttempts(local) ==
  /\ local.pc \in {"new", "asking", "posting", "reading"} =>
       /\ local.round = local.attempts /\ Len(local.messages) = local.attempts
       /\ local.attempts <= StructuredRetries
  /\ local.pc = "done" => local.result # "raw"
  /\ local.pc = "refused" => Len(local.messages) = StructuredRetries

NodeIsSound(local) ==
  /\ local.pc = "streaming" => Streams
  /\ Streams => local.pc \in {"new", "streaming", "done", "failed"} /\ SpeaksForItself(local)
  /\ local.pc = "reading" => local.reply \in ReplyKinds
  /\ local.pc = "filling" => local.result \in {"full", "sparse"}
  /\ IsStructured /\ ~HasTools => RoundsAreAttempts(local)

LlmInv ==
  /\ LlmTypeOK /\ EntriesAreSound /\ DisallowedToolsNeverRun
  /\ \A n \in LlmNode : NodeIsSound(llm[n])

LEMMA LlmParts ==
    ASSUME LlmInv
    PROVE  /\ llmConfig \in LlmConfigs /\ llm \in [LlmNode -> LlmLocals]
           /\ EntriesAreSound /\ DisallowedToolsNeverRun
           /\ \A n \in LlmNode : llm[n] \in LlmLocals /\ NodeIsSound(llm[n])
           /\ StructuredRetries \in Nat /\ ToolRounds \in Nat
           /\ llmConfig.mode \in {"stream", "plain", "parse", "structured"}
           /\ ReplyKinds \subseteq ReplyKind
  BY ModelCallsAssumption
     DEF LlmInv, LlmTypeOK, ModelCallsAssumption, LlmConfig, ReplyKinds, ReplyKind

(* A step of one node.                                                      *)
LEMMA NodeMoves ==
    ASSUME LlmInv, NEW n \in LlmNode, NEW next \in LlmLocals, NodeIsSound(next),
           llm' = [llm EXCEPT ![n] = next], UNCHANGED llmConfig,
           EntriesAreSound', DisallowedToolsNeverRun'
    PROVE  LlmInv'
<1>0. llm \in [LlmNode -> LlmLocals] /\ \A m \in LlmNode : NodeIsSound(llm[m])
  BY LlmParts
<1>1. llm' \in [LlmNode -> LlmLocals] /\ \A m \in LlmNode : NodeIsSound(llm'[m])
  BY <1>0
<1>2. UNCHANGED <<Streams, IsStructured, HasTools, ReplyKinds>>
  BY DEF Streams, IsStructured, HasTools, ReplyKinds
<1>3. \A m \in LlmNode : NodeIsSound(llm[m])'
  BY <1>1, <1>2 DEF NodeIsSound
<1>4. LlmTypeOK'
  BY <1>1, LlmParts DEF LlmTypeOK
<1> QED
  BY <1>3, <1>4 DEF LlmInv

LEMMA CacheRests ==
    ASSUME LlmInv, UNCHANGED <<llmConfig, replyCache>>
    PROVE  EntriesAreSound'
  BY LlmParts DEF EntriesAreSound, ReplyKinds, HasTools

LEMMA ToolsRest ==
    ASSUME LlmInv, UNCHANGED <<llmConfig, toolsRun>>
    PROVE  DisallowedToolsNeverRun'
  BY LlmParts DEF DisallowedToolsNeverRun

LEMMA LlmInitInv == LlmInit => LlmInv
<1> SUFFICES ASSUME LlmInit PROVE LlmInv
  OBVIOUS
<1>1. NewLlm \in LlmLocals
  BY DEF NewLlm, LlmLocals
<1>2. NodeIsSound(NewLlm)
  BY ModelCallsAssumption
     DEF ModelCallsAssumption, NewLlm, NodeIsSound, SpeaksForItself, EndsWith, RoundsAreAttempts
<1>3. LlmTypeOK
  BY <1>1 DEF LlmInit, LlmTypeOK
<1>4. EntriesAreSound /\ DisallowedToolsNeverRun
  BY DEF LlmInit, EntriesAreSound, DisallowedToolsNeverRun
<1> QED
  BY <1>2, <1>3, <1>4 DEF LlmInit, LlmInv

LEMMA LlmBeginInv ==
    ASSUME LlmInv, NEW n \in LlmNode, LlmBegin(n)
    PROVE  LlmInv'
<1>0. PICK pc \in {"asking", "streaming"} :
        /\ llm' = [llm EXCEPT ![n] = [llm[n] EXCEPT !.pc = pc]]
        /\ pc = "streaming" <=> Streams
        /\ llm[n].pc = "new" /\ UNCHANGED <<llmConfig, replyCache, toolsRun>>
  BY DEF LlmBegin
<1>1. llm[n] \in LlmLocals /\ NodeIsSound(llm[n])
  BY LlmParts
<1>2. PICK next : next = [llm[n] EXCEPT !.pc = pc]
  OBVIOUS
<1>3. next \in LlmLocals
  BY <1>1, <1>2 DEF LlmLocals
<1>4. /\ next.pc = pc /\ next.round = llm[n].round /\ next.attempts = llm[n].attempts
      /\ next.messages = llm[n].messages /\ next.transport = llm[n].transport
      /\ next.tries = llm[n].tries /\ next.spoken = llm[n].spoken /\ next.emitted = llm[n].emitted
  BY <1>1, <1>2 DEF LlmLocals
<1>5. NodeIsSound(next)
  BY <1>0, <1>1, <1>4 DEF NodeIsSound, SpeaksForItself, RoundsAreAttempts
<1> QED
  BY <1>0, <1>2, <1>3, <1>5, NodeMoves, CacheRests, ToolsRest

LEMMA AskModelInv ==
    ASSUME LlmInv, NEW n \in LlmNode, AskModel(n)
    PROVE  LlmInv'
<1>0. /\ llm[n].pc = "asking" /\ UNCHANGED <<llmConfig, replyCache, toolsRun>>
      /\ llm[n] \in LlmLocals /\ NodeIsSound(llm[n]) /\ EntriesAreSound
      /\ ReplyKinds \subseteq ReplyKind
  BY LlmParts DEF AskModel
<1>1. ~Streams
  BY <1>0 DEF NodeIsSound
<1>2. CASE llmConfig.cache /\ llm[n].messages \in DOMAIN replyCache
  <2>1. PICK kind \in ReplyKinds : kind = replyCache[llm[n].messages].kind
    BY <1>0, <1>2 DEF EntriesAreSound
  <2>2. PICK next : next = [llm[n] EXCEPT !.pc = "reading", !.reply = kind, !.transport = 0]
    OBVIOUS
  <2>3. llm' = [llm EXCEPT ![n] = next]
    BY <2>1, <2>2, <1>0, <1>2 DEF AskModel, EntriesAreSound
  <2>4. next \in LlmLocals
    BY <2>1, <2>2, <1>0 DEF LlmLocals
  <2>5. /\ next.pc = "reading" /\ next.reply = kind /\ next.round = llm[n].round
        /\ next.attempts = llm[n].attempts /\ next.messages = llm[n].messages
    BY <2>2, <1>0 DEF LlmLocals
  <2>6. NodeIsSound(next)
    BY <2>1, <2>5, <1>0, <1>1 DEF NodeIsSound, RoundsAreAttempts
  <2> QED
    BY <2>3, <2>4, <2>6, <1>0, NodeMoves, CacheRests, ToolsRest
<1>3. CASE ~(llmConfig.cache /\ llm[n].messages \in DOMAIN replyCache)
  <2>1. PICK next : next = [llm[n] EXCEPT !.pc = "posting", !.transport = 0, !.tries = 0]
    OBVIOUS
  <2>2. llm' = [llm EXCEPT ![n] = next]
    BY <2>1, <1>3 DEF AskModel
  <2>3. next \in LlmLocals
    BY <2>1, <1>0 DEF LlmLocals
  <2>4. /\ next.pc = "posting" /\ next.round = llm[n].round
        /\ next.attempts = llm[n].attempts /\ next.messages = llm[n].messages
    BY <2>1, <1>0 DEF LlmLocals
  <2>5. NodeIsSound(next)
    BY <2>4, <1>0, <1>1 DEF NodeIsSound, RoundsAreAttempts
  <2> QED
    BY <2>2, <2>3, <2>5, <1>0, NodeMoves, CacheRests, ToolsRest
<1> QED
  BY <1>2, <1>3

LEMMA ModelAnswersInv ==
    ASSUME LlmInv, NEW n \in LlmNode, ModelAnswers(n)
    PROVE  LlmInv'
<1>0. PICK kind \in ReplyKinds :
        /\ llm' = [llm EXCEPT ![n] = [llm[n] EXCEPT !.pc = "reading", !.reply = kind]]
        /\ replyCache' = IF llmConfig.cache /\ llm[n].transport = 0
                           THEN [m \in DOMAIN replyCache \cup {llm[n].messages} |->
                                   IF m = llm[n].messages THEN [kind |-> kind, transport |-> 0]
                                   ELSE replyCache[m]]
                           ELSE replyCache
        /\ llm[n].pc = "posting" /\ UNCHANGED <<llmConfig, toolsRun>>
  BY ZenonT(60) DEF ModelAnswers
<1>1. /\ llm[n] \in LlmLocals /\ NodeIsSound(llm[n]) /\ EntriesAreSound
      /\ ReplyKinds \subseteq ReplyKind
  BY LlmParts
<1>2. ~Streams
  BY <1>0, <1>1 DEF NodeIsSound
<1>3. PICK next : next = [llm[n] EXCEPT !.pc = "reading", !.reply = kind]
  OBVIOUS
<1>4. next \in LlmLocals
  BY <1>1, <1>3 DEF LlmLocals
<1>5. /\ next.pc = "reading" /\ next.reply = kind /\ next.round = llm[n].round
      /\ next.attempts = llm[n].attempts /\ next.messages = llm[n].messages
  BY <1>1, <1>3 DEF LlmLocals
<1>6. NodeIsSound(next)
  BY <1>0, <1>1, <1>2, <1>5 DEF NodeIsSound, RoundsAreAttempts
<1>7. EntriesAreSound'
  <2>1. ReplyKinds' = ReplyKinds
    BY <1>0 DEF ReplyKinds, HasTools
  <2>2. CASE replyCache' = replyCache
    BY <2>1, <2>2, <1>1 DEF EntriesAreSound
  <2>3. CASE replyCache' = [m \in DOMAIN replyCache \cup {llm[n].messages} |->
                              IF m = llm[n].messages THEN [kind |-> kind, transport |-> 0]
                              ELSE replyCache[m]]
    <3>1. ASSUME NEW messages \in DOMAIN replyCache'
          PROVE  \/ replyCache'[messages] = [kind |-> kind, transport |-> 0]
                 \/ messages \in DOMAIN replyCache /\ replyCache'[messages] = replyCache[messages]
      BY <2>3
    <3> QED
      BY <3>1, <2>1, <1>1 DEF EntriesAreSound
  <2> QED
    BY <2>2, <2>3, <1>0
<1> QED
  BY <1>0, <1>3, <1>4, <1>6, <1>7, NodeMoves, ToolsRest

LEMMA StreamTokenInv ==
    ASSUME LlmInv, NEW n \in LlmNode, StreamToken(n)
    PROVE  LlmInv'
<1>0. /\ llm[n].pc = "streaming" /\ UNCHANGED <<llmConfig, replyCache, toolsRun>>
      /\ llm[n] \in LlmLocals /\ NodeIsSound(llm[n])
  BY LlmParts DEF StreamToken
<1>1. PICK spoken \in Seq(Token), emitted \in Seq(Token), transport \in Nat, tries \in Nat :
        /\ spoken = llm[n].spoken /\ emitted = llm[n].emitted
        /\ transport = llm[n].transport /\ tries = llm[n].tries
  BY <1>0 DEF LlmLocals
<1>2. PICK token : token = <<transport, tries, Len(spoken) + 1>>
  OBVIOUS
<1>3. token \in Token /\ Len(spoken) \in Nat /\ Len(emitted) \in Nat
  BY <1>2 DEF Token
<1>4. PICK longer, longerEmitted :
        longer = Append(spoken, token) /\ longerEmitted = Append(emitted, token)
  OBVIOUS
<1>5. /\ longer \in Seq(Token) /\ Len(longer) = Len(spoken) + 1
      /\ longer[Len(spoken) + 1] = token /\ \A i \in 1..Len(spoken) : longer[i] = spoken[i]
  BY <1>3, <1>4
<1>6. /\ longerEmitted \in Seq(Token) /\ Len(longerEmitted) = Len(emitted) + 1
      /\ longerEmitted[Len(emitted) + 1] = token
      /\ \A i \in 1..Len(emitted) : longerEmitted[i] = emitted[i]
  BY <1>3, <1>4
<1>7. PICK next : next = [llm[n] EXCEPT !.spoken = longer, !.emitted = longerEmitted]
  OBVIOUS
<1>8. llm' = [llm EXCEPT ![n] = next]
  BY <1>1, <1>2, <1>4, <1>7 DEF StreamToken
<1>9. next \in LlmLocals
  BY <1>0, <1>5, <1>6, <1>7 DEF LlmLocals
<1>10. /\ next.pc = "streaming" /\ next.spoken = longer /\ next.emitted = longerEmitted
       /\ next.transport = transport /\ next.tries = tries
  BY <1>0, <1>1, <1>7 DEF LlmLocals
<1>11. /\ Streams /\ EndsWith(emitted, spoken)
       /\ \A i \in 1..Len(spoken) : spoken[i] = <<transport, tries, i>>
  BY <1>0, <1>1 DEF NodeIsSound, SpeaksForItself
<1>12. EndsWith(longerEmitted, longer)
  <2>1. Len(spoken) <= Len(emitted)
    BY <1>11 DEF EndsWith
  <2>2. ASSUME NEW i \in 1..Len(longer)
        PROVE  longerEmitted[Len(longerEmitted) - Len(longer) + i] = longer[i]
    <3>1. Len(longerEmitted) - Len(longer) = Len(emitted) - Len(spoken)
      BY <1>3, <1>5, <1>6
    <3>2. i \in 1..Len(spoken) \/ i = Len(spoken) + 1
      BY <1>3, <1>5
    <3>3. CASE i \in 1..Len(spoken)
      <4>1. Len(emitted) - Len(spoken) + i \in 1..Len(emitted)
        BY <3>3, <2>1, <1>3
      <4>2. emitted[Len(emitted) - Len(spoken) + i] = spoken[i]
        BY <3>3, <1>11 DEF EndsWith
      <4> QED
        BY <4>1, <4>2, <3>1, <3>3, <1>5, <1>6
    <3>4. CASE i = Len(spoken) + 1
      <4>1. Len(emitted) - Len(spoken) + i = Len(emitted) + 1
        BY <3>4, <1>3
      <4> QED
        BY <4>1, <3>1, <3>4, <1>5, <1>6
    <3> QED
      BY <3>2, <3>3, <3>4
  <2>3. Len(longer) <= Len(longerEmitted)
    BY <2>1, <1>3, <1>5, <1>6
  <2> QED
    BY <2>2, <2>3 DEF EndsWith
<1>13. ASSUME NEW i \in 1..Len(longer) PROVE longer[i] = <<transport, tries, i>>
  <2>1. i \in 1..Len(spoken) \/ i = Len(spoken) + 1
    BY <1>3, <1>5
  <2> QED
    BY <2>1, <1>2, <1>5, <1>11
<1>14. NodeIsSound(next)
  <2>1. SpeaksForItself(next)
    BY <1>10, <1>12, <1>13 DEF SpeaksForItself
  <2>2. ~(IsStructured /\ ~HasTools)
    BY <1>11 DEF Streams, IsStructured
  <2> QED
    BY <2>1, <2>2, <1>10, <1>11 DEF NodeIsSound
<1> QED
  BY <1>0, <1>8, <1>9, <1>14, NodeMoves, CacheRests, ToolsRest

LEMMA StreamEndsInv ==
    ASSUME LlmInv, NEW n \in LlmNode, StreamEnds(n)
    PROVE  LlmInv'
<1>0. /\ llm[n].pc = "streaming" /\ UNCHANGED <<llmConfig, replyCache, toolsRun>>
      /\ llm[n] \in LlmLocals /\ NodeIsSound(llm[n])
  BY LlmParts DEF StreamEnds
<1>1. PICK next : next = [llm[n] EXCEPT !.pc = "done", !.reply = "full", !.result = "full"]
  OBVIOUS
<1>2. llm' = [llm EXCEPT ![n] = next]
  BY <1>1 DEF StreamEnds
<1>3. next \in LlmLocals
  BY <1>0, <1>1 DEF LlmLocals, ReplyKind
<1>4. /\ next.pc = "done" /\ next.result = "full" /\ next.transport = llm[n].transport
      /\ next.tries = llm[n].tries /\ next.spoken = llm[n].spoken /\ next.emitted = llm[n].emitted
  BY <1>0, <1>1 DEF LlmLocals
<1>5. NodeIsSound(next)
  BY <1>0, <1>4 DEF NodeIsSound, SpeaksForItself, RoundsAreAttempts
<1> QED
  BY <1>0, <1>2, <1>3, <1>5, NodeMoves, CacheRests, ToolsRest

(* A failure: what was spoken is taken back, or the node has failed.        *)
LEMMA FailingInv ==
    ASSUME LlmInv, NEW n \in LlmNode, NEW transport \in Nat, NEW tries \in Nat,
           RequestFailing(n, [llm[n] EXCEPT !.transport = transport, !.tries = tries,
                                            !.spoken = <<>>])
    PROVE  LlmInv'
<1>0. /\ llm[n].pc \in {"posting", "streaming"} /\ UNCHANGED <<llmConfig, replyCache, toolsRun>>
      /\ llm[n] \in LlmLocals /\ NodeIsSound(llm[n])
  BY LlmParts DEF RequestFailing
<1>e. PICK nothing \in Seq(Token) : nothing = <<>>
  BY EmptySeq
<1>1. PICK next : next = [llm[n] EXCEPT !.transport = transport, !.tries = tries, !.spoken = nothing]
  OBVIOUS
<1>2. llm' = [llm EXCEPT ![n] = next]
  BY <1>1, <1>e DEF RequestFailing
<1>3. next \in LlmLocals
  BY <1>0, <1>1 DEF LlmLocals
<1>4. /\ next.pc = llm[n].pc /\ next.spoken = nothing /\ next.emitted = llm[n].emitted
      /\ next.round = llm[n].round /\ next.attempts = llm[n].attempts
      /\ next.messages = llm[n].messages
  BY <1>0, <1>1 DEF LlmLocals
<1>5. SpeaksForItself(next)
  <2>1. Len(next.spoken) = 0 /\ Len(next.emitted) \in Nat
    BY <1>0, <1>4, <1>e DEF LlmLocals
  <2> QED
    BY <2>1 DEF SpeaksForItself, EndsWith
<1>6. NodeIsSound(next)
  BY <1>0, <1>4, <1>5 DEF NodeIsSound, RoundsAreAttempts
<1> QED
  BY <1>0, <1>2, <1>3, <1>6, NodeMoves, CacheRests, ToolsRest

LEMMA RequestFailsInv ==
    ASSUME LlmInv, NEW n \in LlmNode, TryAgain(n) \/ NextModel(n)
    PROVE  LlmInv'
<1>0. llm[n] \in LlmLocals
  BY LlmParts
<1>1. PICK transport \in Nat, tries \in Nat : transport = llm[n].transport /\ tries = llm[n].tries
  BY <1>0 DEF LlmLocals
<1>2. transport + 1 \in Nat /\ tries + 1 \in Nat /\ 0 \in Nat
  OBVIOUS
<1>3. CASE TryAgain(n)
  <2>1. [llm[n] EXCEPT !.tries = tries + 1, !.spoken = <<>>]
          = [llm[n] EXCEPT !.transport = transport, !.tries = tries + 1, !.spoken = <<>>]
    BY <1>0, <1>1 DEF LlmLocals
  <2>2. RequestFailing(n, [llm[n] EXCEPT !.transport = transport, !.tries = tries + 1,
                                        !.spoken = <<>>])
    BY <2>1, <1>1, <1>3 DEF TryAgain
  <2> QED
    BY <2>2, <1>2, FailingInv
<1>4. CASE NextModel(n)
  <2>1. RequestFailing(n, [llm[n] EXCEPT !.transport = transport + 1, !.tries = 0, !.spoken = <<>>])
    BY <1>1, <1>4 DEF NextModel
  <2> QED
    BY <2>1, <1>2, FailingInv
<1> QED
  BY <1>3, <1>4

LEMMA GiveUpInv ==
    ASSUME LlmInv, NEW n \in LlmNode, GiveUp(n)
    PROVE  LlmInv'
<1>0. /\ llm[n].pc \in {"posting", "streaming"} /\ UNCHANGED <<llmConfig, replyCache, toolsRun>>
      /\ llm[n] \in LlmLocals /\ NodeIsSound(llm[n])
  BY LlmParts DEF GiveUp, RequestFailing
<1>1. PICK next : next = [llm[n] EXCEPT !.pc = "failed"]
  OBVIOUS
<1>2. llm' = [llm EXCEPT ![n] = next]
  BY <1>1 DEF GiveUp, RequestFailing
<1>3. next \in LlmLocals
  BY <1>0, <1>1 DEF LlmLocals
<1>4. /\ next.pc = "failed" /\ next.transport = llm[n].transport
      /\ next.tries = llm[n].tries /\ next.spoken = llm[n].spoken /\ next.emitted = llm[n].emitted
  BY <1>0, <1>1 DEF LlmLocals
<1>5. NodeIsSound(next)
  BY <1>0, <1>4 DEF NodeIsSound, SpeaksForItself, RoundsAreAttempts
<1> QED
  BY <1>0, <1>2, <1>3, <1>5, NodeMoves, CacheRests, ToolsRest

(* A node without tools that was asked for structure has a round left for   *)
(* each attempt that is left.                                               *)
LEMMA RoundsForAttempts ==
    ASSUME LlmInv, IsStructured, ~HasTools
    PROVE  Rounds = StructuredRetries + 1
<1>1. StructuredRetries \in Nat
  BY LlmParts
<1>2. CASE StructuredRetries = 0
  BY <1>1, <1>2 DEF Rounds
<1>3. CASE StructuredRetries > 0
  BY <1>1, <1>3 DEF Rounds
<1> QED
  BY <1>1, <1>2, <1>3

(* The next round of a node that has read a reply.                          *)
LEMMA RoundEnds ==
    ASSUME LlmInv, NEW n \in LlmNode, llm[n].pc = "reading", llm[n].reply \in ReplyKind,
           NEW attempts \in Nat, NEW next, next = NextRound(Heard(llm[n], attempts)),
           IsStructured /\ ~HasTools => attempts = llm[n].attempts + 1 /\ attempts <= StructuredRetries
    PROVE  next \in LlmLocals /\ NodeIsSound(next)
<1>0. llm[n] \in LlmLocals /\ NodeIsSound(llm[n]) /\ StructuredRetries \in Nat
  BY LlmParts
<1>1. PICK messages \in Seq(ReplyKind), round \in Nat :
        messages = llm[n].messages /\ round = llm[n].round
  BY <1>0 DEF LlmLocals
<1>r. PICK said \in ReplyKind : said = llm[n].reply
  OBVIOUS
<1>s. Append(messages, said) \in Seq(ReplyKind) /\ Len(Append(messages, said)) = Len(messages) + 1
  BY <1>1, <1>r
<1>2. PICK told \in Seq(ReplyKind) : told = Append(messages, llm[n].reply) /\ Len(told) = Len(messages) + 1
  BY <1>r, <1>s
<1>3. PICK heard : heard = [llm[n] EXCEPT !.messages = told, !.attempts = attempts]
  OBVIOUS
<1>4. /\ heard \in LlmLocals /\ heard.messages = told /\ heard.attempts = attempts
      /\ heard.round = round
  BY <1>0, <1>1, <1>3 DEF LlmLocals
<1>5. next = NextRound(heard)
  BY <1>1, <1>2, <1>3 DEF Heard
<1>6. ~Streams
  BY <1>0 DEF NodeIsSound
<1>n. IsStructured /\ ~HasTools =>
        /\ round + 1 = attempts /\ Len(told) = attempts /\ attempts <= StructuredRetries
        /\ round + 1 < Rounds
  <2> SUFFICES ASSUME IsStructured, ~HasTools
               PROVE  /\ round + 1 = attempts /\ Len(told) = attempts
                      /\ attempts <= StructuredRetries /\ round + 1 < Rounds
    OBVIOUS
  <2>1. Rounds = StructuredRetries + 1
    BY RoundsForAttempts
  <2>2. PICK before \in Nat : before = llm[n].attempts
    BY <1>0 DEF LlmLocals
  <2>3. round = before /\ Len(messages) = before
    BY <1>0, <1>1, <2>2 DEF NodeIsSound, RoundsAreAttempts
  <2>4. attempts = before + 1 /\ attempts <= StructuredRetries
    BY <2>2
  <2> QED
    BY <2>1, <2>3, <2>4, <1>0, <1>2
<1>7. CASE round + 1 < Rounds
  <2>1. PICK later \in Nat : later = round + 1
    OBVIOUS
  <2>2. next = [heard EXCEPT !.pc = "asking", !.round = later]
    BY <2>1, <1>4, <1>5, <1>7 DEF NextRound
  <2>3. /\ next \in LlmLocals /\ next.pc = "asking" /\ next.round = later
        /\ next.messages = told /\ next.attempts = attempts
    BY <2>2, <1>4 DEF LlmLocals
  <2>4. IsStructured /\ ~HasTools => RoundsAreAttempts(next)
    BY <2>1, <2>3, <1>n DEF RoundsAreAttempts
  <2> QED
    BY <2>3, <2>4, <1>6 DEF NodeIsSound
<1>8. CASE ~(round + 1 < Rounds)
  <2>1. next = [heard EXCEPT !.pc = "done", !.result = "raw"]
    BY <1>4, <1>5, <1>8 DEF NextRound
  <2>2. next \in LlmLocals /\ next.pc = "done"
    BY <2>1, <1>4 DEF LlmLocals
  <2>3. ~(IsStructured /\ ~HasTools)
    BY <1>8, <1>n
  <2> QED
    BY <2>2, <2>3, <1>6 DEF NodeIsSound
<1> QED
  BY <1>7, <1>8

LEMMA RunToolsInv ==
    ASSUME LlmInv, NEW n \in LlmNode, RunTools(n)
    PROVE  LlmInv'
<1>0. /\ llm[n].pc = "reading" /\ llm[n].reply \in ToolPool \cup {UnknownTool}
      /\ toolsRun' = toolsRun \cup ({llm[n].reply} \cap ScopedTools)
      /\ llm' = [llm EXCEPT ![n] = NextRound(Heard(llm[n], llm[n].attempts))]
      /\ UNCHANGED <<llmConfig, replyCache>>
      /\ llm[n] \in LlmLocals /\ NodeIsSound(llm[n]) /\ DisallowedToolsNeverRun
  BY LlmParts DEF RunTools
<1>1. HasTools
  <2>1. llm[n].reply \in ReplyKinds
    BY <1>0 DEF NodeIsSound
  <2>2. llm[n].reply \notin {"full", "sparse", "invalid"}
    BY <1>0, ModelCallsAssumption DEF ModelCallsAssumption, UnknownTool
  <2> QED
    BY <2>1, <2>2 DEF ReplyKinds
<1>2. PICK attempts \in Nat : attempts = llm[n].attempts
  BY <1>0 DEF LlmLocals
<1>3. PICK next : next = NextRound(Heard(llm[n], attempts))
  OBVIOUS
<1>4. next \in LlmLocals /\ NodeIsSound(next)
  BY <1>0, <1>1, <1>3, RoundEnds DEF ReplyKind
<1>5. DisallowedToolsNeverRun'
  BY <1>0 DEF DisallowedToolsNeverRun, ScopedTools
<1> QED
  BY <1>0, <1>2, <1>3, <1>4, <1>5, NodeMoves, CacheRests

LEMMA AcceptReplyInv ==
    ASSUME LlmInv, NEW n \in LlmNode, AcceptReply(n)
    PROVE  LlmInv'
<1>0. /\ llm[n].pc = "reading" /\ llm[n].reply \in {"full", "sparse"}
      /\ UNCHANGED <<llmConfig, replyCache, toolsRun>>
      /\ llm[n] \in LlmLocals /\ NodeIsSound(llm[n])
  BY LlmParts DEF AcceptReply
<1>1. PICK result \in {"full", "sparse"} : result = llm[n].reply
  BY <1>0
<1>2. PICK next : next = [llm[n] EXCEPT !.pc = "filling", !.result = result]
  OBVIOUS
<1>3. llm' = [llm EXCEPT ![n] = next]
  BY <1>1, <1>2 DEF AcceptReply
<1>4. next \in LlmLocals /\ next.pc = "filling" /\ next.result = result
  BY <1>0, <1>2 DEF LlmLocals
<1>5. NodeIsSound(next)
  BY <1>0, <1>4 DEF NodeIsSound, RoundsAreAttempts
<1> QED
  BY <1>0, <1>3, <1>4, <1>5, NodeMoves, CacheRests, ToolsRest

LEMMA RefuseReplyInv ==
    ASSUME LlmInv, NEW n \in LlmNode, RefuseReply(n)
    PROVE  LlmInv'
<1>0. /\ llm[n].pc = "reading" /\ llm[n].reply = "invalid"
      /\ UNCHANGED <<llmConfig, replyCache, toolsRun>>
      /\ llm[n] \in LlmLocals /\ NodeIsSound(llm[n]) /\ StructuredRetries \in Nat
  BY LlmParts DEF RefuseReply
<1>1. PICK attempts \in Nat : attempts = llm[n].attempts + 1
  BY <1>0 DEF LlmLocals
<1>2. CASE IsStructured /\ attempts <= StructuredRetries
  <2>1. PICK next : next = NextRound(Heard(llm[n], attempts))
    OBVIOUS
  <2>2. llm' = [llm EXCEPT ![n] = next]
    BY <2>1, <1>1, <1>2 DEF RefuseReply
  <2>3. next \in LlmLocals /\ NodeIsSound(next)
    BY <2>1, <1>0, <1>1, <1>2, RoundEnds DEF ReplyKind
  <2> QED
    BY <2>2, <2>3, <1>0, NodeMoves, CacheRests, ToolsRest
<1>3. CASE ~(IsStructured /\ attempts <= StructuredRetries)
  <2>1. PICK next : next = [llm[n] EXCEPT !.pc = "refused"]
    OBVIOUS
  <2>2. llm' = [llm EXCEPT ![n] = next]
    BY <2>1, <1>1, <1>3 DEF RefuseReply
  <2>3. next \in LlmLocals /\ next.pc = "refused" /\ next.messages = llm[n].messages
    BY <2>1, <1>0 DEF LlmLocals
  <2>4. ASSUME IsStructured, ~HasTools PROVE Len(llm[n].messages) = StructuredRetries
    <3>1. PICK before \in Nat : before = llm[n].attempts
      BY <1>0 DEF LlmLocals
    <3>2. before <= StructuredRetries /\ Len(llm[n].messages) = before
      BY <2>4, <3>1, <1>0 DEF NodeIsSound, RoundsAreAttempts
    <3>3. ~(before + 1 <= StructuredRetries)
      BY <2>4, <3>1, <1>1, <1>3
    <3> QED
      BY <3>2, <3>3, <1>0
  <2>5. NodeIsSound(next)
    BY <2>3, <2>4, <1>0 DEF NodeIsSound, RoundsAreAttempts
  <2> QED
    BY <2>2, <2>3, <2>5, <1>0, NodeMoves, CacheRests, ToolsRest
<1> QED
  BY <1>2, <1>3

LEMMA FillFieldInv ==
    ASSUME LlmInv, NEW n \in LlmNode, FillField(n)
    PROVE  LlmInv'
<1>0. /\ llm[n].pc = "filling" /\ UNCHANGED <<llmConfig, replyCache, toolsRun>>
      /\ llm[n] \in LlmLocals /\ NodeIsSound(llm[n])
  BY LlmParts DEF FillField
<1>1. llm[n].result \in {"full", "sparse"}
  BY <1>0 DEF NodeIsSound
<1>2. PICK result \in {"full", "sparse"} :
        llm' = [llm EXCEPT ![n] = [llm[n] EXCEPT !.pc = "done", !.result = result]]
  BY <1>1 DEF FillField
<1>3. PICK next : next = [llm[n] EXCEPT !.pc = "done", !.result = result]
  OBVIOUS
<1>4. next \in LlmLocals /\ next.pc = "done" /\ next.result = result
  BY <1>0, <1>3 DEF LlmLocals
<1>5. NodeIsSound(next)
  BY <1>0, <1>4 DEF NodeIsSound, RoundsAreAttempts
<1> QED
  BY <1>0, <1>2, <1>3, <1>4, <1>5, NodeMoves, CacheRests, ToolsRest

LEMMA LlmNextInv == LlmInv /\ [LlmNext]_llmVars => LlmInv'
<1> SUFFICES ASSUME LlmInv, [LlmNext]_llmVars PROVE LlmInv'
  OBVIOUS
<1>1. CASE UNCHANGED llmVars
  BY <1>1 DEF llmVars, LlmInv, LlmTypeOK, EntriesAreSound, DisallowedToolsNeverRun, NodeIsSound,
              Streams, IsStructured, HasTools, ReplyKinds
<1>2. ASSUME NEW n \in LlmNode, LlmStep(n) PROVE LlmInv'
  BY <1>2, LlmBeginInv, AskModelInv, ModelAnswersInv, StreamTokenInv, StreamEndsInv,
     RequestFailsInv, GiveUpInv, RunToolsInv, AcceptReplyInv, RefuseReplyInv, FillFieldInv
     DEF LlmStep
<1> QED
  BY <1>1, <1>2 DEF LlmNext

(* A sequence read from its end is a sequence of the same length. *)
LEMMA ReversedSequence ==
    ASSUME NEW S, NEW s \in Seq(S)
    PROVE  /\ Reverse(s) \in Seq(S) /\ Len(Reverse(s)) = Len(s)
           /\ \A i \in 1..Len(s) : Reverse(s)[i] = s[Len(s) - i + 1]
<1>1. PICK n \in Nat : n = Len(s)
  OBVIOUS
<1>2. ASSUME NEW i \in 1..n PROVE s[n - i + 1] \in S
  <2>1. n - i + 1 \in 1..Len(s)
    BY <1>1
  <2> QED
    BY <2>1
<1>3. PICK back : back = [i \in 1..n |-> s[n - i + 1]]
  OBVIOUS
<1>4. back \in [1..n -> S] /\ \A i \in 1..n : back[i] = s[n - i + 1]
  BY <1>2, <1>3
<1>5. back \in Seq(S) /\ Len(back) = n
  BY <1>1, <1>4
<1>6. Reverse(s) = back
  BY <1>1, <1>3 DEF Reverse
<1> QED
  BY <1>1, <1>4, <1>5, <1>6

(* What is the end of what was emitted, is a suffix of it.                  *)
LEMMA EndsAreSuffixes ==
    ASSUME NEW S, NEW emitted \in Seq(S), NEW spoken \in Seq(S), EndsWith(emitted, spoken)
    PROVE  IsSuffix(spoken, emitted)
<1>0. Len(spoken) \in Nat /\ Len(emitted) \in Nat /\ Len(spoken) <= Len(emitted)
  BY DEF EndsWith
<1>1. PICK back \in Seq(S) : back = Reverse(spoken) /\ Len(back) = Len(spoken)
                             /\ \A i \in 1..Len(spoken) : back[i] = spoken[Len(spoken) - i + 1]
  BY ReversedSequence
<1>2. PICK whole \in Seq(S) : whole = Reverse(emitted) /\ Len(whole) = Len(emitted)
                             /\ \A i \in 1..Len(emitted) : whole[i] = emitted[Len(emitted) - i + 1]
  BY ReversedSequence
<1>3. ASSUME NEW i \in 1..Len(spoken) PROVE back[i] = whole[i]
  <2>1. i \in 1..Len(emitted) /\ Len(spoken) - i + 1 \in 1..Len(spoken)
    BY <1>0
  <2>2. Len(emitted) - Len(spoken) + (Len(spoken) - i + 1) = Len(emitted) - i + 1
    BY <1>0
  <2>3. emitted[Len(emitted) - Len(spoken) + (Len(spoken) - i + 1)] = spoken[Len(spoken) - i + 1]
    BY <2>1 DEF EndsWith
  <2> QED
    BY <2>1, <2>2, <2>3, <1>1, <1>2
<1>4. SubSeq(back, 1, Len(back)) = SubSeq(whole, 1, Len(back))
  BY <1>0, <1>1, <1>2, <1>3
<1> QED
  BY <1>0, <1>1, <1>2, <1>4 DEF IsSuffix, IsPrefix

LEMMA LlmInvTells == LlmInv => RepliesAreWhatTheySay
<1> SUFFICES ASSUME LlmInv PROVE RepliesAreWhatTheySay
  OBVIOUS
<1>1. ReplyIsOneAttempt
  <2> SUFFICES ASSUME NEW n \in LlmNode, Streams, llm[n].pc = "done"
               PROVE  /\ IsSuffix(llm[n].spoken, llm[n].emitted)
                      /\ \A i \in DOMAIN llm[n].spoken :
                            llm[n].spoken[i] = <<llm[n].transport, llm[n].tries, i>>
    BY DEF ReplyIsOneAttempt
  <2>1. /\ EndsWith(llm[n].emitted, llm[n].spoken)
        /\ \A i \in 1..Len(llm[n].spoken) : llm[n].spoken[i] = <<llm[n].transport, llm[n].tries, i>>
    BY LlmParts DEF NodeIsSound, SpeaksForItself
  <2>2. llm[n].spoken \in Seq(Token) /\ llm[n].emitted \in Seq(Token)
    BY LlmParts DEF LlmLocals
  <2> QED
    BY <2>1, <2>2, EndsAreSuffixes
<1>2. ValidatedOrRefused
  BY LlmParts DEF ValidatedOrRefused, NodeIsSound, RoundsAreAttempts
<1>3. CacheServesThePrimary
  BY LlmParts DEF CacheServesThePrimary, EntriesAreSound
<1> QED
  BY <1>1, <1>2, <1>3 DEF RepliesAreWhatTheySay, LlmInv

(* A reply is what it passes for: a streamed one is one attempt's and the   *)
(* end of what the client was sent, a node without tools returns validated  *)
(* structure or has had all its attempts, the cache serves what the primary *)
(* model said, and a tool that was withheld does not run.                   *)
THEOREM RepliesAreTrue == LlmSpec => []RepliesAreWhatTheySay
<1>1. LlmSpec => []LlmInv
  BY LlmInitInv, LlmNextInv, PTL DEF LlmSpec
<1> QED
  BY <1>1, LlmInvTells, PTL

(* What the run of the two together is checked for: a reply was got with no *)
(* more requests than its harness may send, and is what it passes for.      *)
THEOREM RepliesStayEarned == CallsSpec => []RepliesAreEarned
<1>1. CallsInit => Init /\ LlmInit
  BY DEF CallsInit
<1>2. [CallsNext]_callVars => [Next]_vars /\ [LlmNext]_llmVars
  BY DEF CallsNext, GuardNext, callVars, vars, llmVars
<1>3. CallsSpec => Spec /\ LlmSpec
  BY <1>1, <1>2, PTL DEF CallsSpec, Spec, LlmSpec
<1>4. RequestsAreBounded /\ RepliesAreWhatTheySay => RepliesAreEarned
  BY DEF RepliesAreEarned
<1> QED
  BY <1>3, <1>4, RequestsStayBounded, RepliesAreTrue, PTL

-----------------------------------------------------------------------------
(* The references of a document to its providers.                          *)

(* A run has references that were found when it started; what the harness   *)
(* found or missed was looked up among the names of the block.              *)
LookupInv ==
    /\ registry = <<>> \/ registry = NamesOf(lookup.block)
    /\ progress \in {"running", "called", "failed"} => RefsValid
    /\ progress = "called" => HasEntry(Key)
    /\ progress = "failed" => ~HasEntry(Key)

LEMMA LookupInitInv == LookupInit => LookupInv
BY DEF LookupInit, LookupInv

LEMMA LookupNextInv == LookupInv /\ [LookupNext]_lookupVars => LookupInv'
<1> SUFFICES ASSUME LookupInv, [LookupNext]_lookupVars PROVE LookupInv'
  OBVIOUS
<1>1. CASE UNCHANGED <<lookup, registry>>
  <2>1. /\ registry' = <<>> \/ registry' = NamesOf(lookup.block)'
        /\ RefsValid' = RefsValid /\ HasEntry(Key)' = HasEntry(Key)
    BY <1>1 DEF LookupInv, NamesOf, RefsValid, Declared, HasEntry, Key
  <2>2. CASE UNCHANGED progress
    BY <2>1, <2>2 DEF LookupInv
  <2>3. CASE RefsRefused
    BY <2>1, <2>3 DEF RefsRefused, LookupInv
  <2>4. CASE GraphStarts
    BY <2>1, <2>4 DEF GraphStarts, LookupInv
  <2>5. CASE NodeCalls
    BY <2>1, <2>5 DEF NodeCalls, LookupInv
  <2>6. CASE NodeUnresolved
    BY <2>1, <2>6 DEF NodeUnresolved, LookupInv
  <2>7. CASE LoadProviders
    BY <2>1, <2>7 DEF LoadProviders, LookupInv
  <2> QED
    BY <2>2, <2>3, <2>4, <2>5, <2>6, <2>7 DEF LookupNext, lookupVars
<1>2. CASE LoadProviders
  BY <1>2 DEF LoadProviders, LookupInv, NamesOf
<1> QED
  BY <1>1, <1>2 DEF LookupNext, RefsRefused, GraphStarts, NodeCalls, NodeUnresolved, lookupVars

(* A reference that was checked is found by the harness unless the harness  *)
(* looks for another spelling, and what is called is an entry of the block. *)
THEOREM ReferencesStayKept == LookupSpec => []ReferencesAreKept
<1>1. LookupInv => OnlyUpperCaseIsLost
  <2> SUFFICES ASSUME LookupInv, progress = "failed", Reference # Unnamed,
                      ~lookup.nested, Lower[Reference] = Reference
               PROVE  FALSE
    BY DEF OnlyUpperCaseIsLost
  <2>1. Key = Reference
    BY DEF Key, Reference
  <2>2. Declared(Reference)
    BY DEF LookupInv, RefsValid, Reference
  <2> QED
    BY <2>1, <2>2 DEF LookupInv, Declared, HasEntry
<1>2. LookupInv => CallsGoToDeclaredProviders
  <2> SUFFICES ASSUME LookupInv, progress = "called"
               PROVE  \E i \in DOMAIN lookup.block : lookup.block[i].name = Key
    BY DEF CallsGoToDeclaredProviders
  <2>1. PICK i \in DOMAIN registry : registry[i] = Key
    BY DEF LookupInv, HasEntry, ToSet
  <2>2. registry = NamesOf(lookup.block)
    BY <2>1 DEF LookupInv
  <2> QED
    BY <2>1, <2>2 DEF NamesOf
<1>3. LookupInv => ReferencesAreKept
  BY <1>1, <1>2 DEF ReferencesAreKept
<1> QED
  BY <1>3, LookupInitInv, LookupNextInv, PTL DEF LookupSpec

-----------------------------------------------------------------------------
(* The rounds of a supervised team.                                         *)

TeamSpec == TeamInit /\ [][TeamNext]_teamVars

(* Those that ran are the first of the pipeline.                            *)
Leads(agents) ==
    /\ Len(agents) <= Len(Order)
    /\ \A i \in 1..Len(agents) : agents[i] = Order[i]

InPipeline(agents) == \A i \in 1..Len(agents) : agents[i] \in Range(Order)

TeamTypeOK ==
    /\ team \in Teams
    /\ filled \in SUBSET Agents
    /\ rounds \in Nat
    /\ route \in {"idle", "deciding", "waiting"} \cup Agents
    /\ worker \in Agents \cup {NoAgent}
    /\ route = "waiting" => worker \in Agents
    /\ ran \in Seq(Agents)

Visited == IF route = "waiting" THEN worker ELSE route

(* In a fresh turn the slots are those of the agents that ran; an agent is  *)
(* the first, or next in the pipeline.                                      *)
SlotsTellWhoRan == fresh => \A a \in Agents : a \in filled <=> \E i \in 1..Len(ran) : ran[i] = a

NextFits(a) == ran = <<>> \/ (Leads(ran) /\ Len(ran) < Len(Order) /\ a = Order[Len(ran) + 1])

PipelineIsFollowed ==
    team.ordered /\ fresh /\ IsInjective(Order) /\ InPipeline(ran) =>
        /\ Leads(ran) \/ Len(ran) = 1
        /\ Visited \in Agents => NextFits(Visited) \/ Visited \notin Range(Order)

TeamInv == TeamTypeOK /\ SlotsTellWhoRan /\ PipelineIsFollowed

(* The least of a set of natural numbers.                                   *)
LEMMA LeastNumber ==
    ASSUME NEW S \in SUBSET Nat, S # {}
    PROVE  Min(S) \in S /\ \A n \in S : Min(S) <= n
<1>1. PICK R : R = OpToRel(<, Nat)
  OBVIOUS
<1>2. IsWellFoundedOn(R, Nat)
  BY <1>1, NatLessThanWellFounded
<1>3. PICK m \in S : \A n \in S : ~(<<n, m>> \in R)
  BY <1>2, WFMin
<1>4. R = {pair \in Nat \X Nat : pair[1] < pair[2]}
  BY <1>1 DEF OpToRel
<1>5. \A n \in S : ~(n < m)
  BY <1>3, <1>4
<1>6. \A n \in S : m <= n
  BY <1>3, <1>5
<1> QED
  BY <1>6 DEF Min

LEMMA PipelineFacts ==
    /\ Order \in Seq(Agents) /\ Len(Order) \in Nat /\ Len(Order) > 0
    /\ DOMAIN Order = 1..Len(Order)
    /\ Range(Order) \subseteq Agents
    /\ Order[1] \in Range(Order)
    /\ "idle" \notin Agents /\ "deciding" \notin Agents /\ "waiting" \notin Agents
    /\ TeamFinish \notin Agents /\ NoAgent \notin Agents /\ NoAgent # TeamFinish
<1>1. /\ Order \in Seq(Agents) /\ Order # <<>>
      /\ "idle" \notin Agents /\ "deciding" \notin Agents /\ "waiting" \notin Agents
      /\ TeamFinish \notin Agents /\ NoAgent \notin Agents /\ NoAgent # TeamFinish
  BY TeamAssumption
<1>2. Len(Order) \in Nat /\ DOMAIN Order = 1..Len(Order) /\ Len(Order) > 0
  BY <1>1
<1>3. \A i \in 1..Len(Order) : Order[i] \in Agents
  BY <1>1
<1> QED
  BY <1>1, <1>2, <1>3 DEF Range

(* The pipeline's next agent is the first whose slot is empty.              *)
LEMMA FirstOpen ==
    \/ NextInOrder = TeamFinish /\ Range(Order) \subseteq filled
    \/ \E i \in 1..Len(Order) :
          /\ NextInOrder = Order[i] /\ Order[i] \notin filled
          /\ \A j \in 1..Len(Order) : Order[j] \notin filled => i <= j
<1>0. PICK open : open = {i \in DOMAIN Order : Order[i] \notin filled}
  OBVIOUS
<1>1. open \in SUBSET Nat /\ \A i : i \in open <=> i \in 1..Len(Order) /\ Order[i] \notin filled
  BY <1>0, PipelineFacts
<1>2. CASE open = {}
  <2>1. NextInOrder = TeamFinish
    BY <1>0, <1>2 DEF NextInOrder
  <2> QED
    BY <1>1, <1>2, <2>1, PipelineFacts DEF Range
<1>3. CASE open # {}
  <2>1. NextInOrder = Order[Min(open)]
    BY <1>0, <1>3 DEF NextInOrder
  <2>2. Min(open) \in open /\ \A j \in open : Min(open) <= j
    BY <1>1, <1>3, LeastNumber
  <2>3. PICK i \in open : i = Min(open)
    BY <2>2
  <2> QED
    BY <1>1, <2>1, <2>2, <2>3, PipelineFacts
<1> QED
  BY <1>2, <1>3

(* What the guards make of a word.                                          *)
LEMMA WordIsResolved ==
    ASSUME TeamTypeOK, NEW word \in Agents \cup {TeamFinish, NoAgent}
    PROVE  \/ Resolve(word) = TeamFinish
           \/ /\ team.ordered
              /\ Order[1] \in filled
              /\ Resolve(word) = NextInOrder
           \/ /\ team.ordered
              /\ Range(Order) \cap filled = {}
              /\ Resolve(word) \in Agents
           \/ /\ ~team.ordered
              /\ Resolve(word) \in Agents
              /\ Resolve(word) \in filled =>
                    Resolve(word) = team.fallback /\ team.done \cap filled = {}
<1>0. team.fallback \in Agents \cup {NoAgent}
  BY DEF TeamTypeOK, Teams
<1>1. CASE Done
  BY <1>1 DEF Resolve
<1>2. CASE ~Done /\ team.ordered /\ ChainRoute # NoAgent
  <2>1. Resolve(word) = ChainRoute
    BY <1>2 DEF Resolve
  <2>2. CASE Order[1] \in filled
    BY <1>2, <2>1, <2>2 DEF ChainRoute
  <2>3. CASE Order[1] \notin filled
    BY <1>2, <2>1, <2>3 DEF ChainRoute
  <2> QED
    BY <2>2, <2>3
<1>3. PICK proposal \in Agents \cup {TeamFinish} :
         proposal = IF word = NoAgent THEN TeamFinish ELSE word
  OBVIOUS
<1>4. CASE ~Done /\ team.ordered /\ ChainRoute = NoAgent
  <2>1. Resolve(word) = Entry(proposal)
    BY <1>3, <1>4 DEF Resolve
  <2>2. Entry(proposal) \in Agents
    BY <1>0, <1>3, PipelineFacts DEF Entry
  <2>3. CASE Order[1] \in filled
    <3>1. ChainRoute = NextInOrder
      BY <1>4, <2>3 DEF ChainRoute
    <3>2. NextInOrder # NoAgent
      BY FirstOpen, PipelineFacts
    <3> QED
      BY <1>4, <3>1, <3>2
  <2>4. CASE Order[1] \notin filled
    <3>1. Range(Order) \cap filled = {}
      BY <1>4, <2>4, PipelineFacts DEF ChainRoute
    <3> QED
      BY <1>4, <2>1, <2>2, <3>1
  <2> QED
    BY <2>3, <2>4
<1>5. CASE ~Done /\ ~team.ordered
  <2>1. Resolve(word) = Guarded(proposal)
    BY <1>3, <1>5 DEF Resolve
  <2>2. CASE proposal = TeamFinish /\ team.fallback # NoAgent /\ team.done \cap filled = {}
    <3>1. Guarded(proposal) = team.fallback
      BY <2>2 DEF Guarded
    <3> QED
      BY <1>0, <1>5, <2>1, <2>2, <3>1
  <2>3. CASE ~(proposal = TeamFinish /\ team.fallback # NoAgent /\ team.done \cap filled = {})
    <3>1. Guarded(proposal) = IF proposal \in filled THEN TeamFinish ELSE proposal
      BY <2>3 DEF Guarded
    <3> QED
      BY <1>3, <1>5, <2>1, <3>1
  <2> QED
    BY <2>2, <2>3
<1> QED
  BY <1>1, <1>2, <1>4, <1>5

(* A decision is a word that was resolved, or the forced finish.            *)
LEMMA DecisionIsResolved ==
    ASSUME TeamTypeOK, Decide
    PROVE  /\ route = "deciding" /\ rounds' = rounds + 1
           /\ UNCHANGED <<team, turns, filled, worker, ran, fresh>>
           /\ \/ route' = "idle"
              \/ \E word \in Agents \cup {TeamFinish, NoAgent} :
                    Resolve(word) # TeamFinish /\ route' = Resolve(word)
           /\ rounds' < MaxRounds =>
                 \E word \in Agents \cup {TeamFinish, NoAgent} :
                    route' = IF Resolve(word) = TeamFinish THEN "idle" ELSE Resolve(word)
<1>1. MaxRounds \in Nat /\ rounds \in Nat
  BY TeamAssumption DEF TeamTypeOK
<1>2. CASE ForceFinish
  BY <1>1, <1>2 DEF ForceFinish, Take, CountRound
<1>3. CASE DecideAlone
  BY <1>3 DEF DecideAlone, Take, CountRound
<1>4. CASE DecideWithModel
  BY <1>4 DEF DecideWithModel, Take, CountRound
<1> QED
  BY <1>2, <1>3, <1>4 DEF Decide

(* Agents that ran first in the pipeline have filled its first slots.       *)
LEMMA NextAfterLead ==
    ASSUME TeamTypeOK, SlotsTellWhoRan, fresh, IsInjective(Order), InPipeline(ran), Leads(ran) \/ Len(ran) = 1,
           Order[1] \in filled, NextInOrder \in Agents
    PROVE  NextFits(NextInOrder)
<1>1. PICK k \in Nat : k = Len(ran)
  BY DEF TeamTypeOK
<1>2. \A i, j \in 1..Len(Order) : Order[i] = Order[j] => i = j
  BY PipelineFacts DEF IsInjective
<1>3. PICK first \in 1..k : ran[first] = Order[1]
  BY <1>1, PipelineFacts DEF SlotsTellWhoRan
<1>4. Leads(ran)
  <2>1. CASE Len(ran) = 1
    <3>1. first = 1 /\ ran[1] = Order[1]
      BY <1>1, <1>3, <2>1
    <3> QED
      BY <2>1, <3>1, PipelineFacts DEF Leads
  <2> QED
    BY <2>1
<1>5. k <= Len(Order) /\ \A i \in 1..k : ran[i] = Order[i]
  BY <1>1, <1>4 DEF Leads
<1>6. \A j \in 1..Len(Order) : Order[j] \in filled <=> j <= k
  <2> SUFFICES ASSUME NEW j \in 1..Len(Order) PROVE Order[j] \in filled <=> j <= k
    OBVIOUS
  <2>1. Order[j] \in Agents
    BY PipelineFacts
  <2>2. Order[j] \in filled <=> \E i \in 1..k : ran[i] = Order[j]
    BY <1>1, <2>1 DEF SlotsTellWhoRan
  <2>3. ASSUME NEW i \in 1..k, ran[i] = Order[j] PROVE j <= k
    <3>1. i \in 1..Len(Order) /\ Order[i] = Order[j]
      BY <1>5, <2>3, PipelineFacts
    <3> QED
      BY <1>2, <3>1
  <2>4. ASSUME j <= k PROVE ran[j] = Order[j] /\ j \in 1..k
    BY <1>5, <2>4, PipelineFacts
  <2> QED
    BY <2>2, <2>3, <2>4
<1>7. PICK i \in 1..Len(Order) : /\ NextInOrder = Order[i] /\ Order[i] \notin filled
                                 /\ \A j \in 1..Len(Order) : Order[j] \notin filled => i <= j
  BY FirstOpen, PipelineFacts
<1>8. i > k
  BY <1>1, <1>6, <1>7, PipelineFacts
<1>9. k + 1 \in 1..Len(Order)
  BY <1>8, PipelineFacts
<1>10. i <= k + 1
  BY <1>6, <1>7, <1>9
<1>11. i = k + 1 /\ k < Len(Order)
  BY <1>8, <1>9, <1>10, PipelineFacts
<1> QED
  BY <1>1, <1>4, <1>7, <1>11 DEF NextFits

-----------------------------------------------------------------------------
LEMMA TeamInitInv == ASSUME TeamInit PROVE TeamInv
<1>1. TeamTypeOK
  BY PipelineFacts, TeamAssumption DEF TeamInit, TeamTypeOK
<1>2. ran = <<>> /\ filled = {} /\ route = "idle" /\ Len(ran) = 0
  BY DEF TeamInit
<1>3. SlotsTellWhoRan
  BY <1>2 DEF SlotsTellWhoRan
<1>4. PipelineIsFollowed
  BY <1>2, PipelineFacts DEF PipelineIsFollowed, Leads, Visited
<1> QED
  BY <1>1, <1>3, <1>4 DEF TeamInv

LEMMA HearMessageInv == ASSUME TeamInv, HearMessage PROVE TeamInv'
<1>0. TeamTypeOK
  BY DEF TeamInv
<1>1. /\ route' = "deciding" /\ ran' = <<>> /\ Len(ran') = 0
      /\ fresh' => filled' = {}
      /\ filled' = {} \/ filled' = filled
      /\ rounds' = 0 \/ rounds' = rounds
      /\ UNCHANGED <<team, worker>>
  BY DEF HearMessage
<1>2. TeamTypeOK'
  BY <1>0, <1>1 DEF TeamTypeOK
<1>3. SlotsTellWhoRan'
  BY <1>1 DEF SlotsTellWhoRan
<1>4. PipelineIsFollowed'
  BY <1>1, PipelineFacts DEF PipelineIsFollowed, Leads, Visited
<1> QED
  BY <1>2, <1>3, <1>4 DEF TeamInv

(* A resolved word goes to the next of the pipeline, or to its entry.       *)
LEMMA RouteFits ==
    ASSUME TeamInv, team.ordered, fresh, IsInjective(Order), InPipeline(ran),
           NEW word \in Agents \cup {TeamFinish, NoAgent}, Resolve(word) \in Agents
    PROVE  NextFits(Resolve(word)) \/ Resolve(word) \notin Range(Order)
<1>0. TeamTypeOK /\ SlotsTellWhoRan /\ PipelineIsFollowed
  BY DEF TeamInv
<1>1. Leads(ran) \/ Len(ran) = 1
  BY <1>0 DEF PipelineIsFollowed
<1>2. CASE Order[1] \in filled /\ Resolve(word) = NextInOrder
  BY <1>0, <1>1, <1>2, NextAfterLead
<1>3. CASE Range(Order) \cap filled = {}
  <2>1. PICK k \in Nat : k = Len(ran)
    BY <1>0 DEF TeamTypeOK
  <2>2. ASSUME k > 0 PROVE FALSE
    <3>1. 1 \in 1..k /\ ran[1] \in Range(Order)
      BY <2>1, <2>2 DEF InPipeline
    <3>2. ran[1] \in Agents
      BY <3>1, PipelineFacts
    <3>3. ran[1] \in filled
      BY <1>0, <2>1, <3>1, <3>2 DEF SlotsTellWhoRan
    <3> QED
      BY <1>3, <3>1, <3>3
  <2>3. ran = <<>>
    BY <1>0, <2>1, <2>2 DEF TeamTypeOK
  <2> QED
    BY <2>3 DEF NextFits
<1> QED
  BY <1>0, <1>2, <1>3, WordIsResolved, PipelineFacts

LEMMA DecideInv == ASSUME TeamInv, Decide PROVE TeamInv'
<1>0. TeamTypeOK /\ SlotsTellWhoRan /\ PipelineIsFollowed
  BY DEF TeamInv
<1>1. /\ route = "deciding" /\ rounds' = rounds + 1
      /\ UNCHANGED <<team, turns, filled, worker, ran, fresh>>
      /\ \/ route' = "idle"
         \/ \E word \in Agents \cup {TeamFinish, NoAgent} :
               Resolve(word) # TeamFinish /\ route' = Resolve(word)
  BY <1>0, DecisionIsResolved
<1>2. route' \in Agents \cup {"idle"}
  <2>1. ASSUME NEW word \in Agents \cup {TeamFinish, NoAgent}, Resolve(word) # TeamFinish
        PROVE  Resolve(word) \in Agents
    <3>1. NextInOrder \in Agents \cup {TeamFinish}
      BY FirstOpen, PipelineFacts
    <3> QED
      BY <1>0, <2>1, <3>1, WordIsResolved
  <2> QED
    BY <1>1, <2>1
<1>3. TeamTypeOK'
  <2>1. rounds' \in Nat
    BY <1>0, <1>1 DEF TeamTypeOK
  <2> QED
    BY <1>0, <1>1, <1>2, <2>1, PipelineFacts DEF TeamTypeOK
<1>4. SlotsTellWhoRan'
  BY <1>0, <1>1 DEF SlotsTellWhoRan
<1>5. PipelineIsFollowed'
  <2> SUFFICES ASSUME team.ordered, fresh, IsInjective(Order), InPipeline(ran)
               PROVE  /\ Leads(ran) \/ Len(ran) = 1
                      /\ route' \in Agents => NextFits(route') \/ route' \notin Range(Order)
    BY <1>1, <1>2, PipelineFacts DEF PipelineIsFollowed, Visited, InPipeline, Leads, NextFits
  <2>1. Leads(ran) \/ Len(ran) = 1
    BY <1>0 DEF PipelineIsFollowed
  <2>2. ASSUME route' \in Agents PROVE NextFits(route') \/ route' \notin Range(Order)
    <3>1. PICK word \in Agents \cup {TeamFinish, NoAgent} : route' = Resolve(word)
      BY <1>1, <2>2, PipelineFacts
    <3> QED
      BY <2>2, <3>1, RouteFits
  <2> QED
    BY <2>1, <2>2
<1> QED
  BY <1>3, <1>4, <1>5 DEF TeamInv

LEMMA TurnFailsInv == ASSUME TeamInv, TurnFails PROVE TeamInv'
<1>0. TeamTypeOK /\ SlotsTellWhoRan /\ PipelineIsFollowed
  BY DEF TeamInv
<1>1. /\ route' = "idle" /\ worker' = NoAgent
      /\ UNCHANGED <<team, turns, filled, rounds, ran, fresh>>
  BY DEF TurnFails
<1>2. TeamTypeOK'
  BY <1>0, <1>1 DEF TeamTypeOK
<1>3. SlotsTellWhoRan'
  BY <1>0, <1>1 DEF SlotsTellWhoRan
<1>4. PipelineIsFollowed'
  BY <1>0, <1>1, PipelineFacts DEF PipelineIsFollowed, Leads, InPipeline, Visited
<1> QED
  BY <1>2, <1>3, <1>4 DEF TeamInv

LEMMA AgentRepliesInv == ASSUME TeamInv, AgentReplies PROVE TeamInv'
<1>0. TeamTypeOK /\ SlotsTellWhoRan /\ PipelineIsFollowed
  BY DEF TeamInv
<1>1. PICK answered \in BOOLEAN :
         /\ filled' = Cleared(route) \cup (IF answered THEN {route} ELSE {})
         /\ fresh' = (fresh /\ answered)
  BY DEF AgentReplies
<1>2. /\ route \in Agents /\ ran' = Append(ran, route)
      /\ route' = "deciding" /\ worker' = NoAgent
      /\ UNCHANGED <<team, turns, rounds>>
  BY DEF AgentReplies
<1>3. PICK k \in Nat : k = Len(ran)
  BY <1>0 DEF TeamTypeOK
<1>4. PICK agent \in Agents : agent = route
  BY <1>2
<1>5. /\ Len(ran') = k + 1 /\ ran' \in Seq(Agents)
      /\ ran'[k + 1] = agent /\ \A i \in 1..k : ran'[i] = ran[i]
  BY <1>0, <1>2, <1>3, <1>4 DEF TeamTypeOK
<1>6. filled' \in SUBSET Agents
  BY <1>0, <1>1, <1>2 DEF TeamTypeOK, Cleared
<1>7. TeamTypeOK'
  BY <1>0, <1>2, <1>5, <1>6 DEF TeamTypeOK
<1>8. fresh' => fresh /\ filled' = filled \cup {agent}
  BY <1>1, <1>4 DEF Cleared
<1>9. SlotsTellWhoRan'
  <2> SUFFICES ASSUME fresh', NEW a \in Agents
               PROVE  a \in filled' <=> \E i \in 1..(k + 1) : ran'[i] = a
    BY <1>5 DEF SlotsTellWhoRan
  <2>1. a \in filled <=> \E i \in 1..k : ran[i] = a
    BY <1>0, <1>3, <1>8 DEF SlotsTellWhoRan
  <2>2. a \in filled' <=> a \in filled \/ a = agent
    BY <1>8
  <2>3. \A i \in 1..(k + 1) : i \in 1..k \/ i = k + 1
    BY <1>3
  <2>4. 1..k \subseteq 1..(k + 1) /\ k + 1 \in 1..(k + 1)
    BY <1>3
  <2> QED
    BY <1>5, <2>1, <2>2, <2>3, <2>4
<1>10. PipelineIsFollowed'
  <2>0. Visited' \notin Agents
    BY <1>2, PipelineFacts DEF Visited
  <2> SUFFICES ASSUME team.ordered, fresh', IsInjective(Order), InPipeline(ran')
               PROVE  Leads(ran') \/ Len(ran') = 1
    BY <1>2, <2>0 DEF PipelineIsFollowed, InPipeline, Leads
  <2>1. InPipeline(ran) /\ agent \in Range(Order)
    <3>1. 1..k \subseteq 1..(k + 1) /\ k + 1 \in 1..(k + 1)
      BY <1>3
    <3> QED
      BY <1>3, <1>5, <3>1 DEF InPipeline
  <2>2. Visited = agent
    BY <1>4, PipelineFacts DEF Visited
  <2>3. NextFits(agent)
    BY <1>0, <1>8, <2>1, <2>2 DEF PipelineIsFollowed
  <2>4. CASE ran = <<>>
    BY <1>3, <1>5, <2>4
  <2>5. CASE Leads(ran) /\ Len(ran) < Len(Order) /\ agent = Order[Len(ran) + 1]
    <3>1. k + 1 <= Len(Order) /\ \A i \in 1..k : ran[i] = Order[i]
      BY <1>3, <2>5, PipelineFacts DEF Leads
    <3>2. \A i \in 1..(k + 1) : i \in 1..k \/ i = k + 1
      BY <1>3
    <3>3. \A i \in 1..(k + 1) : ran'[i] = Order[i]
      BY <1>3, <1>5, <2>5, <3>1, <3>2
    <3> QED
      BY <1>5, <3>1, <3>3 DEF Leads
  <2> QED
    BY <2>3, <2>4, <2>5 DEF NextFits
<1> QED
  BY <1>7, <1>9, <1>10 DEF TeamInv

LEMMA OperatorInv == ASSUME TeamInv, AgentAsks \/ OperatorAnswers PROVE TeamInv'
<1>0. TeamTypeOK /\ SlotsTellWhoRan /\ PipelineIsFollowed
  BY DEF TeamInv
<1>1. UNCHANGED <<team, turns, filled, rounds, ran, fresh>>
  BY DEF AgentAsks, OperatorAnswers
<1>2. \/ route \in Agents /\ route' = "waiting" /\ worker' = route
      \/ route = "waiting" /\ route' = worker /\ worker' = worker
  BY DEF AgentAsks, OperatorAnswers
<1>3. route' \in Agents \cup {"waiting"} /\ worker' \in Agents /\ Visited' = Visited
  BY <1>0, <1>2, PipelineFacts DEF TeamTypeOK, Visited
<1>4. TeamTypeOK'
  BY <1>0, <1>1, <1>3 DEF TeamTypeOK
<1>5. SlotsTellWhoRan'
  BY <1>0, <1>1 DEF SlotsTellWhoRan
<1>6. PipelineIsFollowed'
  BY <1>0, <1>1, <1>3 DEF PipelineIsFollowed, Leads, InPipeline, NextFits
<1> QED
  BY <1>4, <1>5, <1>6 DEF TeamInv

LEMMA TeamStaysInv == TeamSpec => []TeamInv
<1>1. ASSUME TeamInv, UNCHANGED teamVars PROVE TeamInv'
  BY <1>1 DEF teamVars, TeamInv, TeamTypeOK, SlotsTellWhoRan, PipelineIsFollowed, Leads,
     InPipeline, Visited, NextFits
<1>2. ASSUME TeamInv, [TeamNext]_teamVars PROVE TeamInv'
  BY <1>1, <1>2, HearMessageInv, DecideInv, TurnFailsInv, AgentRepliesInv, OperatorInv
     DEF TeamNext
<1> QED
  BY <1>2, TeamInitInv, PTL DEF TeamSpec

(* A turn of a team with a fallback that begins afresh ends only after an   *)
(* agent has run, whatever word the model replies to Supervisor.decide: the *)
(* guards turn a finish into the fallback while no slot is filled.          *)
THEOREM FreshTurnsAreServed == TeamSpec => EveryTurnIsServed
<1>1. ASSUME TeamInv, Decide, route' = "idle", fresh, team.fallback # NoAgent,
             rounds' < MaxRounds, ran = <<>>
      PROVE  FALSE
  <2>0. TeamTypeOK /\ SlotsTellWhoRan
    BY <1>1 DEF TeamInv
  <2>1. Len(ran) = 0 /\ \A a \in Agents : a \notin filled
    BY <1>1, <2>0 DEF SlotsTellWhoRan
  <2>2. filled = {}
    BY <2>0, <2>1 DEF TeamTypeOK
  <2>3. PICK word \in Agents \cup {TeamFinish, NoAgent} :
           route' = IF Resolve(word) = TeamFinish THEN "idle" ELSE Resolve(word)
    BY <1>1, <2>0, DecisionIsResolved
  <2>4. NextInOrder \in Agents \cup {TeamFinish}
    BY FirstOpen, PipelineFacts
  <2>5. Resolve(word) = TeamFinish
    BY <1>1, <2>0, <2>3, <2>4, WordIsResolved, PipelineFacts
  <2>6. ~Done
    BY <2>2 DEF Done
  <2>7. CASE team.ordered
    <3>1. ChainRoute = NoAgent
      BY <2>2, <2>7 DEF ChainRoute
    <3>2. Resolve(word) = Entry(IF word = NoAgent THEN TeamFinish ELSE word)
      BY <2>6, <2>7, <3>1 DEF Resolve
    <3> QED
      BY <1>1, <2>0, <2>5, <3>2, PipelineFacts DEF Entry, TeamTypeOK, Teams
  <2>8. CASE ~team.ordered
    <3>1. Resolve(word) = Guarded(IF word = NoAgent THEN TeamFinish ELSE word)
      BY <2>6, <2>8 DEF Resolve
    <3> QED
      BY <1>1, <2>0, <2>2, <2>5, <3>1, PipelineFacts DEF Guarded, TeamTypeOK, Teams
  <2> QED
    BY <2>7, <2>8
<1>2. ASSUME TeamInv
      PROVE  Decide /\ route' = "idle" /\ fresh /\ team.fallback # NoAgent /\ rounds' < MaxRounds
               => ran # <<>>
  BY <1>1, <1>2
<1> QED
  BY <1>2, TeamStaysInv, PTL DEF EveryTurnIsServed

(* Supervisor.decide does not route to an agent whose slot is filled, but   *)
(* for the fallback before any done key is filled and for agents outside    *)
(* the pipeline.                                                            *)
THEOREM RoutesSpareFinishedWork == TeamSpec => FinishedWorkIsKept
<1>1. ASSUME TeamInv, TeamNext, route = "deciding", route' \in filled
      PROVE  \/ route' = team.fallback /\ team.done \cap filled = {}
             \/ team.ordered /\ route' \notin Range(Order)
  <2>0. TeamTypeOK
    BY <1>1 DEF TeamInv
  <2>1. route' \in Agents
    BY <1>1, <2>0 DEF TeamTypeOK
  <2>2. Decide
    BY <1>1, <2>1, PipelineFacts
       DEF TeamNext, HearMessage, TurnFails, AgentReplies, AgentAsks, OperatorAnswers
  <2>3. PICK word \in Agents \cup {TeamFinish, NoAgent} :
           Resolve(word) # TeamFinish /\ route' = Resolve(word)
    BY <2>0, <2>1, <2>2, DecisionIsResolved, PipelineFacts
  <2>4. NextInOrder \notin filled
    <3>1. TeamFinish \notin filled
      BY <2>0, PipelineFacts DEF TeamTypeOK
    <3> QED
      BY <3>1, FirstOpen
  <2> QED
    BY <1>1, <2>0, <2>3, <2>4, WordIsResolved
<1>2. ASSUME TeamInv, [TeamNext]_teamVars
      PROVE  [route = "deciding" /\ route' \in filled =>
                \/ route' = team.fallback /\ team.done \cap filled = {}
                \/ team.ordered /\ route' \notin Range(Order)]_teamVars
  BY <1>1, <1>2
<1> QED
  BY <1>2, TeamStaysInv, PTL DEF TeamSpec, FinishedWorkIsKept

(* A pipeline whose agents all answer runs in its order from the entry, or  *)
(* one agent from its middle alone, as _chain_route documents: in a fresh   *)
(* turn the filled slots are those of a prefix of the pipeline.             *)
THEOREM PipelinesRunInOrder == TeamSpec => []PipelineInOrder
<1>1. ASSUME TeamInv, team.ordered, fresh, IsInjective(Order),
             Range(ran) \subseteq Range(Order)
      PROVE  IsPrefix(ran, Order) \/ Len(ran) = 1
  <2>0. TeamTypeOK /\ PipelineIsFollowed
    BY <1>1 DEF TeamInv
  <2>1. Len(ran) \in Nat /\ DOMAIN ran = 1..Len(ran)
    BY <2>0 DEF TeamTypeOK
  <2>2. InPipeline(ran)
    BY <1>1, <2>1 DEF InPipeline, Range
  <2>3. Leads(ran) \/ Len(ran) = 1
    BY <1>1, <2>0, <2>2 DEF PipelineIsFollowed
  <2>4. ASSUME Leads(ran) PROVE IsPrefix(ran, Order)
    BY <2>1, <2>4, PipelineFacts DEF Leads, IsPrefix
  <2> QED
    BY <2>3, <2>4
<1>2. TeamInv => PipelineInOrder
  BY <1>1 DEF PipelineInOrder
<1> QED
  BY <1>2, TeamStaysInv, PTL
===============================================================================
