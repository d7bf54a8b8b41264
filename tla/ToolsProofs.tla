------------------------------ MODULE ToolsProofs ------------------------------
(***************************************************************************)
(* Proofs about the tools that share something: the ticks of several       *)
(* processes their store (SharedTools), the runs of a graph the            *)
(* connections of its MCP servers (McpServers), the processes of a         *)
(* scaffold its catalog of documents (DocumentCatalog), sub-agents the     *)
(* state of the workflow (SubAgents), and agents their memory              *)
(* (MemoryNotes).                                                          *)
(***************************************************************************)
EXTENDS SharedTools, McpServers, DocumentCatalog, SubAgents, MemoryNotes,
        FiniteSetTheorems, WellFoundedInduction, TLAPS

-----------------------------------------------------------------------------
(* Ticks that share a store.                                               *)

TickState == [pc : Inside \cup {"idle"}, condition : {"url", "redis_key"}, async : BOOLEAN,
              polls : Nat, saw : BOOLEAN, leased : BOOLEAN]

SharedTypeOK ==
  /\ store \in [holder : {None} \cup {TokenOf[t] : t \in Ticks}, alerted : BOOLEAN,
                flag : BOOLEAN]
  /\ site \in BOOLEAN
  /\ tick \in [Ticks -> TickState]
  /\ alerts \in Nat

Within(t) == tick[t].pc \in Inside

(* Until a lease runs out the lock has one tick inside, on its lease, ...   *)
OneInside ==
  ~overrun => /\ \A t \in Ticks : Within(t) => tick[t].leased
              /\ \A t, u \in Ticks : Within(t) /\ Within(u) => t = u

(* ... so that the mark is as it was when it was looked for.                *)
MarkIsTrue ==
  ~overrun => /\ store.alerted => alerts = 1
              /\ ~store.alerted => alerts = 0
              /\ \A t \in Ticks : tick[t].pc = "alerting" => ~store.alerted

SharedInv ==
  SharedTypeOK /\ LeasedTickIsAlone /\ MetMeansSeenInSync /\ OneInside /\ MarkIsTrue

LEMMA LeaseEnds ==
  ASSUME NEW ticking \in TickState
  PROVE  [ticking EXCEPT !.leased = FALSE] \in TickState
BY DEF TickState

LEMMA SharedInitInv == SharedInit => SharedInv
<1> SUFFICES ASSUME SharedInit
             PROVE  SharedInv
  OBVIOUS
<1> USE DEF SharedInit
<1>1. NewTick \in TickState /\ NewTick.pc = "idle"
  BY DEF NewTick, TickState
<1>2. SharedTypeOK
  BY <1>1 DEF SharedTypeOK
<1>3. \A t \in Ticks : tick[t].pc = "idle"
  BY <1>1
<1>4. LeasedTickIsAlone /\ MetMeansSeenInSync /\ OneInside
  BY <1>3 DEF LeasedTickIsAlone, MetMeansSeenInSync, OneInside, Within, Inside
<1>5. MarkIsTrue
  BY <1>3 DEF MarkIsTrue
<1> QED
  BY <1>2, <1>4, <1>5 DEF SharedInv

(* A step of one tick that neither sends an alert nor touches the lock: it  *)
(* goes on inside, or leaves the lock behind after its lease ran out.       *)
LEMMA StepInside ==
  ASSUME SharedInv, NEW t \in Ticks, NEW new \in TickState,
         tick' = [tick EXCEPT ![t] = new], UNCHANGED <<store, site, alerts, overrun>>,
         Within(t),
         \/ new.pc \in Inside /\ new.leased = tick[t].leased
         \/ new.pc = "idle" /\ ~Holds(t),
         new.pc = "alerting" => ~store.alerted,
         new.pc = "renewing" /\ ~(new.condition = "url" /\ new.async) => new.saw
  PROVE  SharedInv'
<1> USE DEF SharedInv
<1>1. tick'[t] = new /\ \A u \in Ticks : u # t => tick'[u] = tick[u]
  BY DEF SharedTypeOK
<1>2. store' = store /\ site' = site /\ alerts' = alerts /\ overrun' = overrun
  OBVIOUS
<1>3. SharedTypeOK'
  BY <1>2 DEF SharedTypeOK
<1>4. \A u \in Ticks : Holds(u)' <=> Holds(u)
  BY <1>2 DEF Holds
<1>5. LeasedTickIsAlone'
  BY <1>1, <1>4 DEF LeasedTickIsAlone, Within, Inside
<1>6. MetMeansSeenInSync'
  BY <1>1 DEF MetMeansSeenInSync
<1>7. \A u \in Ticks : Within(u)' => Within(u)
  BY <1>1 DEF Within
<1>8. OneInside'
  BY <1>1, <1>2, <1>7 DEF OneInside, Within, Inside
<1>9. MarkIsTrue'
  BY <1>1, <1>2 DEF MarkIsTrue
<1> QED
  BY <1>3, <1>5, <1>6, <1>8, <1>9

LEMMA TickFields ==
  ASSUME NEW s \in TickState
  PROVE  /\ s.condition \in {"url", "redis_key"} /\ s.polls \in Nat
         /\ s.async \in BOOLEAN /\ s.saw \in BOOLEAN /\ s.leased \in BOOLEAN
  BY DEF TickState

LEMMA AcquireKeeps ==
  ASSUME SharedInv, NEW t \in Ticks, Acquire(t)
  PROVE  SharedInv'
<1> USE DEF SharedInv
<1>0. site' = site /\ alerts' = alerts /\ overrun' = overrun
  BY DEF Acquire
<1>1. CASE store.holder = None
  <2>1. PICK condition \in Conditions, async \in BOOLEAN :
          /\ store' = [store EXCEPT !.holder = TokenOf[t]]
          /\ tick' = [tick EXCEPT ![t] = [NewTick EXCEPT !.pc = "waiting",
                        !.condition = condition, !.async = async, !.leased = TRUE]]
    BY <1>1 DEF Acquire
  <2>2. PICK new : new = [NewTick EXCEPT !.pc = "waiting",
                        !.condition = condition, !.async = async, !.leased = TRUE]
    OBVIOUS
  <2>3. new \in TickState
    BY <2>2, SharedAssumption DEF NewTick, TickState, Inside, SharedAssumption
  <2>4. new.pc = "waiting"
    BY <2>2 DEF NewTick
  <2>5. new.leased
    BY <2>2 DEF NewTick
  <2>6. tick'[t] = new /\ \A u \in Ticks : u # t => tick'[u] = tick[u]
    BY <2>1, <2>2 DEF SharedTypeOK
  <2>7. store'.holder = TokenOf[t] /\ Holds(t)'
    BY <2>1 DEF SharedTypeOK, Holds
  <2>8. store'.alerted = store.alerted
    BY <2>1 DEF SharedTypeOK
  <2>9. SharedTypeOK'
    BY <1>0, <2>1, <2>2, <2>3 DEF SharedTypeOK
  <2>10. ASSUME NEW u \in Ticks, Within(u), tick[u].leased
         PROVE  FALSE
    BY <1>1, <2>10, SharedAssumption DEF LeasedTickIsAlone, Within, Holds, SharedAssumption
  <2>11. LeasedTickIsAlone'
    BY <2>6, <2>7, <2>10 DEF LeasedTickIsAlone, Within
  <2>12. MetMeansSeenInSync'
    BY <2>4, <2>6 DEF MetMeansSeenInSync
  <2>13. OneInside'
    BY <1>0, <2>5, <2>6, <2>10 DEF OneInside, Within
  <2>14. MarkIsTrue'
    BY <1>0, <2>4, <2>6, <2>8 DEF MarkIsTrue
  <2> QED
    BY <2>9, <2>11, <2>12, <2>13, <2>14
<1>2. CASE store.holder # None
  <2>1. store' = store /\ tick' = tick
    BY <1>2 DEF Acquire
  <2> QED
    BY <1>0, <2>1 DEF SharedTypeOK, LeasedTickIsAlone, MetMeansSeenInSync, OneInside,
                      MarkIsTrue, Holds, Within
<1> QED
  BY <1>1, <1>2

LEMMA ReleaseKeeps ==
  ASSUME SharedInv, NEW t \in Ticks, Release(t)
  PROVE  SharedInv'
<1> USE DEF SharedInv
<1>1. site' = site /\ alerts' = alerts /\ overrun' = overrun /\ tick[t].pc = "releasing"
  BY DEF Release
<1>2. store' = IF Holds(t) THEN [store EXCEPT !.holder = None] ELSE store
  BY DEF Release
<1>3. tick' = [u \in Ticks |-> IF u = t THEN NewTick
                               ELSE IF Holds(t) /\ Holds(u)
                               THEN [tick[u] EXCEPT !.leased = FALSE] ELSE tick[u]]
  BY DEF Release
<1>4. NewTick \in TickState /\ NewTick.pc = "idle"
  BY DEF NewTick, TickState
<1>5. \A u \in Ticks : [tick[u] EXCEPT !.leased = FALSE] \in TickState
  BY LeaseEnds DEF SharedTypeOK
<1>6. tick' \in [Ticks -> TickState]
  BY <1>3, <1>4, <1>5 DEF SharedTypeOK
<1>7. tick'[t].pc = "idle"
  BY <1>3, <1>4
<1>8. ASSUME NEW u \in Ticks, u # t
      PROVE  /\ tick'[u].pc = tick[u].pc /\ tick'[u].condition = tick[u].condition
             /\ tick'[u].async = tick[u].async /\ tick'[u].saw = tick[u].saw
  BY <1>3, <1>8 DEF SharedTypeOK, TickState
<1>9. ASSUME NEW u \in Ticks, u # t, tick'[u].leased
      PROVE  tick[u].leased /\ (Holds(u) => ~Holds(t))
  <2>1. CASE Holds(t) /\ Holds(u)
    <3>1. tick'[u] = [tick[u] EXCEPT !.leased = FALSE]
      BY <1>3, <1>9, <2>1
    <3>2. ~tick'[u].leased
      BY <3>1 DEF SharedTypeOK, TickState
    <3> QED
      BY <3>2, <1>9
  <2>2. CASE ~(Holds(t) /\ Holds(u))
    <3>1. tick'[u] = tick[u]
      BY <1>3, <1>9, <2>2
    <3> QED
      BY <3>1, <1>9, <2>2
  <2> QED
    BY <2>1, <2>2
<1>10. /\ store' \in [holder : {None} \cup {TokenOf[u] : u \in Ticks}, alerted : BOOLEAN,
                      flag : BOOLEAN]
       /\ store'.alerted = store.alerted
  BY <1>2 DEF SharedTypeOK
<1>11. SharedTypeOK'
  BY <1>1, <1>6, <1>10 DEF SharedTypeOK
<1>12. LeasedTickIsAlone'
  <2> SUFFICES ASSUME NEW u \in Ticks, tick'[u].pc \in Inside, tick'[u].leased
               PROVE  Holds(u)'
    BY DEF LeasedTickIsAlone
  <2>1. u # t
    BY <1>7 DEF Inside
  <2>2. tick[u].pc \in Inside /\ tick[u].leased /\ (Holds(u) => ~Holds(t))
    BY <2>1, <1>8, <1>9
  <2>3. Holds(u) /\ ~Holds(t)
    BY <2>2 DEF LeasedTickIsAlone
  <2> QED
    BY <2>3, <1>2 DEF Holds
<1>13. MetMeansSeenInSync'
  <2> SUFFICES ASSUME NEW u \in Ticks, tick'[u].pc = "renewing",
                      ~(tick'[u].condition = "url" /\ tick'[u].async)
               PROVE  tick'[u].saw
    BY DEF MetMeansSeenInSync
  <2>1. u # t
    BY <1>7
  <2> QED
    BY <2>1, <1>8 DEF MetMeansSeenInSync
<1>14. OneInside'
  <2> SUFFICES ASSUME ~overrun, NEW u \in Ticks, Within(u)'
               PROVE  FALSE
    BY <1>1 DEF OneInside
  <2>1. u # t
    BY <1>7 DEF Within, Inside
  <2>2. Within(u) /\ Within(t)
    BY <2>1, <1>1, <1>8 DEF Within, Inside
  <2> QED
    BY <2>1, <2>2 DEF OneInside
<1>15. MarkIsTrue'
  <2>1. ASSUME NEW u \in Ticks, tick'[u].pc = "alerting"
        PROVE  tick[u].pc = "alerting"
    BY <2>1, <1>7, <1>8
  <2> QED
    BY <2>1, <1>1, <1>10 DEF MarkIsTrue
<1> QED
  BY <1>11, <1>12, <1>13, <1>14, <1>15

LEMMA LeaseExpiresKeeps ==
  ASSUME SharedInv, LeaseExpires
  PROVE  SharedInv'
<1> USE DEF SharedInv
<1>1. /\ site' = site /\ alerts' = alerts
      /\ store' = [store EXCEPT !.holder = None]
      /\ tick' = [t \in Ticks |-> IF Holds(t) THEN [tick[t] EXCEPT !.leased = FALSE]
                                  ELSE tick[t]]
  BY DEF LeaseExpires
<1>2. overrun'
  BY DEF LeaseExpires
<1>3. \A u \in Ticks : [tick[u] EXCEPT !.leased = FALSE] \in TickState
  BY LeaseEnds DEF SharedTypeOK
<1>4. tick' \in [Ticks -> TickState]
  BY <1>1, <1>3 DEF SharedTypeOK
<1>5. ASSUME NEW u \in Ticks
      PROVE  /\ tick'[u].pc = tick[u].pc /\ tick'[u].condition = tick[u].condition
             /\ tick'[u].async = tick[u].async /\ tick'[u].saw = tick[u].saw
  BY <1>1 DEF SharedTypeOK, TickState
<1>6. SharedTypeOK'
  BY <1>1, <1>4 DEF SharedTypeOK
<1>7. LeasedTickIsAlone'
  <2> SUFFICES ASSUME NEW u \in Ticks, tick'[u].pc \in Inside, tick'[u].leased
               PROVE  FALSE
    BY DEF LeasedTickIsAlone
  <2>1. CASE Holds(u)
    <3>1. tick'[u] = [tick[u] EXCEPT !.leased = FALSE]
      BY <1>1, <2>1
    <3>2. ~tick'[u].leased
      BY <3>1 DEF SharedTypeOK, TickState
    <3> QED
      BY <3>2
  <2>2. CASE ~Holds(u)
    <3>1. tick'[u] = tick[u]
      BY <1>1, <2>2
    <3> QED
      BY <3>1, <2>2 DEF LeasedTickIsAlone
  <2> QED
    BY <2>1, <2>2
<1>8. MetMeansSeenInSync'
  BY <1>5 DEF MetMeansSeenInSync
<1>9. OneInside' /\ MarkIsTrue'
  BY <1>2 DEF OneInside, MarkIsTrue
<1> QED
  BY <1>6, <1>7, <1>8, <1>9

LEMMA SetKeeps ==
  ASSUME SharedInv, NEW t \in Ticks, Set(t)
  PROVE  SharedInv'
<1> USE DEF SharedInv
<1>1. /\ site' = site /\ alerts' = alerts + 1 /\ overrun' = overrun
      /\ tick[t].pc = "alerting" /\ tick' = [tick EXCEPT ![t].pc = "releasing"]
  BY DEF Set, To
<1>2. store' = [store EXCEPT !.alerted = TRUE]
  BY DEF Set
<1>3. /\ store' \in [holder : {None} \cup {TokenOf[u] : u \in Ticks}, alerted : BOOLEAN,
                     flag : BOOLEAN]
      /\ store'.holder = store.holder
  BY <1>2 DEF SharedTypeOK
<1>4. store'.alerted
  BY <1>2 DEF SharedTypeOK
<1>5. tick' \in [Ticks -> TickState]
  BY <1>1 DEF SharedTypeOK, TickState, Inside
<1>6. /\ tick'[t].pc = "releasing" /\ tick'[t].leased = tick[t].leased
      /\ \A u \in Ticks : u # t => tick'[u] = tick[u]
  BY <1>1 DEF SharedTypeOK, TickState
<1>7. SharedTypeOK'
  BY <1>1, <1>3, <1>5 DEF SharedTypeOK
<1>8. LeasedTickIsAlone'
  BY <1>1, <1>3, <1>6 DEF LeasedTickIsAlone, Holds, Inside
<1>9. MetMeansSeenInSync'
  BY <1>6 DEF MetMeansSeenInSync
<1>10. OneInside'
  BY <1>1, <1>6 DEF OneInside, Within, Inside
<1>11. MarkIsTrue'
  <2> SUFFICES ASSUME ~overrun
               PROVE  /\ store'.alerted /\ alerts' = 1
                      /\ \A u \in Ticks : tick'[u].pc # "alerting"
    BY <1>1 DEF MarkIsTrue
  <2>1. alerts = 0
    BY <1>1 DEF MarkIsTrue
  <2>2. \A u \in Ticks : tick'[u].pc # "alerting"
    <3> SUFFICES ASSUME NEW u \in Ticks, tick'[u].pc = "alerting"
                 PROVE  FALSE
      OBVIOUS
    <3>1. u # t /\ tick[u].pc = "alerting"
      BY <1>6
    <3> QED
      BY <3>1, <1>1 DEF OneInside, Within, Inside
  <2> QED
    BY <1>1, <1>4, <2>1, <2>2
<1> QED
  BY <1>7, <1>8, <1>9, <1>10, <1>11

(* The steps of one tick between its acquire and its release.               *)
LEMMA TickStepKeeps ==
  ASSUME SharedInv, NEW t \in Ticks,
         PollMeets(t) \/ PollAgain(t) \/ PollTimesOut(t) \/ Renew(t) \/ Exists(t)
  PROVE  SharedInv'
<1>1. PICK old \in TickState : old = tick[t]
  BY DEF SharedInv, SharedTypeOK
<1>2. CASE PollMeets(t)
  <2>1. PICK new : new = [old EXCEPT !.pc = "renewing", !.saw = ConditionHolds(t), !.polls = 0]
    OBVIOUS
  <2>2. ConditionHolds(t) \in BOOLEAN
    BY DEF ConditionHolds, SharedInv, SharedTypeOK
  <2>3. new \in TickState
    BY <2>1, <2>2 DEF TickState, Inside
  <2>4. new.pc = "renewing" /\ new.leased = old.leased /\ new.condition = old.condition
    BY <2>1 DEF TickState
  <2>5. new.async = old.async
    BY <2>1 DEF TickState
  <2>6. new.saw <=> ConditionHolds(t)
    BY <2>1, <2>2 DEF TickState
  <2>7. ~(new.condition = "url" /\ new.async) => new.saw
    BY <1>1, <1>2, <2>4, <2>5, <2>6 DEF PollMeets, SeenByPoll
  <2>8. /\ tick' = [tick EXCEPT ![t] = new] /\ UNCHANGED <<store, site, alerts, overrun>>
        /\ old.pc = "waiting"
    BY <1>1, <1>2, <2>1 DEF PollMeets
  <2> QED
    BY <1>1, <2>3, <2>4, <2>7, <2>8, StepInside DEF Within, Inside
<1>3. CASE PollAgain(t)
  <2>1. PICK new : new = [old EXCEPT !.polls = old.polls + 1]
    OBVIOUS
  <2>2. /\ tick' = [tick EXCEPT ![t] = new] /\ UNCHANGED <<store, site, alerts, overrun>>
        /\ old.pc = "waiting"
    BY <1>1, <1>3, <2>1 DEF PollAgain
  <2>3. new \in TickState /\ new.pc = "waiting" /\ new.leased = old.leased
    BY <2>1, <2>2 DEF TickState
  <2> QED
    BY <1>1, <2>2, <2>3, StepInside DEF Within, Inside
<1>4. CASE PollTimesOut(t)
  <2>1. PICK new : new = [old EXCEPT !.pc = "releasing"]
    OBVIOUS
  <2>2. /\ tick' = [tick EXCEPT ![t] = new] /\ UNCHANGED <<store, site, alerts, overrun>>
        /\ old.pc = "waiting"
    BY <1>1, <1>4, <2>1 DEF PollTimesOut, To
  <2>3. new \in TickState /\ new.pc = "releasing" /\ new.leased = old.leased
    BY <2>1 DEF TickState, Inside
  <2> QED
    BY <1>1, <2>2, <2>3, StepInside DEF Within, Inside
<1>5. CASE Renew(t) /\ Holds(t)
  <2>1. PICK new : new = [old EXCEPT !.pc = "checking"]
    OBVIOUS
  <2>2. /\ tick' = [tick EXCEPT ![t] = new] /\ UNCHANGED <<store, site, alerts, overrun>>
        /\ old.pc = "renewing"
    BY <1>1, <1>5, <2>1 DEF Renew, To
  <2>3. new \in TickState /\ new.pc = "checking" /\ new.leased = old.leased
    BY <2>1 DEF TickState, Inside
  <2> QED
    BY <1>1, <2>2, <2>3, StepInside DEF Within, Inside
<1>6. CASE Renew(t) /\ ~Holds(t)
  <2>1. /\ tick' = [tick EXCEPT ![t] = NewTick] /\ UNCHANGED <<store, site, alerts, overrun>>
        /\ old.pc = "renewing"
    BY <1>1, <1>6 DEF Renew
  <2>2. PICK new \in TickState : new = NewTick /\ new.pc = "idle"
    <3>1. NewTick \in TickState /\ NewTick.pc = "idle"
      BY DEF NewTick, TickState
    <3> QED
      BY <3>1
  <2>3. tick' = [tick EXCEPT ![t] = new] /\ ~Holds(t)
    BY <1>6, <2>1, <2>2
  <2>4. Within(t)
    BY <1>1, <2>1 DEF Within, Inside
  <2>5. new.pc # "alerting" /\ new.pc # "renewing"
    BY <2>2
  <2> QED
    BY <2>1, <2>2, <2>3, <2>4, <2>5, StepInside
<1>7. CASE Exists(t)
  <2>1. PICK pc \in {"releasing", "alerting"} :
          pc = IF store.alerted THEN "releasing" ELSE "alerting"
    <3>1. CASE store.alerted
      BY <3>1
    <3>2. CASE ~store.alerted
      BY <3>2
    <3> QED
      BY <3>1, <3>2
  <2>2. PICK new : new = [old EXCEPT !.pc = pc]
    OBVIOUS
  <2>3. /\ tick' = [tick EXCEPT ![t] = new] /\ UNCHANGED <<store, site, alerts, overrun>>
        /\ old.pc = "checking"
    BY <1>1, <1>7, <2>1, <2>2 DEF Exists, To
  <2>4. new \in TickState /\ new.pc = pc /\ new.leased = old.leased
    BY <2>1, <2>2 DEF TickState, Inside
  <2>5. new.pc = "alerting" => ~store.alerted
    BY <2>1, <2>4
  <2> QED
    BY <1>1, <2>1, <2>3, <2>4, <2>5, StepInside DEF Within, Inside
<1> QED
  BY <1>2, <1>3, <1>4, <1>5, <1>6, <1>7

LEMMA SiteChangesKeeps ==
  ASSUME SharedInv, SiteChanges
  PROVE  SharedInv'
<1> USE DEF SharedInv
<1>1. tick' = tick /\ alerts' = alerts /\ overrun' = overrun
  BY DEF SiteChanges
<1>2. store'.holder = store.holder
  BY DEF SiteChanges, SharedTypeOK
<1>3. store'.alerted = store.alerted
  BY DEF SiteChanges, SharedTypeOK
<1>4. SharedTypeOK'
  BY <1>1 DEF SiteChanges, SharedTypeOK
<1>5. LeasedTickIsAlone' /\ MetMeansSeenInSync' /\ OneInside'
  BY <1>1, <1>2 DEF LeasedTickIsAlone, MetMeansSeenInSync, OneInside, Within, Holds
<1>6. MarkIsTrue'
  BY <1>1, <1>3 DEF MarkIsTrue
<1> QED
  BY <1>4, <1>5, <1>6

LEMMA SharedNextInv == SharedInv /\ [SharedNext]_sharedVars => SharedInv'
<1> SUFFICES ASSUME SharedInv, [SharedNext]_sharedVars
             PROVE  SharedInv'
  OBVIOUS
<1>1. CASE UNCHANGED sharedVars
  <2>1. /\ store' = store /\ site' = site /\ tick' = tick /\ alerts' = alerts
        /\ overrun' = overrun
    BY <1>1 DEF sharedVars
  <2> QED
    BY <2>1 DEF SharedInv, SharedTypeOK, LeasedTickIsAlone, MetMeansSeenInSync, OneInside,
                MarkIsTrue, Holds, Within
<1>2. CASE SharedNext
  BY <1>2, LeaseExpiresKeeps, SiteChangesKeeps, AcquireKeeps, TickStepKeeps, SetKeeps,
     ReleaseKeeps DEF SharedNext
<1> QED
  BY <1>1, <1>2

(* However many ticks of however many processes share the store, the site    *)
(* and the leases change under them: until a lease runs out under a tick,   *)
(* the lock has one holder inside, and the alert is sent once (lock.py,     *)
(* redis.py and wait_for.py of tool/builtin).                               *)
THEOREM LeasedTicksActAlone == SharedSpec => []TicksActAlone
<1>1. SharedInv => TicksActAlone
  BY DEF SharedInv, TicksActAlone, AlertedOnceUnderLease, MarkIsTrue, SharedTypeOK
<1>2. SharedSpec => []SharedInv
  BY SharedInitInv, SharedNextInv, PTL DEF SharedSpec
<1> QED
  BY <1>1, <1>2, PTL

-----------------------------------------------------------------------------
(* Runs that share the connections of MCP servers.                         *)

Connection == [of : Group, status : {"opening", "open", "closed"}]

RunState == [pc : {"new", "opening", "done"}, position : 1..(Len(ToolGroups) + 1),
             members : Seq(Nat), opening : Nat]

McpTypeOK ==
  /\ named \in [Group -> GroupIds]
  /\ connections \in Seq(Connection)
  /\ group \in [Group -> Nat]
  /\ cached \in [GroupIds -> [of : {0} \cup Group, connection : Nat]]
  /\ mcpRun \in [McpRun -> RunState]
  /\ closing \in [pc : {"idle", "next", "closed"}, left : Seq(GroupIds), size : Nat,
                  of : {0} \cup Group]

MembersAreSound(members, opened) ==
  \A g \in DOMAIN members : members[g] \in DOMAIN opened /\ opened[members[g]].of = g

(* A run that opens has a connection of its own; its members are those of   *)
(* the groups it has passed.                                                *)
RunsAreSound ==
  /\ \A r \in McpRun : mcpRun[r].pc = "opening" =>
       /\ mcpRun[r].position \in Group
       /\ mcpRun[r].opening \in DOMAIN connections
       /\ connections[mcpRun[r].opening] = [of |-> mcpRun[r].position, status |-> "opening"]
       /\ \A s \in McpRun : s # r /\ mcpRun[s].pc = "opening"
                              => mcpRun[s].opening # mcpRun[r].opening
  /\ \A r \in McpRun : mcpRun[r].pc # "done" => Len(mcpRun[r].members) = mcpRun[r].position - 1
  /\ DistinctNames => \A r \in McpRun : MembersAreSound(mcpRun[r].members, connections)

(* A group has an open connection of its own, or one that is being closed.  *)
GroupsAreSound ==
  \A g \in Group : group[g] # 0 =>
    /\ group[g] \in DOMAIN connections
    /\ connections[group[g]].of = g
    /\ \/ connections[group[g]].status = "open"
       \/ connections[group[g]].status = "closed" /\ closing.pc = "closed" /\ closing.of = g

(* An id stands for a group of that name, and one of its connections.       *)
CacheIsSound ==
  \A i \in NamesCached :
    /\ cached[i].of \in Group /\ named[cached[i].of] = i
    /\ cached[i].connection \in DOMAIN connections
    /\ connections[cached[i].connection].of = cached[i].of

(* A connection that was opened alone: nobody else opens the group.         *)
AloneOpening(c) ==
  LET g == connections[c].of
  IN  connections[c].status = "opening" =>
        /\ group[g] = 0 /\ cached[named[g]].of # g
        /\ \A d \in DOMAIN connections : d # c /\ connections[d].of = g
                                           => connections[d].status # "opening"
AloneOpen(c) ==
  LET g == connections[c].of
  IN  connections[c].status = "open" =>
        /\ group[g] = c
        /\ DistinctNames => cached[named[g]].of = g
        /\ \A d \in DOMAIN connections : connections[d].of = g => connections[d].status # "opening"
ConnectionsAreAlone ==
  \A c \in DOMAIN connections : c \notin strays => AloneOpening(c) /\ AloneOpen(c)

(* Nothing of the group is left open, but for strays.                       *)
IsClosed(g) ==
  \A c \in DOMAIN connections :
    c \notin strays /\ connections[c].of = g => connections[c].status = "closed"

(* aclose has closed the groups of all names but those left, as long as no  *)
(* name was added under it.                                                 *)
ClosingIsSound ==
  closing.pc # "idle" =>
    /\ \A k \in DOMAIN closing.left : closing.left[k] \in NamesCached
    /\ closing.size <= Cardinality(NamesCached)
    /\ closing.pc = "closed" => /\ closing.left # <<>> /\ closing.of \in Group
                                /\ named[closing.of] = Head(closing.left)
                                /\ IsClosed(closing.of)
    /\ DistinctNames /\ Cardinality(NamesCached) = closing.size =>
         \A i \in NamesCached : (\E k \in DOMAIN closing.left : closing.left[k] = i)
                                \/ IsClosed(cached[i].of)

McpInv ==
  McpTypeOK /\ RunsAreSound /\ GroupsAreSound /\ CacheIsSound /\ ConnectionsAreAlone
  /\ ClosingIsSound /\ OneConnectionPerGroup /\ CallsReachTheirServer

LEMMA StatusChange ==
  ASSUME NEW s \in Seq(Connection), NEW c \in DOMAIN s,
         NEW status \in {"opening", "open", "closed"},
         NEW t, t = [s EXCEPT ![c] = [@ EXCEPT !.status = status]]
  PROVE  /\ t \in Seq(Connection) /\ DOMAIN t = DOMAIN s /\ Len(t) = Len(s)
         /\ t[c].status = status
         /\ \A d \in DOMAIN s : d # c => t[d] = s[d]
         /\ \A d \in DOMAIN s : t[d].of = s[d].of
<1>1. s[c] \in Connection /\ DOMAIN s = 1..Len(s) /\ Len(s) \in Nat
  OBVIOUS
<1>2. DOMAIN t = DOMAIN s /\ \A d \in DOMAIN s : d # c => t[d] = s[d]
  OBVIOUS
<1>3. PICK new : new = [s[c] EXCEPT !.status = status]
  OBVIOUS
<1>4. t[c] = new
  BY <1>3
<1>5. new \in Connection /\ new.status = status /\ new.of = s[c].of
  BY <1>1, <1>3 DEF Connection
<1>6. \A d \in 1..Len(s) : t[d] \in Connection
  BY <1>1, <1>2, <1>4, <1>5
<1>7. t \in Seq(Connection) /\ Len(t) = Len(s)
  <2>1. DOMAIN t = 1..Len(s) /\ t = [d \in 1..Len(s) |-> t[d]]
    BY <1>1, <1>2
  <2> QED
    BY <1>1, <1>6, <2>1
<1>8. \A d \in DOMAIN s : t[d].of = s[d].of
  BY <1>2, <1>4, <1>5
<1> QED
  BY <1>2, <1>4, <1>5, <1>7, <1>8

LEMMA ConnectionFields ==
  ASSUME McpTypeOK
  PROVE  /\ DOMAIN connections = 1..Len(connections) /\ Len(connections) \in Nat
         /\ \A c \in DOMAIN connections :
              /\ c \in Nat /\ connections[c].of \in Group
              /\ connections[c].status \in {"opening", "open", "closed"}
              /\ connections[c] = [of |-> connections[c].of, status |-> connections[c].status]
<1>1. /\ DOMAIN connections = 1..Len(connections) /\ Len(connections) \in Nat
      /\ \A c \in DOMAIN connections : connections[c] \in Connection
  BY DEF McpTypeOK
<1> QED
  BY <1>1 DEF Connection

(* What the handing of a connection makes of a run.                         *)
LEMMA GivenIsSound ==
  ASSUME McpTypeOK, RunsAreSound, NEW r \in McpRun, mcpRun[r].pc # "done",
         mcpRun[r].position \in Group, NEW c \in DOMAIN connections,
         DistinctNames => connections[c].of = mcpRun[r].position
  PROVE  LET new == Given(mcpRun[r], c)
         IN  /\ new \in RunState /\ new.pc = "new"
             /\ Len(new.members) = new.position - 1
             /\ DistinctNames => MembersAreSound(new.members, connections)
<1>1. PICK old \in RunState : old = mcpRun[r]
  BY DEF McpTypeOK
<1>2. PICK new : new = Given(old, c)
  OBVIOUS
<1>3. /\ new.pc = "new" /\ new.position = old.position + 1 /\ new.opening = 0
      /\ new.members = Append(old.members, c)
  BY <1>2 DEF Given, RunState
<1>4. Len(old.members) = old.position - 1 /\ old.position \in Nat /\ c \in Nat
  BY <1>1, ConnectionFields DEF RunsAreSound, RunState
<1>5. old.members \in Seq(Nat)
  BY DEF RunState
<1>6. /\ new.members \in Seq(Nat) /\ Len(new.members) = old.position
      /\ new.members[old.position] = c
      /\ \A g \in 1..(old.position - 1) : new.members[g] = old.members[g]
  BY <1>3, <1>4, <1>5
<1>7. old.position \in 1..Len(ToolGroups)
  BY <1>1, McpAssumption DEF McpAssumption
<1>8. new.position \in 1..(Len(ToolGroups) + 1)
  BY <1>3, <1>4, <1>7, McpAssumption DEF McpAssumption
<1>9. new \in RunState
  BY <1>2, <1>3, <1>6, <1>8 DEF Given, RunState
<1>10. ASSUME DistinctNames
       PROVE  MembersAreSound(new.members, connections)
  <2> SUFFICES ASSUME NEW g \in DOMAIN new.members
               PROVE  new.members[g] \in DOMAIN connections /\ connections[new.members[g]].of = g
    BY DEF MembersAreSound
  <2>1. MembersAreSound(old.members, connections)
    BY <1>1, <1>10 DEF RunsAreSound
  <2>2. g \in 1..old.position
    BY <1>6
  <2>3. CASE g = old.position
    BY <1>1, <1>6, <1>10, <2>3
  <2>4. CASE g \in 1..(old.position - 1)
    <3>1. g \in DOMAIN old.members
      BY <1>4, <1>5, <2>4
    <3> QED
      BY <3>1, <1>6, <2>1, <2>4 DEF MembersAreSound
  <2> QED
    BY <1>4, <2>2, <2>3, <2>4
<1> QED
  BY <1>1, <1>2, <1>3, <1>6, <1>9, <1>10

LEMMA OpeningsDiffer ==
  ASSUME RunsAreSound, NEW r \in McpRun, NEW s \in McpRun, r # s,
         mcpRun[r].pc = "opening", mcpRun[s].pc = "opening"
  PROVE  mcpRun[r].opening # mcpRun[s].opening
<1>1. \A u \in McpRun : u # s /\ mcpRun[u].pc = "opening" => mcpRun[u].opening # mcpRun[s].opening
  BY DEF RunsAreSound
<1> QED
  BY <1>1

(* A run that is not opening a connection any more, or was not.             *)
LEMMA RunMoves ==
  ASSUME McpTypeOK, RunsAreSound, NEW r \in McpRun, NEW new \in RunState,
         mcpRun' = [mcpRun EXCEPT ![r] = new], named' = named, new.pc # "opening",
         DOMAIN connections' = DOMAIN connections,
         \A d \in DOMAIN connections : connections'[d].of = connections[d].of,
         \A d \in DOMAIN connections :
            \/ connections'[d] = connections[d]
            \/ mcpRun[r].pc = "opening" /\ d = mcpRun[r].opening,
         new.pc # "done" => Len(new.members) = new.position - 1,
         DistinctNames => MembersAreSound(new.members, connections)
  PROVE  RunsAreSound' /\ mcpRun' \in [McpRun -> RunState]
<1>1. /\ mcpRun'[r] = new /\ \A s \in McpRun : s # r => mcpRun'[s] = mcpRun[s]
      /\ mcpRun' \in [McpRun -> RunState]
  BY DEF McpTypeOK
<1>2. DistinctNames' <=> DistinctNames
  BY DEF DistinctNames
<1>3. ASSUME NEW members, MembersAreSound(members, connections)
      PROVE  MembersAreSound(members, connections')
  BY <1>3 DEF MembersAreSound
<1>4. ASSUME NEW s \in McpRun, mcpRun'[s].pc = "opening"
      PROVE  /\ mcpRun'[s].position \in Group
             /\ mcpRun'[s].opening \in DOMAIN connections'
             /\ connections'[mcpRun'[s].opening]
                  = [of |-> mcpRun'[s].position, status |-> "opening"]
             /\ \A u \in McpRun : u # s /\ mcpRun'[u].pc = "opening"
                                    => mcpRun'[u].opening # mcpRun'[s].opening
  <2>1. s # r /\ mcpRun'[s] = mcpRun[s] /\ mcpRun[s].pc = "opening"
    BY <1>1, <1>4
  <2>2. /\ mcpRun[s].position \in Group /\ mcpRun[s].opening \in DOMAIN connections
        /\ connections[mcpRun[s].opening] = [of |-> mcpRun[s].position, status |-> "opening"]
        /\ mcpRun[r].pc = "opening" => mcpRun[r].opening # mcpRun[s].opening
    BY <2>1 DEF RunsAreSound
  <2>3. connections'[mcpRun[s].opening] = connections[mcpRun[s].opening]
    BY <2>2
  <2>4. ASSUME NEW u \in McpRun, u # s, mcpRun'[u].pc = "opening"
        PROVE  mcpRun'[u].opening # mcpRun'[s].opening
    <3>1. u # r /\ mcpRun'[u] = mcpRun[u]
      BY <1>1, <2>4
    <3> QED
      BY <3>1, <2>1, <2>4, OpeningsDiffer
  <2> QED
    BY <2>1, <2>2, <2>3, <2>4
<1>5. \A s \in McpRun : mcpRun'[s].pc # "done"
                          => Len(mcpRun'[s].members) = mcpRun'[s].position - 1
  BY <1>1 DEF RunsAreSound
<1>6. ASSUME DistinctNames, NEW s \in McpRun
      PROVE  MembersAreSound(mcpRun'[s].members, connections')
  <2>1. PICK members : members = mcpRun'[s].members
    OBVIOUS
  <2>2. MembersAreSound(members, connections)
    BY <2>1, <1>1, <1>6 DEF RunsAreSound
  <2> QED
    BY <2>1, <2>2, <1>3
<1> QED
  BY <1>1, <1>2, <1>4, <1>5, <1>6 DEF RunsAreSound

LEMMA RunFields ==
  ASSUME McpTypeOK, NEW r \in McpRun
  PROVE  /\ mcpRun[r] \in RunState /\ mcpRun[r].position \in 1..(Len(ToolGroups) + 1)
         /\ mcpRun[r].members \in Seq(Nat) /\ mcpRun[r].opening \in Nat
  BY DEF McpTypeOK, RunState

(* Only one run moves, and it opens nothing.                                *)
LEMMA RunOnly ==
  ASSUME McpInv, NEW r \in McpRun, NEW new \in RunState,
         mcpRun' = [mcpRun EXCEPT ![r] = new], new.pc # "opening",
         new.pc # "done" => Len(new.members) = new.position - 1,
         DistinctNames => MembersAreSound(new.members, connections),
         UNCHANGED <<named, connections, group, cached, closing, reached, strays>>
  PROVE  McpInv'
<1> USE DEF McpInv
<1>1. /\ named' = named /\ connections' = connections /\ group' = group /\ cached' = cached
      /\ closing' = closing /\ reached' = reached /\ strays' = strays
  OBVIOUS
<1>2. RunsAreSound' /\ mcpRun' \in [McpRun -> RunState]
  BY <1>1, RunMoves
<1>3. McpTypeOK'
  BY <1>1, <1>2 DEF McpTypeOK
<1>4. GroupsAreSound' /\ CacheIsSound'
  BY <1>1 DEF GroupsAreSound, CacheIsSound, NamesCached
<1>5. ConnectionsAreAlone' /\ ClosingIsSound'
  BY <1>1 DEF ConnectionsAreAlone, AloneOpen, AloneOpening, DistinctNames, ClosingIsSound,
              IsClosed, NamesCached
<1>6. OneConnectionPerGroup' /\ CallsReachTheirServer'
  BY <1>1 DEF OneConnectionPerGroup, CallsReachTheirServer, DistinctNames
<1> QED
  BY <1>2, <1>3, <1>4, <1>5, <1>6

LEMMA MembersCachedKeeps ==
  ASSUME McpInv, NEW r \in McpRun, MembersCached(r)
  PROVE  McpInv'
<1>1. PICK g : g = mcpRun[r].position
  OBVIOUS
<1>2. /\ mcpRun[r].pc = "new" /\ g \in Group /\ cached[named[g]] # NoMembers
      /\ UNCHANGED <<named, connections, group, cached, closing, reached, strays>>
  BY <1>1 DEF MembersCached, Expanding, NextGroup
<1>3. PICK c : c = cached[named[g]].connection
  OBVIOUS
<1>4. named[g] \in NamesCached
  BY <1>2 DEF NamesCached, McpInv, McpTypeOK
<1>5. c \in DOMAIN connections /\ (DistinctNames => connections[c].of = g)
  BY <1>2, <1>3, <1>4 DEF McpInv, CacheIsSound, DistinctNames
<1>6. PICK new : new = Given(mcpRun[r], c)
  OBVIOUS
<1>7. mcpRun' = [mcpRun EXCEPT ![r] = new]
  BY <1>1, <1>3, <1>6 DEF MembersCached, NextGroup
<1>8. /\ new \in RunState /\ new.pc = "new" /\ Len(new.members) = new.position - 1
      /\ DistinctNames => MembersAreSound(new.members, connections)
  BY <1>1, <1>2, <1>5, <1>6, GivenIsSound DEF McpInv
<1> QED
  BY <1>2, <1>7, <1>8, RunOnly

LEMMA McpRunEndsKeeps ==
  ASSUME McpInv, NEW r \in McpRun, McpRunEnds(r)
  PROVE  McpInv'
<1>1. PICK old \in RunState : old = mcpRun[r]
  BY DEF McpInv, McpTypeOK
<1>2. PICK new : new = [old EXCEPT !.pc = "done", !.members = <<>>]
  OBVIOUS
<1>3. /\ mcpRun' = [mcpRun EXCEPT ![r] = new]
      /\ UNCHANGED <<named, connections, group, cached, closing, reached, strays>>
  BY <1>1, <1>2 DEF McpRunEnds
<1>4. new.pc = "done" /\ new.members = <<>>
  BY <1>2 DEF RunState
<1>6. new \in RunState
  <2>1. new = [pc |-> "done", position |-> old.position, members |-> <<>>, opening |-> old.opening]
    BY <1>2 DEF RunState
  <2> QED
    BY <2>1 DEF RunState
<1>5. MembersAreSound(new.members, connections)
  BY <1>4 DEF MembersAreSound
<1> QED
  BY <1>3, <1>4, <1>5, <1>6, RunOnly

LEMMA NewRunIsSound ==
  /\ NewRun \in RunState /\ NewRun.pc = "new"
  /\ Len(NewRun.members) = NewRun.position - 1
  /\ NewRun.members = <<>>
<1>1. 1 \in 1..(Len(ToolGroups) + 1)
  BY McpAssumption DEF McpAssumption
<1> QED
  BY <1>1 DEF NewRun, RunState

LEMMA McpRunAgainKeeps ==
  ASSUME McpInv, NEW r \in McpRun, McpRunAgain(r)
  PROVE  McpInv'
<1>1. PICK new \in RunState : new = NewRun
  BY NewRunIsSound
<1>2. /\ mcpRun' = [mcpRun EXCEPT ![r] = new]
      /\ UNCHANGED <<named, connections, group, cached, closing, reached, strays>>
  BY <1>1 DEF McpRunAgain
<1>3. new.pc = "new" /\ Len(new.members) = new.position - 1
  BY <1>1, NewRunIsSound
<1>4. MembersAreSound(new.members, connections)
  BY <1>1, NewRunIsSound DEF MembersAreSound
<1> QED
  BY <1>2, <1>3, <1>4, RunOnly

LEMMA CallToolKeeps ==
  ASSUME McpInv, NEW r \in McpRun, CallTool(r)
  PROVE  McpInv'
<1> USE DEF McpInv
<1>1. /\ named' = named /\ connections' = connections /\ group' = group /\ cached' = cached
      /\ closing' = closing /\ mcpRun' = mcpRun /\ strays' = strays
  BY DEF CallTool
<1>2. PICK g \in Group :
        reached' = reached \cup {[meant |-> g, by |-> connections[mcpRun[r].members[g]].of]}
  BY DEF CallTool
<1>3. mcpRun[r].pc = "new" /\ mcpRun[r].position \notin Group
  BY DEF CallTool, NextGroup
<1>4. mcpRun[r].position = Len(ToolGroups) + 1
  BY <1>3, RunFields, McpAssumption DEF McpAssumption
<1>5. g \in DOMAIN mcpRun[r].members
  <2>1. Len(mcpRun[r].members) = Len(ToolGroups)
    BY <1>3, <1>4, McpAssumption DEF RunsAreSound, McpAssumption
  <2> QED
    BY <2>1, <1>2, RunFields, McpAssumption DEF McpAssumption
<1>6. DistinctNames => connections[mcpRun[r].members[g]].of = g
  BY <1>5 DEF RunsAreSound, MembersAreSound
<1>7. CallsReachTheirServer'
  <2> SUFFICES ASSUME DistinctNames, NEW delivered \in reached'
               PROVE  delivered.by = delivered.meant
    BY <1>1 DEF CallsReachTheirServer, DistinctNames
  <2>1. CASE delivered \in reached
    BY <2>1 DEF CallsReachTheirServer
  <2>2. CASE delivered = [meant |-> g, by |-> connections[mcpRun[r].members[g]].of]
    BY <2>2, <1>6
  <2> QED
    BY <1>2, <2>1, <2>2
<1>8. McpTypeOK' /\ GroupsAreSound' /\ CacheIsSound'
  BY <1>1 DEF McpTypeOK, GroupsAreSound, CacheIsSound, NamesCached
<1>9. RunsAreSound'
  BY <1>1 DEF RunsAreSound, DistinctNames
<1>10. ConnectionsAreAlone' /\ ClosingIsSound' /\ OneConnectionPerGroup'
  BY <1>1 DEF ConnectionsAreAlone, AloneOpen, AloneOpening, DistinctNames, ClosingIsSound,
              IsClosed, NamesCached, OneConnectionPerGroup
<1> QED
  BY <1>7, <1>8, <1>9, <1>10

(* The names that are cached when one more is.                              *)
LEMMA OneMoreName ==
  ASSUME McpTypeOK, NEW i \in GroupIds, NEW m, m # NoMembers,
         cached' = [cached EXCEPT ![i] = m]
  PROVE  /\ NamesCached' = NamesCached \cup {i}
         /\ Cardinality(NamesCached) \in Nat
         /\ i \notin NamesCached => Cardinality(NamesCached)' = Cardinality(NamesCached) + 1
         /\ i \in NamesCached => Cardinality(NamesCached)' = Cardinality(NamesCached)
<1>1. cached'[i] = m /\ \A j \in GroupIds : j # i => cached'[j] = cached[j]
  BY DEF McpTypeOK
<1>2. NamesCached' = NamesCached \cup {i}
  BY <1>1 DEF NamesCached
<1>3. IsFiniteSet(NamesCached)
  <2>1. NamesCached \subseteq GroupIds
    BY DEF NamesCached
  <2> QED
    BY <2>1, FS_Subset, McpAssumption DEF McpAssumption
<1>4. Cardinality(NamesCached) \in Nat
  BY <1>3, FS_CardinalityType
<1>5. i \notin NamesCached => Cardinality(NamesCached \cup {i}) = Cardinality(NamesCached) + 1
  BY <1>3, FS_AddElement
<1>6. i \in NamesCached => NamesCached \cup {i} = NamesCached
  OBVIOUS
<1> QED
  BY <1>2, <1>4, <1>5, <1>6

(* Once a name was added under aclose, it will raise.                       *)
LEMMA ClosingOutgrown ==
  ASSUME McpTypeOK, ClosingIsSound, closing' = closing, named' = named,
         NamesCached \subseteq NamesCached', Cardinality(NamesCached) \in Nat,
         Cardinality(NamesCached)' = Cardinality(NamesCached) + 1,
         IsClosed(closing.of) => IsClosed(closing.of)'
  PROVE  ClosingIsSound'
<1>1. closing.size \in Nat
  BY DEF McpTypeOK
<1>2. PICK size : size = Cardinality(NamesCached)'
  OBVIOUS
<1>3. closing.pc # "idle" => closing.size <= size /\ size # closing.size
  BY <1>1, <1>2 DEF ClosingIsSound
<1>4. closing.pc # "idle" => \A k \in DOMAIN closing.left : closing.left[k] \in NamesCached'
  BY DEF ClosingIsSound
<1>5. closing.pc = "closed" => /\ closing.left # <<>> /\ closing.of \in Group
                               /\ named[closing.of] = Head(closing.left)
                               /\ IsClosed(closing.of)'
  BY DEF ClosingIsSound
<1> QED
  BY <1>2, <1>3, <1>4, <1>5 DEF ClosingIsSound

LEMMA AlreadyOpenKeeps ==
  ASSUME McpInv, NEW r \in McpRun, AlreadyOpen(r)
  PROVE  McpInv'
<1> USE DEF McpInv
<1>1. PICK g : g = mcpRun[r].position
  OBVIOUS
<1>2. PICK c : c = group[g]
  OBVIOUS
<1>3. /\ mcpRun[r].pc = "new" /\ g \in Group /\ cached[named[g]] = NoMembers /\ c # 0
      /\ cached' = [cached EXCEPT ![named[g]] = [of |-> g, connection |-> c]]
      /\ named' = named /\ connections' = connections /\ group' = group
      /\ closing' = closing /\ reached' = reached /\ strays' = strays
  BY <1>1, <1>2 DEF AlreadyOpen, Expanding, NextGroup
<1>4. c \in DOMAIN connections /\ connections[c].of = g /\ c \in Nat /\ named[g] \in GroupIds
  BY <1>2, <1>3, ConnectionFields DEF GroupsAreSound, McpTypeOK
<1>5. PICK new : new = Given(mcpRun[r], c)
  OBVIOUS
<1>6. mcpRun' = [mcpRun EXCEPT ![r] = new]
  BY <1>1, <1>2, <1>5 DEF AlreadyOpen, NextGroup
<1>7. /\ new \in RunState /\ new.pc = "new" /\ Len(new.members) = new.position - 1
      /\ DistinctNames => MembersAreSound(new.members, connections)
  BY <1>1, <1>3, <1>4, <1>5, GivenIsSound
<1>8. RunsAreSound' /\ mcpRun' \in [McpRun -> RunState]
  BY <1>3, <1>6, <1>7, RunMoves
<1>9. g \in Nat /\ g # 0
  BY <1>3, McpAssumption DEF McpAssumption
<1>10. PICK m : m = [of |-> g, connection |-> c]
  OBVIOUS
<1>11. m # NoMembers /\ m.of = g /\ m.connection = c
       /\ m \in [of : {0} \cup Group, connection : Nat]
  BY <1>3, <1>4, <1>9, <1>10 DEF NoMembers
<1>12. /\ cached' \in [GroupIds -> [of : {0} \cup Group, connection : Nat]]
       /\ cached'[named[g]] = m
       /\ \A i \in GroupIds : i # named[g] => cached'[i] = cached[i]
  BY <1>3, <1>4, <1>10, <1>11 DEF McpTypeOK
<1>13. McpTypeOK'
  BY <1>3, <1>8, <1>12 DEF McpTypeOK
<1>14. /\ named[g] \notin NamesCached /\ NamesCached' = NamesCached \cup {named[g]}
       /\ Cardinality(NamesCached) \in Nat
       /\ Cardinality(NamesCached)' = Cardinality(NamesCached) + 1
  BY <1>3, <1>4, <1>10, <1>11, OneMoreName DEF NamesCached
<1>15. GroupsAreSound'
  BY <1>3 DEF GroupsAreSound
<1>16. CacheIsSound'
  <2> SUFFICES ASSUME NEW i \in NamesCached'
               PROVE  /\ cached'[i].of \in Group /\ named[cached'[i].of] = i
                      /\ cached'[i].connection \in DOMAIN connections
                      /\ connections[cached'[i].connection].of = cached'[i].of
    BY <1>3 DEF CacheIsSound
  <2>1. CASE i = named[g]
    BY <2>1, <1>3, <1>4, <1>11, <1>12
  <2>2. CASE i # named[g] /\ i \in NamesCached
    <3>1. i \in GroupIds /\ cached'[i] = cached[i]
      BY <2>2, <1>12 DEF NamesCached
    <3> QED
      BY <3>1, <2>2 DEF CacheIsSound
  <2> QED
    BY <1>14, <2>1, <2>2
<1>17. ConnectionsAreAlone'
  <2> SUFFICES ASSUME NEW d \in DOMAIN connections, d \notin strays
               PROVE  AloneOpening(d)' /\ AloneOpen(d)'
    BY <1>3 DEF ConnectionsAreAlone
  <2>1. AloneOpening(d) /\ AloneOpen(d)
    BY DEF ConnectionsAreAlone
  <2>2. PICK h \in Group : h = connections[d].of
    BY ConnectionFields
  <2>3. named[h] \in GroupIds
    BY DEF McpTypeOK
  <2>4. AloneOpening(d)'
    <3> SUFFICES ASSUME connections[d].status = "opening"
                 PROVE  /\ group[h] = 0 /\ cached'[named[h]].of # h
                        /\ \A e \in DOMAIN connections : e # d /\ connections[e].of = h
                                             => connections[e].status # "opening"
      BY <1>3, <2>2 DEF AloneOpening
    <3>1. group[h] = 0 /\ cached[named[h]].of # h /\ h # g
      BY <1>2, <1>3, <2>1, <2>2 DEF AloneOpening
    <3>2. cached'[named[h]].of # h
      BY <3>1, <1>11, <1>12, <2>3
    <3> QED
      BY <3>1, <3>2, <2>1, <2>2 DEF AloneOpening
  <2>5. AloneOpen(d)'
    <3> SUFFICES ASSUME connections[d].status = "open"
                 PROVE  /\ group[h] = d
                        /\ DistinctNames => cached'[named[h]].of = h
                        /\ \A e \in DOMAIN connections : connections[e].of = h
                                             => connections[e].status # "opening"
      BY <1>3, <2>2 DEF AloneOpen, DistinctNames
    <3>1. DistinctNames => cached'[named[h]].of = h
      BY <1>3, <1>11, <1>12, <2>1, <2>2, <2>3 DEF AloneOpen, DistinctNames
    <3> QED
      BY <3>1, <2>1, <2>2 DEF AloneOpen
  <2> QED
    BY <2>4, <2>5
<1>18. ClosingIsSound'
  BY <1>3, <1>14, ClosingOutgrown DEF IsClosed
<1>19. OneConnectionPerGroup' /\ CallsReachTheirServer'
  BY <1>3 DEF OneConnectionPerGroup, CallsReachTheirServer, DistinctNames
<1> QED
  BY <1>8, <1>13, <1>15, <1>16, <1>17, <1>18, <1>19

(* A connection is opened, lost or closed.                                  *)
LEMMA ClosedStays ==
  ASSUME McpTypeOK, NEW c \in DOMAIN connections, NEW status,
         status = "closed" \/ connections[c].status = "opening",
         DOMAIN connections' = DOMAIN connections,
         connections'[c].status = status,
         \A d \in DOMAIN connections : d # c => connections'[d] = connections[d],
         \A d \in DOMAIN connections : connections'[d].of = connections[d].of,
         strays \subseteq strays'
  PROVE  \A h : IsClosed(h) => IsClosed(h)'
<1> SUFFICES ASSUME NEW h, IsClosed(h), NEW d \in DOMAIN connections, d \notin strays,
                    connections[d].of = h
             PROVE  connections'[d].status = "closed"
  BY DEF IsClosed
<1>1. connections[d].status = "closed"
  BY DEF IsClosed
<1>2. CASE d # c
  BY <1>1, <1>2
<1>3. CASE d = c
  BY <1>1, <1>3
<1> QED
  BY <1>2, <1>3

LEMMA OneConnectionStays ==
  ASSUME OneConnectionPerGroup, NEW c \in DOMAIN connections, NEW status,
         status = "closed" \/ connections[c].status = "opening",
         DOMAIN connections' = DOMAIN connections,
         connections'[c].status = status,
         \A d \in DOMAIN connections : d # c => connections'[d] = connections[d],
         \A d \in DOMAIN connections : connections'[d].of = connections[d].of,
         strays \subseteq strays'
  PROVE  OneConnectionPerGroup'
<1>1. \A d \in DOMAIN connections : connections'[d].status \in {"open", "opening"}
                                      => connections[d].status \in {"open", "opening"}
  OBVIOUS
<1> QED
  BY <1>1 DEF OneConnectionPerGroup

LEMMA CacheStays ==
  ASSUME CacheIsSound, cached' = cached, named' = named,
         DOMAIN connections \subseteq DOMAIN connections',
         \A d \in DOMAIN connections : connections'[d].of = connections[d].of
  PROVE  CacheIsSound' /\ NamesCached' = NamesCached
BY DEF CacheIsSound, NamesCached

(* The names under aclose are the same, and so are their groups.            *)
LEMMA ClosingGoesOn ==
  ASSUME ClosingIsSound, NamesCached' = NamesCached, named' = named, closing' = closing,
         DistinctNames => \A i \in NamesCached : cached'[i].of = cached[i].of,
         \A h : IsClosed(h) => IsClosed(h)'
  PROVE  ClosingIsSound'
<1>1. DistinctNames' <=> DistinctNames
  BY DEF DistinctNames
<1>2. SUFFICES ASSUME closing.pc # "idle"
               PROVE  ClosingIsSound'
  BY DEF ClosingIsSound
<1>3. closing.pc = "closed" => /\ closing.left # <<>> /\ closing.of \in Group
                               /\ named[closing.of] = Head(closing.left)
                               /\ IsClosed(closing.of)'
  BY DEF ClosingIsSound
<1>4. DistinctNames /\ Cardinality(NamesCached) = closing.size =>
        \A i \in NamesCached : (\E k \in DOMAIN closing.left : closing.left[k] = i)
                               \/ IsClosed(cached[i].of)'
  <2> SUFFICES ASSUME DistinctNames, Cardinality(NamesCached) = closing.size,
                      NEW i \in NamesCached,
                      ~ \E k \in DOMAIN closing.left : closing.left[k] = i
               PROVE  IsClosed(cached[i].of)'
    OBVIOUS
  <2>1. PICK h : h = cached[i].of
    OBVIOUS
  <2>2. IsClosed(h)'
    BY <1>2, <2>1 DEF ClosingIsSound
  <2>3. cached'[i].of = h
    BY <2>1
  <2> QED
    BY <2>2, <2>3
<1>5. (\A k \in DOMAIN closing.left : closing.left[k] \in NamesCached)
      /\ closing.size <= Cardinality(NamesCached)
  BY <1>2 DEF ClosingIsSound
<1> QED
  BY <1>1, <1>3, <1>4, <1>5 DEF ClosingIsSound

LEMMA ClosingStays ==
  ASSUME ClosingIsSound, cached' = cached, named' = named, closing' = closing,
         \A h : IsClosed(h) => IsClosed(h)'
  PROVE  ClosingIsSound'
<1>1. NamesCached' = NamesCached
  BY DEF NamesCached
<1> QED
  BY <1>1, ClosingGoesOn

(* A run gives up a connection that was not ready: it is closed, or a stray. *)
LEMMA RunOpening ==
  ASSUME RunsAreSound, NEW r \in McpRun, mcpRun[r].pc = "opening"
  PROVE  LET c == mcpRun[r].opening
         IN  /\ mcpRun[r].position \in Group /\ c \in DOMAIN connections
             /\ connections[c].status = "opening" /\ connections[c].of = mcpRun[r].position
<1>1. /\ mcpRun[r].position \in Group /\ mcpRun[r].opening \in DOMAIN connections
      /\ connections[mcpRun[r].opening] = [of |-> mcpRun[r].position, status |-> "opening"]
  BY DEF RunsAreSound
<1> QED
  BY <1>1

OpenLost(r, status) ==
  /\ mcpRun[r].pc = "opening"
  /\ connections' = [connections EXCEPT ![mcpRun[r].opening].status = status]
  /\ mcpRun' = [mcpRun EXCEPT ![r] = [@ EXCEPT !.pc = "done", !.opening = 0]]
  /\ strays \subseteq strays'
  /\ status = "open" => mcpRun[r].opening \in strays'
  /\ UNCHANGED <<named, group, cached, closing, reached>>

LEMMA OpenLostKeeps ==
  ASSUME McpInv, NEW r \in McpRun, NEW status \in {"open", "closed"}, OpenLost(r, status)
  PROVE  McpInv'
<1>0. /\ McpTypeOK /\ RunsAreSound /\ GroupsAreSound /\ CacheIsSound /\ ConnectionsAreAlone
      /\ ClosingIsSound /\ OneConnectionPerGroup /\ CallsReachTheirServer
  BY DEF McpInv
<1>1. PICK c : c = mcpRun[r].opening
  OBVIOUS
<1>2. c \in DOMAIN connections /\ connections[c].status = "opening"
  BY <1>0, <1>1, RunOpening DEF OpenLost
<1>3. /\ connections' \in Seq(Connection) /\ DOMAIN connections' = DOMAIN connections
      /\ connections'[c].status = status
      /\ \A d \in DOMAIN connections : d # c => connections'[d] = connections[d]
      /\ \A d \in DOMAIN connections : connections'[d].of = connections[d].of
  <2>1. connections \in Seq(Connection)
    BY <1>0 DEF McpTypeOK
  <2>2. connections' = [connections EXCEPT ![c] = [@ EXCEPT !.status = status]]
    BY <1>1 DEF OpenLost
  <2>3. PICK t : t = connections'
    OBVIOUS
  <2>4. status \in {"opening", "open", "closed"}
    OBVIOUS
  <2>5. t = [connections EXCEPT ![c] = [@ EXCEPT !.status = status]]
    BY <2>2, <2>3
  <2>6. /\ t \in Seq(Connection) /\ DOMAIN t = DOMAIN connections /\ Len(t) = Len(connections)
        /\ t[c].status = status
        /\ \A d \in DOMAIN connections : d # c => t[d] = connections[d]
        /\ \A d \in DOMAIN connections : t[d].of = connections[d].of
    BY <2>1, <2>4, <2>5, <1>2, StatusChange
  <2> QED
    BY <2>3, <2>6
<1>4. /\ named' = named /\ group' = group /\ cached' = cached /\ closing' = closing
      /\ reached' = reached /\ strays \subseteq strays' /\ (status = "open" => c \in strays')
      /\ mcpRun[r].pc = "opening"
  BY <1>1 DEF OpenLost
<1>5. PICK old \in RunState : old = mcpRun[r]
  BY <1>0 DEF McpTypeOK
<1>6. PICK new : new = [old EXCEPT !.pc = "done", !.opening = 0]
  OBVIOUS
<1>7. mcpRun' = [mcpRun EXCEPT ![r] = new]
  BY <1>5, <1>6 DEF OpenLost
<1>8. new.pc = "done" /\ new.members = old.members
  BY <1>6 DEF RunState
<1>9. new \in RunState
  BY <1>6 DEF RunState
<1>10. DistinctNames => MembersAreSound(new.members, connections)
  BY <1>0, <1>5, <1>8 DEF RunsAreSound
<1>11. RunsAreSound' /\ mcpRun' \in [McpRun -> RunState]
  <2>1. \A d \in DOMAIN connections :
          \/ connections'[d] = connections[d]
          \/ mcpRun[r].pc = "opening" /\ d = mcpRun[r].opening
    BY <1>1, <1>3, <1>4
  <2>2. new.pc # "opening" /\ (new.pc # "done" => Len(new.members) = new.position - 1)
    BY <1>8
  <2> QED
    BY <2>1, <2>2, <1>0, <1>3, <1>4, <1>7, <1>9, <1>10, RunMoves
<1>12. McpTypeOK'
  BY <1>0, <1>3, <1>4, <1>11 DEF McpTypeOK
<1>13. GroupsAreSound'
  <2> SUFFICES ASSUME NEW g \in Group, group[g] # 0
               PROVE  /\ group[g] \in DOMAIN connections'
                      /\ connections'[group[g]].of = g
                      /\ \/ connections'[group[g]].status = "open"
                         \/ connections'[group[g]].status = "closed" /\ closing.pc = "closed"
                                                                     /\ closing.of = g
    BY <1>4 DEF GroupsAreSound
  <2>1. group[g] \in DOMAIN connections /\ group[g] # c
    BY <1>0, <1>2 DEF GroupsAreSound
  <2> QED
    BY <2>1, <1>0, <1>3 DEF GroupsAreSound
<1>14. CacheIsSound'
  BY <1>0, <1>3, <1>4, CacheStays
<1>15. ConnectionsAreAlone'
  <2> SUFFICES ASSUME NEW d \in DOMAIN connections, d \notin strays'
               PROVE  AloneOpening(d)' /\ AloneOpen(d)'
    BY <1>3 DEF ConnectionsAreAlone
  <2>1. AloneOpening(d) /\ AloneOpen(d)
    BY <1>0, <1>4 DEF ConnectionsAreAlone
  <2>2. PICK h : h = connections[d].of
    OBVIOUS
  <2>3. \A e \in DOMAIN connections : connections'[e].status = "opening"
                                       => e # c /\ connections[e].status = "opening"
    BY <1>3
  <2>4. connections'[d].status = "open" => d # c /\ connections[d].status = "open"
    BY <1>3, <1>4
  <2>5. AloneOpening(d)'
    BY <1>3, <1>4, <2>1, <2>2, <2>3 DEF AloneOpening
  <2>6. AloneOpen(d)'
    BY <1>3, <1>4, <2>1, <2>2, <2>3, <2>4 DEF AloneOpen, DistinctNames
  <2> QED
    BY <2>5, <2>6
<1>16. ClosingIsSound'
  <2>1. \A h : IsClosed(h) => IsClosed(h)'
    BY <1>0, <1>2, <1>3, <1>4, ClosedStays
  <2> QED
    BY <2>1, <1>0, <1>4, ClosingStays
<1>17. OneConnectionPerGroup'
  BY <1>0, <1>2, <1>3, <1>4, OneConnectionStays
<1>18. CallsReachTheirServer'
  BY <1>0, <1>4 DEF CallsReachTheirServer, DistinctNames
<1> QED
  BY <1>11, <1>12, <1>13, <1>14, <1>15, <1>16, <1>17, <1>18 DEF McpInv

LEMMA OpenFailsKeeps ==
  ASSUME McpInv, NEW r \in McpRun, OpenFails(r) \/ OpenCancelled(r)
  PROVE  McpInv'
<1>1. CASE OpenFails(r)
  <2>1. OpenLost(r, "closed")
    BY <1>1 DEF OpenFails, OpenLost
  <2> QED
    BY <2>1, OpenLostKeeps
<1>2. CASE OpenCancelled(r)
  <2>1. OpenLost(r, "open")
    BY <1>2 DEF OpenCancelled, OpenLost
  <2> QED
    BY <2>1, OpenLostKeeps
<1> QED
  BY <1>1, <1>2

(* The connection of a run is ready: nobody else's, unless it is a stray.    *)
LEMMA OpenEndsKeeps ==
  ASSUME McpInv, NEW r \in McpRun, OpenEnds(r)
  PROVE  McpInv'
<1>0. /\ McpTypeOK /\ RunsAreSound /\ GroupsAreSound /\ CacheIsSound /\ ConnectionsAreAlone
      /\ ClosingIsSound /\ OneConnectionPerGroup /\ CallsReachTheirServer
  BY DEF McpInv
<1>1. PICK c : c = mcpRun[r].opening
  OBVIOUS
<1>2. PICK g : g = mcpRun[r].position
  OBVIOUS
<1>3. PICK m : m = [of |-> g, connection |-> c]
  OBVIOUS
<1>4. PICK new : new = Given(mcpRun[r], c)
  OBVIOUS
<1>5. /\ mcpRun[r].pc = "opening"
      /\ connections' = [connections EXCEPT ![c] = [@ EXCEPT !.status = "open"]]
      /\ group' = [group EXCEPT ![g] = c]
      /\ cached' = [cached EXCEPT ![named[g]] = m]
      /\ mcpRun' = [mcpRun EXCEPT ![r] = new]
      /\ named' = named /\ closing' = closing /\ reached' = reached /\ strays' = strays
  BY <1>1, <1>2, <1>3, <1>4 DEF OpenEnds, NextGroup
<1>6. /\ g \in Group /\ c \in DOMAIN connections
      /\ connections[c].status = "opening" /\ connections[c].of = g
  BY <1>0, <1>1, <1>2, <1>5, RunOpening
<1>7. c \in Nat /\ c # 0 /\ g # 0 /\ named[g] \in GroupIds
  BY <1>0, <1>6, ConnectionFields, McpAssumption DEF McpTypeOK, McpAssumption
<1>8. /\ connections' \in Seq(Connection) /\ DOMAIN connections' = DOMAIN connections
      /\ connections'[c].status = "open"
      /\ \A d \in DOMAIN connections : d # c => connections'[d] = connections[d]
      /\ \A d \in DOMAIN connections : connections'[d].of = connections[d].of
  <2>1. connections \in Seq(Connection)
    BY <1>0 DEF McpTypeOK
  <2>2. PICK t : t = connections'
    OBVIOUS
  <2>3. t = [connections EXCEPT ![c] = [@ EXCEPT !.status = "open"]]
    BY <1>5, <2>2
  <2>4. /\ t \in Seq(Connection) /\ DOMAIN t = DOMAIN connections
        /\ t[c].status = "open"
        /\ \A d \in DOMAIN connections : d # c => t[d] = connections[d]
        /\ \A d \in DOMAIN connections : t[d].of = connections[d].of
    BY <2>1, <2>3, <1>6, StatusChange
  <2> QED
    BY <2>2, <2>4
<1>9. m # NoMembers /\ m.of = g /\ m.connection = c
      /\ m \in [of : {0} \cup Group, connection : Nat]
  BY <1>3, <1>6, <1>7 DEF NoMembers
<1>10. group' \in [Group -> Nat] /\ group'[g] = c
       /\ \A h \in Group : h # g => group'[h] = group[h]
  BY <1>0, <1>5, <1>6, <1>7 DEF McpTypeOK
<1>11. /\ cached' \in [GroupIds -> [of : {0} \cup Group, connection : Nat]]
       /\ cached'[named[g]] = m
       /\ \A i \in GroupIds : i # named[g] => cached'[i] = cached[i]
  BY <1>0, <1>5, <1>7, <1>9 DEF McpTypeOK
<1>12. /\ new \in RunState /\ new.pc = "new" /\ Len(new.members) = new.position - 1
       /\ DistinctNames => MembersAreSound(new.members, connections)
  BY <1>0, <1>2, <1>4, <1>5, <1>6, GivenIsSound
<1>13. RunsAreSound' /\ mcpRun' \in [McpRun -> RunState]
  <2>1. \A d \in DOMAIN connections :
          \/ connections'[d] = connections[d]
          \/ mcpRun[r].pc = "opening" /\ d = mcpRun[r].opening
    BY <1>1, <1>5, <1>8
  <2> QED
    BY <2>1, <1>0, <1>5, <1>8, <1>12, RunMoves
<1>14. McpTypeOK'
  BY <1>0, <1>5, <1>8, <1>10, <1>11, <1>13 DEF McpTypeOK
<1>15. DistinctNames' <=> DistinctNames
  BY <1>5 DEF DistinctNames
<1>16. GroupsAreSound'
  <2> SUFFICES ASSUME NEW h \in Group, group'[h] # 0
               PROVE  /\ group'[h] \in DOMAIN connections'
                      /\ connections'[group'[h]].of = h
                      /\ \/ connections'[group'[h]].status = "open"
                         \/ connections'[group'[h]].status = "closed" /\ closing.pc = "closed"
                                                                     /\ closing.of = h
    BY <1>5 DEF GroupsAreSound
  <2>1. CASE h = g
    BY <2>1, <1>6, <1>8, <1>10
  <2>2. CASE h # g
    <3>1. group'[h] = group[h]
      BY <2>2, <1>10
    <3>2. group[h] \in DOMAIN connections /\ connections[group[h]].of = h
      BY <3>1, <1>0 DEF GroupsAreSound
    <3>3. connections'[group[h]] = connections[group[h]]
      BY <3>2, <2>2, <1>6, <1>8
    <3> QED
      BY <3>1, <3>2, <3>3, <1>0, <1>8 DEF GroupsAreSound
  <2> QED
    BY <2>1, <2>2
<1>17. /\ NamesCached' = NamesCached \cup {named[g]}
       /\ Cardinality(NamesCached) \in Nat
       /\ named[g] \notin NamesCached => Cardinality(NamesCached)' = Cardinality(NamesCached) + 1
       /\ named[g] \in NamesCached => Cardinality(NamesCached)' = Cardinality(NamesCached)
  BY <1>0, <1>5, <1>7, <1>9, OneMoreName
<1>18. CacheIsSound'
  <2> SUFFICES ASSUME NEW i \in NamesCached'
               PROVE  /\ cached'[i].of \in Group /\ named[cached'[i].of] = i
                      /\ cached'[i].connection \in DOMAIN connections'
                      /\ connections'[cached'[i].connection].of = cached'[i].of
    BY <1>5 DEF CacheIsSound
  <2>1. CASE i = named[g]
    BY <2>1, <1>6, <1>8, <1>9, <1>11
  <2>2. CASE i # named[g] /\ i \in NamesCached
    <3>1. i \in GroupIds /\ cached'[i] = cached[i]
      BY <2>2, <1>11 DEF NamesCached
    <3> QED
      BY <3>1, <2>2, <1>0, <1>8 DEF CacheIsSound
  <2> QED
    BY <1>17, <2>1, <2>2
<1>19. ConnectionsAreAlone'
  <2> SUFFICES ASSUME NEW d \in DOMAIN connections, d \notin strays
               PROVE  AloneOpening(d)' /\ AloneOpen(d)'
    BY <1>5, <1>8 DEF ConnectionsAreAlone
  <2>1. AloneOpening(d) /\ AloneOpen(d)
    BY <1>0 DEF ConnectionsAreAlone
  <2>2. PICK h \in Group : h = connections[d].of
    BY <1>0, ConnectionFields
  <2>3. named[h] \in GroupIds
    BY <1>0 DEF McpTypeOK
  <2>4. \A e \in DOMAIN connections : connections'[e].status = "opening"
                                       => e # c /\ connections[e].status = "opening"
    BY <1>8
  <2>5. AloneOpening(d)'
    <3> SUFFICES ASSUME connections'[d].status = "opening"
                 PROVE  /\ group'[h] = 0 /\ cached'[named[h]].of # h
                        /\ \A e \in DOMAIN connections : e # d /\ connections[e].of = h
                                             => connections'[e].status # "opening"
      BY <1>5, <1>8, <2>2 DEF AloneOpening
    <3>1. d # c /\ connections[d].status = "opening"
      BY <2>4
    <3>2. /\ group[h] = 0 /\ cached[named[h]].of # h
          /\ \A e \in DOMAIN connections : e # d /\ connections[e].of = h
                                             => connections[e].status # "opening"
      BY <3>1, <2>1, <2>2 DEF AloneOpening
    <3>3. h # g
      BY <3>1, <3>2, <1>6
    <3>4. group'[h] = 0
      BY <3>2, <3>3, <1>10
    <3>5. cached'[named[h]].of # h
      BY <3>2, <3>3, <2>3, <1>9, <1>11
    <3> QED
      BY <3>2, <3>4, <3>5, <2>4
  <2>6. AloneOpen(d)'
    <3> SUFFICES ASSUME connections'[d].status = "open"
                 PROVE  /\ group'[h] = d
                        /\ DistinctNames => cached'[named[h]].of = h
                        /\ \A e \in DOMAIN connections : connections[e].of = h
                                             => connections'[e].status # "opening"
      BY <1>5, <1>8, <1>15, <2>2 DEF AloneOpen
    <3>1. CASE d = c
      <4>1. h = g
        BY <3>1, <2>2, <1>6
      <4>2. \A e \in DOMAIN connections : e # c /\ connections[e].of = h
                                            => connections[e].status # "opening"
        BY <3>1, <2>1, <2>2, <1>6 DEF AloneOpening
      <4> QED
        BY <4>1, <4>2, <3>1, <2>4, <1>9, <1>10, <1>11
    <3>2. CASE d # c
      <4>1. connections[d].status = "open"
        BY <3>2, <1>8
      <4>2. /\ group[h] = d
            /\ DistinctNames => cached[named[h]].of = h
            /\ \A e \in DOMAIN connections : connections[e].of = h
                                               => connections[e].status # "opening"
        BY <4>1, <2>1, <2>2 DEF AloneOpen
      <4>3. h # g
        BY <4>2, <1>6
      <4>4. group'[h] = d
        BY <4>2, <4>3, <1>10
      <4>5. DistinctNames => named[h] # named[g]
        BY <4>3, <1>6 DEF DistinctNames
      <4>6. DistinctNames => cached'[named[h]].of = h
        BY <4>2, <4>5, <2>3, <1>11
      <4> QED
        BY <4>2, <4>4, <4>6, <2>4
    <3> QED
      BY <3>1, <3>2
  <2> QED
    BY <2>5, <2>6
<1>20. \A h : IsClosed(h) => IsClosed(h)'
  BY <1>0, <1>5, <1>6, <1>8, ClosedStays
<1>21. ClosingIsSound'
  <2>1. CASE named[g] \notin NamesCached
    BY <2>1, <1>0, <1>5, <1>17, <1>20, ClosingOutgrown
  <2>2. CASE named[g] \in NamesCached
    <3>1. NamesCached' = NamesCached
      BY <2>2, <1>17
    <3>2. DistinctNames => \A i \in NamesCached : cached'[i].of = cached[i].of
      <4> SUFFICES ASSUME DistinctNames, NEW i \in NamesCached
                   PROVE  cached'[i].of = cached[i].of
        OBVIOUS
      <4>1. i \in GroupIds
        BY DEF NamesCached
      <4>2. CASE i # named[g]
        BY <4>1, <4>2, <1>11
      <4>3. CASE i = named[g]
        <5>1. cached[i].of \in Group /\ named[cached[i].of] = i
          BY <1>0 DEF CacheIsSound
        <5>2. cached[i].of = g
          BY <5>1, <4>3, <1>6 DEF DistinctNames
        <5> QED
          BY <5>2, <4>3, <1>9, <1>11
      <4> QED
        BY <4>2, <4>3
    <3> QED
      BY <3>1, <3>2, <1>0, <1>5, <1>15, <1>20, ClosingGoesOn
  <2> QED
    BY <2>1, <2>2
<1>22. OneConnectionPerGroup'
  BY <1>0, <1>5, <1>6, <1>8, OneConnectionStays
<1>23. CallsReachTheirServer'
  BY <1>0, <1>5, <1>15 DEF CallsReachTheirServer
<1> QED
  BY <1>13, <1>14, <1>16, <1>18, <1>19, <1>21, <1>22, <1>23 DEF McpInv

(* A run opens a connection: alone, or beside others that are strays then.   *)
LEMMA OpenStartsKeeps ==
  ASSUME McpInv, NEW r \in McpRun, OpenStarts(r)
  PROVE  McpInv'
<1>0. /\ McpTypeOK /\ RunsAreSound /\ GroupsAreSound /\ CacheIsSound /\ ConnectionsAreAlone
      /\ ClosingIsSound /\ OneConnectionPerGroup /\ CallsReachTheirServer
  BY DEF McpInv
<1>1. PICK g : g = mcpRun[r].position
  OBVIOUS
<1>2. PICK n : n = Len(connections) + 1
  OBVIOUS
<1>3. PICK old \in RunState : old = mcpRun[r]
  BY <1>0 DEF McpTypeOK
<1>4. PICK new : new = [old EXCEPT !.pc = "opening", !.opening = n]
  OBVIOUS
<1>5. PICK beside : beside = {c \in DOMAIN connections :
                                connections[c] = [of |-> g, status |-> "opening"]}
  OBVIOUS
<1>6. PICK c0 : c0 = [of |-> g, status |-> "opening"]
  OBVIOUS
<1>7. /\ old.pc = "new" /\ g \in Group /\ cached[named[g]] = NoMembers /\ group[g] = 0
      /\ connections' = Append(connections, c0)
      /\ named' = named /\ group' = group /\ cached' = cached
      /\ closing' = closing /\ reached' = reached
  BY <1>1, <1>3, <1>6 DEF OpenStarts, Expanding, NextGroup
<1>8. c0 \in Connection /\ c0.of = g /\ c0.status = "opening"
  BY <1>6, <1>7 DEF Connection
<1>9. /\ DOMAIN connections = 1..Len(connections) /\ Len(connections) \in Nat
      /\ connections \in Seq(Connection)
  BY <1>0, ConnectionFields DEF McpTypeOK
<1>10. /\ connections' \in Seq(Connection) /\ Len(connections') = n
       /\ DOMAIN connections' = DOMAIN connections \cup {n} /\ n \notin DOMAIN connections
       /\ n \in Nat
       /\ connections'[n] = c0
       /\ \A d \in DOMAIN connections : connections'[d] = connections[d]
  <2>1. Len(connections') = n /\ connections' \in Seq(Connection) /\ n \in Nat
    BY <1>2, <1>7, <1>8, <1>9
  <2>2. DOMAIN connections' = 1..n
    BY <2>1
  <2>3. DOMAIN connections' = DOMAIN connections \cup {n} /\ n \notin DOMAIN connections
    BY <2>2, <1>2, <1>9
  <2>4. connections'[n] = c0 /\ \A d \in DOMAIN connections : connections'[d] = connections[d]
    BY <1>2, <1>7, <1>8, <1>9
  <2> QED
    BY <2>1, <2>3, <2>4
<1>11. mcpRun' = [mcpRun EXCEPT ![r] = new]
  BY <1>3, <1>4, <1>10 DEF OpenStarts
<1>12. strays' = strays \cup beside \cup (IF beside = {} THEN {} ELSE {n})
  BY <1>1, <1>5, <1>10 DEF OpenStarts, NextGroup
<1>13. /\ new.pc = "opening" /\ new.opening = n /\ new.position = g
       /\ new.members = old.members
  BY <1>1, <1>3, <1>4 DEF RunState
<1>14. new \in RunState
  BY <1>4, <1>10 DEF RunState
<1>15. /\ mcpRun' \in [McpRun -> RunState] /\ mcpRun'[r] = new
       /\ \A s \in McpRun : s # r => mcpRun'[s] = mcpRun[s]
  BY <1>0, <1>11, <1>14 DEF McpTypeOK
<1>16. McpTypeOK'
  BY <1>0, <1>7, <1>10, <1>15 DEF McpTypeOK
<1>17. DistinctNames' <=> DistinctNames
  BY <1>7 DEF DistinctNames
<1>18. RunsAreSound'
  <2>1. ASSUME NEW s \in McpRun, mcpRun'[s].pc = "opening"
        PROVE  /\ mcpRun'[s].position \in Group
               /\ mcpRun'[s].opening \in DOMAIN connections'
               /\ connections'[mcpRun'[s].opening]
                    = [of |-> mcpRun'[s].position, status |-> "opening"]
               /\ \A u \in McpRun : u # s /\ mcpRun'[u].pc = "opening"
                                      => mcpRun'[u].opening # mcpRun'[s].opening
    <3>1. CASE s = r
      <4>1. \A u \in McpRun : u # s /\ mcpRun'[u].pc = "opening"
                                => mcpRun'[u].opening \in DOMAIN connections
        BY <3>1, <1>0, <1>15, RunOpening
      <4> QED
        BY <4>1, <3>1, <1>6, <1>7, <1>10, <1>13, <1>15
    <3>2. CASE s # r
      <4>1. /\ mcpRun[s].position \in Group /\ mcpRun[s].opening \in DOMAIN connections
            /\ connections[mcpRun[s].opening] = [of |-> mcpRun[s].position, status |-> "opening"]
            /\ \A u \in McpRun : u # s /\ mcpRun[u].pc = "opening"
                                   => mcpRun[u].opening # mcpRun[s].opening
        BY <2>1, <3>2, <1>0, <1>15 DEF RunsAreSound
      <4>2. connections'[mcpRun[s].opening] = connections[mcpRun[s].opening]
            /\ mcpRun[s].opening # n
        BY <4>1, <1>10
      <4>3. \A u \in McpRun : u # s /\ mcpRun'[u].pc = "opening"
                                   => mcpRun'[u].opening # mcpRun[s].opening
        BY <4>1, <4>2, <1>13, <1>15
      <4> QED
        BY <4>1, <4>2, <4>3, <3>2, <1>10, <1>15
    <3> QED
      BY <3>1, <3>2
  <2>2. \A s \in McpRun : mcpRun'[s].pc # "done"
                            => Len(mcpRun'[s].members) = mcpRun'[s].position - 1
    BY <1>0, <1>1, <1>3, <1>7, <1>13, <1>15 DEF RunsAreSound
  <2>3. ASSUME DistinctNames, NEW s \in McpRun
        PROVE  MembersAreSound(mcpRun'[s].members, connections')
    <3>1. PICK members : members = mcpRun'[s].members
      OBVIOUS
    <3>2. MembersAreSound(members, connections)
      BY <3>1, <2>3, <1>0, <1>3, <1>13, <1>15 DEF RunsAreSound
    <3>3. MembersAreSound(members, connections')
      BY <3>2, <1>10 DEF MembersAreSound
    <3> QED
      BY <3>1, <3>3
  <2> QED
    BY <2>1, <2>2, <2>3, <1>17 DEF RunsAreSound
<1>19. GroupsAreSound'
  <2> SUFFICES ASSUME NEW h \in Group, group[h] # 0
               PROVE  /\ group[h] \in DOMAIN connections'
                      /\ connections'[group[h]].of = h
                      /\ \/ connections'[group[h]].status = "open"
                         \/ connections'[group[h]].status = "closed" /\ closing.pc = "closed"
                                                                     /\ closing.of = h
    BY <1>7 DEF GroupsAreSound
  <2>1. group[h] \in DOMAIN connections
    BY <1>0 DEF GroupsAreSound
  <2>2. connections'[group[h]] = connections[group[h]]
    BY <2>1, <1>10
  <2> QED
    BY <2>1, <2>2, <1>0, <1>10 DEF GroupsAreSound
<1>20. CacheIsSound' /\ NamesCached' = NamesCached
  BY <1>0, <1>7, <1>10, CacheStays
<1>21. named[g] \notin NamesCached
  BY <1>7 DEF NamesCached
<1>22. ConnectionsAreAlone'
  <2> SUFFICES ASSUME NEW d \in DOMAIN connections', d \notin strays'
               PROVE  AloneOpening(d)' /\ AloneOpen(d)'
    BY DEF ConnectionsAreAlone
  <2>1. CASE d = n
    <3>1. beside = {}
      BY <2>1, <1>12
    <3>2. \A e \in DOMAIN connections : connections[e].of = g => connections[e].status # "opening"
      <4> SUFFICES ASSUME NEW e \in DOMAIN connections, connections[e].of = g,
                          connections[e].status = "opening"
                   PROVE  e \in beside
        BY <3>1
      <4>1. connections[e] = [of |-> connections[e].of, status |-> connections[e].status]
        BY <1>0, ConnectionFields
      <4> QED
        BY <4>1, <1>5
    <3>3. cached[named[g]].of # g /\ g # 0
      BY <1>7, McpAssumption DEF NoMembers, McpAssumption
    <3>4. AloneOpening(d)'
      BY <2>1, <3>2, <3>3, <1>7, <1>8, <1>10 DEF AloneOpening
    <3>5. AloneOpen(d)'
      BY <2>1, <1>8, <1>10 DEF AloneOpen
    <3> QED
      BY <3>4, <3>5
  <2>2. CASE d \in DOMAIN connections
    <3>1. AloneOpening(d) /\ AloneOpen(d) /\ d \notin beside
      BY <2>2, <1>0, <1>12 DEF ConnectionsAreAlone
    <3>2. PICK h \in Group : h = connections[d].of
      BY <2>2, <1>0, ConnectionFields
    <3>3. connections[d].status = "opening" => h # g
      <4>1. connections[d] = [of |-> connections[d].of, status |-> connections[d].status]
        BY <2>2, <1>0, ConnectionFields
      <4> QED
        BY <4>1, <3>1, <3>2, <2>2, <1>5
    <3>4. connections[d].status = "open" => h # g
      <4>1. d # 0
        BY <2>2, <1>9
      <4> QED
        BY <4>1, <3>1, <3>2, <1>7 DEF AloneOpen
    <3>5. h # g => \A e \in DOMAIN connections' : connections'[e].of = h =>
                     e \in DOMAIN connections /\ connections'[e] = connections[e]
      BY <1>8, <1>10
    <3>6. connections'[d] = connections[d]
      BY <2>2, <1>10
    <3>7. AloneOpening(d)'
      BY <3>1, <3>2, <3>3, <3>5, <3>6, <1>7 DEF AloneOpening
    <3>8. AloneOpen(d)'
      BY <3>1, <3>2, <3>4, <3>5, <3>6, <1>7, <1>17 DEF AloneOpen
    <3> QED
      BY <3>7, <3>8
  <2> QED
    BY <2>1, <2>2, <1>10
<1>23. ASSUME NEW h, h # g, IsClosed(h)
       PROVE  IsClosed(h)'
  <2> SUFFICES ASSUME NEW d \in DOMAIN connections', d \notin strays', connections'[d].of = h
               PROVE  connections'[d].status = "closed"
    BY DEF IsClosed
  <2>1. d \in DOMAIN connections /\ connections'[d] = connections[d] /\ d \notin strays
    BY <1>8, <1>10, <1>12, <1>23
  <2> QED
    BY <2>1, <1>23 DEF IsClosed
<1>24. ClosingIsSound'
  <2> SUFFICES ASSUME closing.pc # "idle"
               PROVE  ClosingIsSound'
    BY <1>7 DEF ClosingIsSound
  <2>1. /\ \A k \in DOMAIN closing.left : closing.left[k] \in NamesCached
        /\ closing.size <= Cardinality(NamesCached)
    BY <1>0 DEF ClosingIsSound
  <2>2. closing.left \in Seq(GroupIds)
    BY <1>0 DEF McpTypeOK
  <2>3. closing.pc = "closed" => /\ closing.left # <<>> /\ closing.of \in Group
                                 /\ named[closing.of] = Head(closing.left)
                                 /\ IsClosed(closing.of)
    BY <1>0 DEF ClosingIsSound
  <2>4. closing.pc = "closed" => closing.of # g
    <3>1. closing.pc = "closed" => Head(closing.left) \in NamesCached
      BY <2>1, <2>2, <2>3
    <3> QED
      BY <3>1, <2>3, <1>21
  <2>5. closing.pc = "closed" => IsClosed(closing.of)'
    <3>1. PICK h : h = closing.of
      OBVIOUS
    <3>2. closing.pc = "closed" => IsClosed(h)'
      BY <3>1, <2>3, <2>4, <1>23
    <3> QED
      BY <3>1, <3>2, <1>7
  <2>6. ASSUME DistinctNames, Cardinality(NamesCached) = closing.size,
               NEW i \in NamesCached, ~ \E k \in DOMAIN closing.left : closing.left[k] = i
        PROVE  IsClosed(cached[i].of)'
    <3>1. PICK h : h = cached[i].of
      OBVIOUS
    <3>2. IsClosed(h)
      BY <2>6, <3>1, <1>0 DEF ClosingIsSound
    <3>3. h # g
      BY <3>1, <1>0, <1>21 DEF CacheIsSound
    <3>4. IsClosed(h)'
      BY <3>2, <3>3, <1>23
    <3> QED
      BY <3>1, <3>4, <1>7
  <2> QED
    BY <2>1, <2>3, <2>5, <2>6, <1>7, <1>17, <1>20 DEF ClosingIsSound
<1>25. OneConnectionPerGroup'
  <2> SUFFICES ASSUME NEW c \in DOMAIN connections', NEW d \in DOMAIN connections', c < d,
                      connections'[c].of = connections'[d].of,
                      connections'[c].status \in {"open", "opening"},
                      connections'[d].status \in {"open", "opening"}, c \notin strays'
               PROVE  FALSE
    BY DEF OneConnectionPerGroup
  <2>1. c \in DOMAIN connections /\ connections'[c] = connections[c] /\ c \notin strays
        /\ c \notin beside
    BY <1>2, <1>9, <1>10, <1>12
  <2>2. CASE d = n
    <3>1. connections[c].of = g
      BY <2>1, <2>2, <1>8, <1>10
    <3>2. connections[c].status # "opening"
      <4>1. connections[c] = [of |-> connections[c].of, status |-> connections[c].status]
        BY <2>1, <1>0, ConnectionFields
      <4> QED
        BY <4>1, <3>1, <2>1, <1>5
    <3>3. connections[c].status = "open"
      BY <3>2, <2>1
    <3>4. group[g] = c
      BY <3>1, <3>3, <2>1, <1>0 DEF ConnectionsAreAlone, AloneOpen
    <3> QED
      BY <3>4, <2>1, <1>7, <1>9
  <2>3. CASE d \in DOMAIN connections
    <3>1. connections'[d] = connections[d]
      BY <2>3, <1>10
    <3> QED
      BY <3>1, <2>1, <2>3, <1>0 DEF OneConnectionPerGroup
  <2> QED
    BY <2>2, <2>3, <1>10
<1>26. CallsReachTheirServer'
  BY <1>0, <1>7, <1>17 DEF CallsReachTheirServer
<1> QED
  BY <1>16, <1>18, <1>19, <1>20, <1>22, <1>24, <1>25, <1>26 DEF McpInv

-----------------------------------------------------------------------------
(* aclose.                                                                 *)

LEMMA CloseStartsKeeps ==
  ASSUME McpInv, CloseStarts
  PROVE  McpInv'
<1>0. /\ McpTypeOK /\ RunsAreSound /\ GroupsAreSound /\ CacheIsSound /\ ConnectionsAreAlone
      /\ ClosingIsSound /\ OneConnectionPerGroup /\ CallsReachTheirServer
  BY DEF McpInv
<1>1. /\ closing.pc = "idle"
      /\ named' = named /\ connections' = connections /\ group' = group /\ cached' = cached
      /\ mcpRun' = mcpRun /\ reached' = reached /\ strays' = strays
  BY DEF CloseStarts
<1>2. PICK n : n = Cardinality(NamesCached)
  OBVIOUS
<1>3. PICK order \in [1..n -> NamesCached] :
        /\ \A i, j \in DOMAIN order : i # j => order[i] # order[j]
        /\ closing' = [pc |-> "next", left |-> order, size |-> n, of |-> 0]
  BY <1>2 DEF CloseStarts
<1>4. IsFiniteSet(NamesCached) /\ n \in Nat
  <2>1. NamesCached \subseteq GroupIds
    BY DEF NamesCached
  <2>2. IsFiniteSet(NamesCached)
    BY <2>1, FS_Subset, McpAssumption DEF McpAssumption
  <2> QED
    BY <2>2, <1>2, FS_CardinalityType
<1>5. \A i \in NamesCached : \E k \in DOMAIN order : order[k] = i
  <2>1. order \in Injection(1..n, NamesCached)
    BY <1>3 DEF Injection, IsInjective
  <2>2. Cardinality(1..n) = n
    BY <1>4, FS_Interval
  <2>3. order \in Surjection(1..n, NamesCached)
    BY <2>1, <2>2, <1>2, <1>4, FS_Injection
  <2> QED
    BY <2>3 DEF Surjection
<1>6. order \in Seq(GroupIds) /\ \A k \in DOMAIN order : order[k] \in NamesCached
  <2>1. NamesCached \subseteq GroupIds
    BY DEF NamesCached
  <2>2. order \in [1..n -> GroupIds]
    BY <2>1
  <2> QED
    BY <2>2, <1>4
<1>7. /\ closing'.pc = "next" /\ closing'.left = order /\ closing'.size = n /\ closing'.of = 0
      /\ closing' \in [pc : {"idle", "next", "closed"}, left : Seq(GroupIds), size : Nat,
                       of : {0} \cup Group]
  BY <1>3, <1>4, <1>6
<1>8. McpTypeOK'
  BY <1>0, <1>1, <1>7 DEF McpTypeOK
<1>9. RunsAreSound'
  BY <1>0, <1>1 DEF RunsAreSound, DistinctNames
<1>10. GroupsAreSound'
  BY <1>0, <1>1 DEF GroupsAreSound
<1>11. CacheIsSound' /\ NamesCached' = NamesCached
  BY <1>0, <1>1, CacheStays
<1>12. ConnectionsAreAlone' /\ OneConnectionPerGroup' /\ CallsReachTheirServer'
  BY <1>0, <1>1 DEF ConnectionsAreAlone, AloneOpen, AloneOpening, DistinctNames,
                    OneConnectionPerGroup, CallsReachTheirServer
<1>13. ClosingIsSound'
  <2>1. n <= n
    BY <1>4
  <2> QED
    BY <2>1, <1>2, <1>5, <1>6, <1>7, <1>11 DEF ClosingIsSound
<1> QED
  BY <1>8, <1>9, <1>10, <1>11, <1>12, <1>13 DEF McpInv

LEMMA CloseRaisesKeeps ==
  ASSUME McpInv, CloseRaises
  PROVE  McpInv'
<1>0. /\ McpTypeOK /\ RunsAreSound /\ GroupsAreSound /\ CacheIsSound /\ ConnectionsAreAlone
      /\ ClosingIsSound /\ OneConnectionPerGroup /\ CallsReachTheirServer
  BY DEF McpInv
<1>1. /\ closing.pc = "next" /\ closing' = NotClosing
      /\ named' = named /\ connections' = connections /\ group' = group /\ cached' = cached
      /\ mcpRun' = mcpRun /\ reached' = reached /\ strays' = strays
  BY DEF CloseRaises
<1>2. closing'.pc = "idle" /\ closing' \in [pc : {"idle", "next", "closed"},
                                            left : Seq(GroupIds), size : Nat, of : {0} \cup Group]
  BY <1>1 DEF NotClosing
<1>3. McpTypeOK'
  BY <1>0, <1>1, <1>2 DEF McpTypeOK
<1>4. RunsAreSound'
  BY <1>0, <1>1 DEF RunsAreSound, DistinctNames
<1>5. GroupsAreSound'
  BY <1>0, <1>1 DEF GroupsAreSound
<1>6. CacheIsSound'
  BY <1>0, <1>1, CacheStays
<1>7. ConnectionsAreAlone' /\ OneConnectionPerGroup' /\ CallsReachTheirServer'
  BY <1>0, <1>1 DEF ConnectionsAreAlone, AloneOpen, AloneOpening, DistinctNames,
                    OneConnectionPerGroup, CallsReachTheirServer
<1>8. ClosingIsSound'
  BY <1>2 DEF ClosingIsSound
<1> QED
  BY <1>3, <1>4, <1>5, <1>6, <1>7, <1>8 DEF McpInv

(* The group of the next name is closed: nothing of it stays open but strays. *)
LEMMA GroupClosesKeeps ==
  ASSUME McpInv, GroupCloses
  PROVE  McpInv'
<1>0. /\ McpTypeOK /\ RunsAreSound /\ GroupsAreSound /\ CacheIsSound /\ ConnectionsAreAlone
      /\ ClosingIsSound /\ OneConnectionPerGroup /\ CallsReachTheirServer
  BY DEF McpInv
<1>1. PICK i : i = Head(closing.left)
  OBVIOUS
<1>2. PICK g : g = cached[i].of
  OBVIOUS
<1>3. PICK c : c = group[g]
  OBVIOUS
<1>4. /\ closing.pc = "next" /\ closing.left # <<>>
      /\ named' = named /\ group' = group /\ cached' = cached /\ mcpRun' = mcpRun
      /\ reached' = reached /\ strays' = strays
  BY DEF GroupCloses
<1>5. closing' = [closing EXCEPT !.pc = "closed", !.of = g]
  BY <1>1, <1>2 DEF GroupCloses
<1>6. /\ c = 0 => connections' = connections
      /\ c # 0 => connections' = [connections EXCEPT ![c] = [@ EXCEPT !.status = "closed"]]
  BY <1>1, <1>2, <1>3 DEF GroupCloses
<1>7. i \in NamesCached
  <2>1. closing.left \in Seq(GroupIds)
    BY <1>0 DEF McpTypeOK
  <2>2. \A k \in DOMAIN closing.left : closing.left[k] \in NamesCached
    BY <1>0, <1>4 DEF ClosingIsSound
  <2> QED
    BY <2>1, <2>2, <1>1, <1>4
<1>8. g \in Group /\ named[g] = i
  BY <1>0, <1>2, <1>7 DEF CacheIsSound
<1>9. c # 0 => c \in DOMAIN connections /\ connections[c].of = g /\ connections[c].status = "open"
  BY <1>0, <1>3, <1>4, <1>8 DEF GroupsAreSound
<1>10. /\ connections' \in Seq(Connection) /\ DOMAIN connections' = DOMAIN connections
       /\ c # 0 => connections'[c].status = "closed"
       /\ \A d \in DOMAIN connections : d # c => connections'[d] = connections[d]
       /\ \A d \in DOMAIN connections : connections'[d].of = connections[d].of
  <2>1. connections \in Seq(Connection)
    BY <1>0 DEF McpTypeOK
  <2>2. CASE c = 0
    BY <2>1, <2>2, <1>6
  <2>3. CASE c # 0
    <3>1. PICK t : t = connections'
      OBVIOUS
    <3>2. t = [connections EXCEPT ![c] = [@ EXCEPT !.status = "closed"]]
      BY <3>1, <2>3, <1>6
    <3>3. /\ t \in Seq(Connection) /\ DOMAIN t = DOMAIN connections
          /\ t[c].status = "closed"
          /\ \A d \in DOMAIN connections : d # c => t[d] = connections[d]
          /\ \A d \in DOMAIN connections : t[d].of = connections[d].of
      BY <2>1, <2>3, <3>2, <1>9, StatusChange
    <3> QED
      BY <3>1, <3>3
  <2> QED
    BY <2>2, <2>3
<1>11. PICK was \in [pc : {"idle", "next", "closed"}, left : Seq(GroupIds), size : Nat,
                     of : {0} \cup Group] : was = closing
  BY <1>0 DEF McpTypeOK
<1>12. PICK new : new = [was EXCEPT !.pc = "closed", !.of = g]
  OBVIOUS
<1>13. new.pc = "closed" /\ new.of = g /\ new.left = was.left /\ new.size = was.size
  BY <1>12
<1>14. new \in [pc : {"idle", "next", "closed"}, left : Seq(GroupIds), size : Nat,
                of : {0} \cup Group]
  BY <1>8, <1>12
<1>15. closing' = new
  BY <1>5, <1>11, <1>12
<1>16. McpTypeOK'
  BY <1>0, <1>4, <1>10, <1>14, <1>15 DEF McpTypeOK
<1>17. DistinctNames' <=> DistinctNames
  BY <1>4 DEF DistinctNames
<1>18. RunsAreSound'
  <2>1. ASSUME NEW s \in McpRun, mcpRun[s].pc = "opening"
        PROVE  connections'[mcpRun[s].opening] = connections[mcpRun[s].opening]
    BY <2>1, <1>0, <1>9, <1>10, RunOpening, ConnectionFields
  <2>2. ASSUME DistinctNames, NEW s \in McpRun
        PROVE  MembersAreSound(mcpRun[s].members, connections')
    <3>1. MembersAreSound(mcpRun[s].members, connections)
      BY <2>2, <1>0 DEF RunsAreSound
    <3> QED
      BY <3>1, <1>10 DEF MembersAreSound
  <2> QED
    BY <2>1, <2>2, <1>0, <1>4, <1>10, <1>17 DEF RunsAreSound
<1>19. GroupsAreSound'
  <2> SUFFICES ASSUME NEW h \in Group, group[h] # 0
               PROVE  /\ group[h] \in DOMAIN connections'
                      /\ connections'[group[h]].of = h
                      /\ \/ connections'[group[h]].status = "open"
                         \/ connections'[group[h]].status = "closed" /\ new.pc = "closed"
                                                                     /\ new.of = h
    BY <1>4, <1>15 DEF GroupsAreSound
  <2>1. group[h] \in DOMAIN connections /\ connections[group[h]].of = h
        /\ connections[group[h]].status = "open"
    BY <1>0, <1>4 DEF GroupsAreSound
  <2>2. CASE h = g
    BY <2>1, <2>2, <1>3, <1>10, <1>13
  <2>3. CASE h # g
    <3>1. group[h] # c
      BY <2>1, <2>3, <1>9
    <3> QED
      BY <2>1, <3>1, <1>10
  <2> QED
    BY <2>2, <2>3
<1>20. CacheIsSound' /\ NamesCached' = NamesCached
  BY <1>0, <1>4, <1>10, CacheStays
<1>21. \A d \in DOMAIN connections :
         /\ connections'[d].status = "opening" => connections[d].status = "opening"
         /\ connections'[d].status = "open" => connections[d].status = "open"
  <2>1. \A d \in DOMAIN connections : d # 0
    BY <1>0, ConnectionFields
  <2> QED
    BY <2>1, <1>10
<1>22. ConnectionsAreAlone'
  <2> SUFFICES ASSUME NEW d \in DOMAIN connections, d \notin strays
               PROVE  AloneOpening(d)' /\ AloneOpen(d)'
    BY <1>4, <1>10 DEF ConnectionsAreAlone
  <2>1. AloneOpening(d) /\ AloneOpen(d)
    BY <1>0 DEF ConnectionsAreAlone
  <2>2. AloneOpening(d)'
    BY <2>1, <1>4, <1>10, <1>21 DEF AloneOpening
  <2>3. AloneOpen(d)'
    BY <2>1, <1>4, <1>10, <1>17, <1>21 DEF AloneOpen
  <2> QED
    BY <2>2, <2>3
<1>23. \A h : IsClosed(h) => IsClosed(h)'
  <2>1. CASE c = 0
    BY <2>1, <1>4, <1>6 DEF IsClosed
  <2>2. CASE c # 0
    BY <2>2, <1>0, <1>4, <1>9, <1>10, ClosedStays
  <2> QED
    BY <2>1, <2>2
<1>24. IsClosed(g)'
  <2> SUFFICES ASSUME NEW d \in DOMAIN connections, d \notin strays, connections[d].of = g
               PROVE  connections'[d].status = "closed"
    BY <1>4, <1>10 DEF IsClosed
  <2>1. AloneOpening(d) /\ AloneOpen(d)
    BY <1>0 DEF ConnectionsAreAlone
  <2>2. connections[d].status # "opening"
    BY <2>1, <1>2, <1>8 DEF AloneOpening
  <2>3. CASE connections[d].status = "open"
    BY <2>1, <2>3, <1>0, <1>3, <1>10, ConnectionFields DEF AloneOpen
  <2>4. CASE connections[d].status = "closed"
    BY <2>4, <1>0, <1>10, <1>21, ConnectionFields
  <2> QED
    BY <2>2, <2>3, <2>4, <1>0, ConnectionFields
<1>25. ClosingIsSound'
  <2>1. /\ \A k \in DOMAIN new.left : new.left[k] \in NamesCached
        /\ new.size <= Cardinality(NamesCached)
    BY <1>0, <1>4, <1>11, <1>13 DEF ClosingIsSound
  <2>2. new.left # <<>> /\ new.of \in Group /\ named[new.of] = Head(new.left)
    BY <1>1, <1>4, <1>8, <1>11, <1>13
  <2>3. IsClosed(closing.of)'
    BY <1>13, <1>15, <1>24
  <2>4. ASSUME DistinctNames, Cardinality(NamesCached) = new.size,
               NEW j \in NamesCached, ~ \E k \in DOMAIN new.left : new.left[k] = j
        PROVE  IsClosed(cached[j].of)'
    <3>1. PICK h : h = cached[j].of
      OBVIOUS
    <3>2. IsClosed(h)
      BY <2>4, <3>1, <1>0, <1>4, <1>11, <1>13 DEF ClosingIsSound
    <3> QED
      BY <3>1, <3>2, <1>4, <1>23
  <2> QED
    BY <2>1, <2>2, <2>3, <2>4, <1>4, <1>13, <1>15, <1>17, <1>20 DEF ClosingIsSound
<1>26. OneConnectionPerGroup'
  <2>1. CASE c = 0
    BY <2>1, <1>0, <1>4, <1>6 DEF OneConnectionPerGroup
  <2>2. CASE c # 0
    BY <2>2, <1>0, <1>4, <1>9, <1>10, OneConnectionStays
  <2> QED
    BY <2>1, <2>2
<1>27. CallsReachTheirServer'
  BY <1>0, <1>4, <1>17 DEF CallsReachTheirServer
<1> QED
  BY <1>16, <1>18, <1>19, <1>20, <1>22, <1>25, <1>26, <1>27 DEF McpInv

(* The group that was closed is forgotten, and its name is done.             *)
LEMMA GroupClosedKeeps ==
  ASSUME McpInv, GroupClosed
  PROVE  McpInv'
<1>0. /\ McpTypeOK /\ RunsAreSound /\ GroupsAreSound /\ CacheIsSound /\ ConnectionsAreAlone
      /\ ClosingIsSound /\ OneConnectionPerGroup /\ CallsReachTheirServer
  BY DEF McpInv
<1>1. PICK g : g = closing.of
  OBVIOUS
<1>2. PICK was \in [pc : {"idle", "next", "closed"}, left : Seq(GroupIds), size : Nat,
                    of : {0} \cup Group] : was = closing
  BY <1>0 DEF McpTypeOK
<1>3. PICK new : new = [was EXCEPT !.pc = "next", !.left = Tail(@), !.of = 0]
  OBVIOUS
<1>4. /\ was.pc = "closed" /\ group' = [group EXCEPT ![g] = 0] /\ closing' = new
      /\ named' = named /\ connections' = connections /\ cached' = cached /\ mcpRun' = mcpRun
      /\ reached' = reached /\ strays' = strays
  BY <1>1, <1>2, <1>3 DEF GroupClosed
<1>5. /\ was.left # <<>> /\ g \in Group /\ named[g] = Head(was.left) /\ IsClosed(g)
  BY <1>0, <1>1, <1>2, <1>4 DEF ClosingIsSound
<1>6. new.pc = "next" /\ new.left = Tail(was.left) /\ new.size = was.size /\ new.of = 0
  BY <1>3
<1>7. was.left \in Seq(GroupIds)
  BY <1>2
<1>8. /\ Len(was.left) \in Nat /\ Len(was.left) > 0
      /\ Len(new.left) = Len(was.left) - 1 /\ new.left \in Seq(GroupIds)
      /\ \A k \in 1..Len(new.left) : new.left[k] = was.left[k + 1]
  BY <1>5, <1>6, <1>7
<1>9. DOMAIN was.left = 1..Len(was.left) /\ DOMAIN new.left = 1..Len(new.left)
  BY <1>7, <1>8
<1>10. new \in [pc : {"idle", "next", "closed"}, left : Seq(GroupIds), size : Nat,
                of : {0} \cup Group]
  BY <1>3, <1>6, <1>8
<1>11. group' \in [Group -> Nat] /\ group'[g] = 0
       /\ \A h \in Group : h # g => group'[h] = group[h]
  BY <1>0, <1>4, <1>5 DEF McpTypeOK
<1>12. McpTypeOK'
  BY <1>0, <1>4, <1>10, <1>11 DEF McpTypeOK
<1>13. DistinctNames' <=> DistinctNames
  BY <1>4 DEF DistinctNames
<1>14. RunsAreSound'
  BY <1>0, <1>4, <1>13 DEF RunsAreSound
<1>15. GroupsAreSound'
  <2> SUFFICES ASSUME NEW h \in Group, group'[h] # 0
               PROVE  /\ group'[h] \in DOMAIN connections
                      /\ connections[group'[h]].of = h
                      /\ connections[group'[h]].status = "open"
    BY <1>4 DEF GroupsAreSound
  <2>1. h # g /\ group'[h] = group[h]
    BY <1>11
  <2> QED
    BY <2>1, <1>0, <1>1 DEF GroupsAreSound
<1>16. CacheIsSound' /\ NamesCached' = NamesCached
  BY <1>0, <1>4, CacheStays
<1>17. ConnectionsAreAlone'
  <2> SUFFICES ASSUME NEW d \in DOMAIN connections, d \notin strays
               PROVE  AloneOpening(d)' /\ AloneOpen(d)'
    BY <1>4 DEF ConnectionsAreAlone
  <2>1. AloneOpening(d) /\ AloneOpen(d)
    BY <1>0 DEF ConnectionsAreAlone
  <2>2. PICK h \in Group : h = connections[d].of
    BY <1>0, ConnectionFields
  <2>3. AloneOpening(d)'
    BY <2>1, <2>2, <1>4, <1>11 DEF AloneOpening
  <2>4. connections[d].status = "open" => h # g
    BY <2>2, <1>5 DEF IsClosed
  <2>5. AloneOpen(d)'
    BY <2>1, <2>2, <2>4, <1>4, <1>11, <1>13 DEF AloneOpen
  <2> QED
    BY <2>3, <2>5
<1>18. \A h : IsClosed(h) => IsClosed(h)'
  BY <1>4 DEF IsClosed
<1>19. ClosingIsSound'
  <2>1. \A k \in DOMAIN new.left : new.left[k] \in NamesCached
    <3>1. \A k \in DOMAIN was.left : was.left[k] \in NamesCached
      BY <1>0, <1>2, <1>4 DEF ClosingIsSound
    <3>2. \A k \in DOMAIN new.left : k + 1 \in DOMAIN was.left
      BY <1>8, <1>9
    <3> QED
      BY <3>1, <3>2, <1>8, <1>9
  <2>2. new.size <= Cardinality(NamesCached)
    BY <1>0, <1>2, <1>4, <1>6 DEF ClosingIsSound
  <2>3. ASSUME DistinctNames, Cardinality(NamesCached) = new.size,
               NEW i \in NamesCached, ~ \E k \in DOMAIN new.left : new.left[k] = i
        PROVE  IsClosed(cached[i].of)'
    <3>1. PICK h : h = cached[i].of
      OBVIOUS
    <3>2. h \in Group /\ named[h] = i
      BY <3>1, <1>0 DEF CacheIsSound
    <3>3. CASE i = named[g]
      BY <2>3, <3>1, <3>2, <3>3, <1>4, <1>5, <1>18 DEF DistinctNames
    <3>4. CASE i # named[g]
      <4>1. was.left[1] = named[g]
        BY <1>5, <1>7
      <4>2. ~ \E k \in DOMAIN was.left : was.left[k] = i
        <5> SUFFICES ASSUME NEW k \in DOMAIN was.left, was.left[k] = i
                     PROVE  FALSE
          OBVIOUS
        <5>1. k \in 1..Len(was.left) /\ k # 1
          BY <4>1, <3>4, <1>9
        <5>2. k - 1 \in 1..Len(new.left) /\ (k - 1) + 1 = k
          BY <5>1, <1>8
        <5>3. new.left[k - 1] = i
          BY <5>2, <1>8
        <5> QED
          BY <5>2, <5>3, <2>3, <1>9
      <4>3. IsClosed(h)
        BY <4>2, <2>3, <3>1, <1>0, <1>2, <1>4, <1>6 DEF ClosingIsSound
      <4> QED
        BY <4>3, <3>1, <1>4, <1>18
    <3> QED
      BY <3>3, <3>4
  <2> QED
    BY <2>1, <2>2, <2>3, <1>4, <1>6, <1>13, <1>16 DEF ClosingIsSound
<1>20. OneConnectionPerGroup' /\ CallsReachTheirServer'
  BY <1>0, <1>4, <1>13 DEF OneConnectionPerGroup, CallsReachTheirServer
<1> QED
  BY <1>12, <1>14, <1>15, <1>16, <1>17, <1>19, <1>20 DEF McpInv

(* All names are done: the cache is cleared.                                *)
LEMMA CloseEndsKeeps ==
  ASSUME McpInv, CloseEnds
  PROVE  McpInv'
<1>0. /\ McpTypeOK /\ RunsAreSound /\ GroupsAreSound /\ CacheIsSound /\ ConnectionsAreAlone
      /\ ClosingIsSound /\ OneConnectionPerGroup /\ CallsReachTheirServer
  BY DEF McpInv
<1>1. /\ closing.pc = "next" /\ closing.left = <<>> /\ Cardinality(NamesCached) = closing.size
      /\ cached' = [i \in GroupIds |-> NoMembers] /\ closing' = NotClosing
      /\ named' = named /\ connections' = connections /\ group' = group /\ mcpRun' = mcpRun
      /\ reached' = reached /\ strays' = strays
  BY DEF CloseEnds
<1>2. closing'.pc = "idle" /\ closing' \in [pc : {"idle", "next", "closed"},
                                            left : Seq(GroupIds), size : Nat, of : {0} \cup Group]
  BY <1>1 DEF NotClosing
<1>3. /\ cached' \in [GroupIds -> [of : {0} \cup Group, connection : Nat]]
      /\ \A i \in GroupIds : cached'[i] = NoMembers /\ cached'[i].of = 0
  BY <1>1 DEF NoMembers
<1>4. McpTypeOK'
  BY <1>0, <1>1, <1>2, <1>3 DEF McpTypeOK
<1>5. DistinctNames' <=> DistinctNames
  BY <1>1 DEF DistinctNames
<1>6. RunsAreSound'
  BY <1>0, <1>1, <1>5 DEF RunsAreSound
<1>7. GroupsAreSound'
  BY <1>0, <1>1 DEF GroupsAreSound
<1>8. CacheIsSound'
  BY <1>3 DEF CacheIsSound, NamesCached
<1>9. ConnectionsAreAlone'
  <2> SUFFICES ASSUME NEW d \in DOMAIN connections, d \notin strays
               PROVE  AloneOpening(d)' /\ AloneOpen(d)'
    BY <1>1 DEF ConnectionsAreAlone
  <2>1. AloneOpening(d) /\ AloneOpen(d)
    BY <1>0 DEF ConnectionsAreAlone
  <2>2. PICK h \in Group : h = connections[d].of
    BY <1>0, ConnectionFields
  <2>3. named[h] \in GroupIds /\ h # 0
    <3>1. h # 0
      BY McpAssumption DEF McpAssumption
    <3> QED
      BY <3>1, <1>0 DEF McpTypeOK
  <2>4. AloneOpening(d)'
    BY <2>1, <2>2, <2>3, <1>1, <1>3 DEF AloneOpening
  <2>5. DistinctNames => connections[d].status # "open"
    <3> SUFFICES ASSUME DistinctNames, connections[d].status = "open"
                 PROVE  FALSE
      OBVIOUS
    <3>1. cached[named[h]].of = h
      BY <2>1, <2>2 DEF AloneOpen
    <3>2. named[h] \in NamesCached
      BY <3>1, <2>3 DEF NamesCached, NoMembers
    <3>3. IsClosed(h)
      BY <3>1, <3>2, <1>0, <1>1 DEF ClosingIsSound
    <3> QED
      BY <3>3, <2>2 DEF IsClosed
  <2>6. AloneOpen(d)'
    BY <2>1, <2>2, <2>5, <1>1, <1>5 DEF AloneOpen
  <2> QED
    BY <2>4, <2>6
<1>10. ClosingIsSound'
  BY <1>2 DEF ClosingIsSound
<1>11. OneConnectionPerGroup' /\ CallsReachTheirServer'
  BY <1>0, <1>1, <1>5 DEF OneConnectionPerGroup, CallsReachTheirServer
<1> QED
  BY <1>4, <1>6, <1>7, <1>8, <1>9, <1>10, <1>11 DEF McpInv

-----------------------------------------------------------------------------
(* The invariant, and the theorem.                                         *)

LEMMA McpStarts == McpInit => McpInv
<1> SUFFICES ASSUME McpInit
             PROVE  McpInv
  OBVIOUS
<1>1. /\ connections = <<>> /\ DOMAIN connections = {} /\ closing.pc = "idle" /\ reached = {}
      /\ NamesCached = {} /\ named \in [Group -> GroupIds]
      /\ \A g \in Group : group[g] = 0
      /\ \A r \in McpRun : mcpRun[r] = NewRun
  BY DEF McpInit, NotClosing, NamesCached
<1>2. McpTypeOK
  <2>1. connections \in Seq(Connection)
    BY <1>1
  <2>2. cached \in [GroupIds -> [of : {0} \cup Group, connection : Nat]]
    BY DEF McpInit, NoMembers
  <2>3. mcpRun \in [McpRun -> RunState]
    BY NewRunIsSound DEF McpInit
  <2>4. closing \in [pc : {"idle", "next", "closed"}, left : Seq(GroupIds), size : Nat,
                     of : {0} \cup Group]
    BY DEF McpInit, NotClosing
  <2> QED
    BY <2>1, <2>2, <2>3, <2>4 DEF McpInit, McpTypeOK
<1>3. RunsAreSound
  <2>1. \A r \in McpRun : mcpRun[r].pc = "new" /\ mcpRun[r].members = <<>>
                          /\ Len(mcpRun[r].members) = mcpRun[r].position - 1
    BY <1>1, NewRunIsSound
  <2> QED
    BY <2>1 DEF RunsAreSound, MembersAreSound
<1>4. GroupsAreSound /\ CacheIsSound /\ ConnectionsAreAlone /\ ClosingIsSound
  BY <1>1 DEF GroupsAreSound, CacheIsSound, ConnectionsAreAlone, ClosingIsSound
<1>5. OneConnectionPerGroup /\ CallsReachTheirServer
  BY <1>1 DEF OneConnectionPerGroup, CallsReachTheirServer
<1> QED
  BY <1>2, <1>3, <1>4, <1>5 DEF McpInv

LEMMA McpStutters ==
  ASSUME McpInv, UNCHANGED mcpVars
  PROVE  McpInv'
<1>0. /\ McpTypeOK /\ RunsAreSound /\ GroupsAreSound /\ CacheIsSound /\ ConnectionsAreAlone
      /\ ClosingIsSound /\ OneConnectionPerGroup /\ CallsReachTheirServer
  BY DEF McpInv
<1>1. /\ named' = named /\ connections' = connections /\ group' = group /\ cached' = cached
      /\ mcpRun' = mcpRun /\ closing' = closing /\ reached' = reached /\ strays' = strays
  BY DEF mcpVars
<1>2. McpTypeOK' /\ GroupsAreSound' /\ CacheIsSound'
  BY <1>0, <1>1 DEF McpTypeOK, GroupsAreSound, CacheIsSound, NamesCached
<1>3. RunsAreSound'
  BY <1>0, <1>1 DEF RunsAreSound, DistinctNames
<1>4. ConnectionsAreAlone' /\ ClosingIsSound'
  BY <1>0, <1>1 DEF ConnectionsAreAlone, AloneOpen, AloneOpening, DistinctNames, ClosingIsSound,
                    IsClosed, NamesCached
<1>5. OneConnectionPerGroup' /\ CallsReachTheirServer'
  BY <1>0, <1>1 DEF OneConnectionPerGroup, CallsReachTheirServer, DistinctNames
<1> QED
  BY <1>2, <1>3, <1>4, <1>5 DEF McpInv

LEMMA McpStepKeeps == McpInv /\ [McpNext]_mcpVars => McpInv'
<1> SUFFICES ASSUME McpInv, [McpNext]_mcpVars
             PROVE  McpInv'
  OBVIOUS
<1>1. ASSUME NEW r \in McpRun,
             \/ MembersCached(r) \/ AlreadyOpen(r) \/ OpenStarts(r) \/ OpenEnds(r) \/ OpenFails(r)
             \/ OpenCancelled(r) \/ CallTool(r) \/ McpRunEnds(r) \/ McpRunAgain(r)
      PROVE  McpInv'
  BY <1>1, MembersCachedKeeps, AlreadyOpenKeeps, OpenStartsKeeps, OpenEndsKeeps, OpenFailsKeeps,
     CallToolKeeps, McpRunEndsKeeps, McpRunAgainKeeps
<1>2. CASE CloseStarts \/ CloseRaises \/ GroupCloses \/ GroupClosed \/ CloseEnds
  BY <1>2, CloseStartsKeeps, CloseRaisesKeeps, GroupClosesKeeps, GroupClosedKeeps, CloseEndsKeeps
<1>3. CASE UNCHANGED mcpVars
  BY <1>3, McpStutters
<1> QED
  BY <1>1, <1>2, <1>3 DEF McpNext

LEMMA ConnectionsAreKeptByInv == McpInv => ConnectionsAreKept
<1> SUFFICES ASSUME McpInv
             PROVE  ConnectionsAreKept
  OBVIOUS
<1>0. /\ McpTypeOK /\ GroupsAreSound /\ ConnectionsAreAlone
      /\ OneConnectionPerGroup /\ CallsReachTheirServer
  BY DEF McpInv
<1>1. OnlyRacesAndCancelsLeak
  <2> SUFFICES ASSUME DistinctNames, NEW c \in DOMAIN connections,
                      connections[c].status = "open", c \notin strays
               PROVE  /\ group[connections[c].of] = c
                      /\ \E i \in GroupIds : cached[i].of = connections[c].of
    BY DEF OnlyRacesAndCancelsLeak
  <2>1. connections[c].of \in Group
    BY <1>0, ConnectionFields
  <2>2. named[connections[c].of] \in GroupIds
    BY <2>1, <1>0 DEF McpTypeOK
  <2> QED
    BY <2>2, <1>0 DEF ConnectionsAreAlone, AloneOpen
<1>2. ClosedMembersAreForgotten
  BY <1>0 DEF ClosedMembersAreForgotten, GroupsAreSound
<1> QED
  BY <1>0, <1>1, <1>2 DEF ConnectionsAreKept

(* Whatever runs and aclose do at once, for any list of groups and any      *)
(* names: a connection outside races and cancels is the only one of its     *)
(* group and is found by aclose, calls reach the server they were meant     *)
(* for, and what aclose closed is not handed out again (McpToolGroup.open   *)
(* and aclose, Graph._expand_tools and aclose).                             *)
THEOREM McpConnectionsAreKept == McpSpec => []ConnectionsAreKept
<1>1. McpSpec => []McpInv
  BY McpStarts, McpStepKeeps, PTL DEF McpSpec
<1> QED
  BY <1>1, ConnectionsAreKeptByInv, PTL

-----------------------------------------------------------------------------
(* The catalog of documents.                                               *)

CatalogSpec == CatalogInit /\ [][CatalogNext]_catalogVars

CatalogJobs == [at : {"idle", "clearing", "embedding"}, pending : Seq(Documents), start : Nat]
CatalogTasks == [at : {"idle", "embedding"}, docs : Seq(Documents), ingested : {0}, start : Nat]

CatalogTypeOK ==
  /\ files \in Seq(Documents) /\ docs \in Seq(Documents) /\ fingerprint \in Seq(Documents)
  /\ ingested \in Nat
  /\ IsFiniteSet(DOMAIN stored)
  /\ job \in [Requests -> CatalogJobs]
  /\ task \in CatalogTasks

HasRow(rows, i, d) == i \in DOMAIN rows /\ rows[i] = d

Begins(short, long) ==
  Len(short) <= Len(long) /\ \A i \in 1..Len(short) : short[i] = long[i]

(* An ingestion has what its process has not counted yet.                   *)
IngestionsAreApart ==
  ~overlapped =>
    /\ \A v, w \in Requests : Busy(v) /\ Busy(w) => v = w
    /\ task.at # "idle" => \A w \in Requests : ~Busy(w)
    /\ ingested <= Len(docs)
    /\ \A w \in Requests : job[w].at = "embedding" =>
         /\ ingested + Len(job[w].pending) = Len(docs)
         /\ \A n \in 1..Len(job[w].pending) : job[w].pending[n] = docs[ingested + n]

(* Without an edit the files come first in every row that was written.      *)
FilesComeFirst ==
  ~overlapped /\ ~edited =>
    /\ Begins(files, docs)
    /\ task.at # "idle" => task.docs = files
    /\ \A i \in DOMAIN stored : i \in 1..Len(files) => stored[i] = files[i]

(* Rows are counted without a gap, and what is counted is stored.           *)
RowsAreCounted ==
  ~overlapped /\ ~edited /\ ~foreign =>
    /\ \E k \in Nat : DOMAIN stored = 1..k
    /\ \A i \in 1..Len(docs) :
         \/ i > ingested /\ \A w \in Requests : job[w].at = "embedding" => i > ingested + job[w].start
         \/ \E w \in Requests : job[w].at = "clearing"
         \/ HasRow(stored, i, docs[i])

(* What the fingerprint vouches for is stored, but for what a request of    *)
(* the same files, or the task, has yet to write again.                     *)
FingerprintIsTrue ==
  ~overlapped /\ ~disturbed =>
    /\ task.at = "idle" /\ (\A w \in Requests : ~Busy(w)) =>
         \A i \in 1..Len(fingerprint) : HasRow(stored, i, fingerprint[i])
    /\ \A w \in Requests : Busy(w) => Begins(fingerprint, docs)
    /\ \A w \in Requests : job[w].at = "embedding" =>
         \A i \in 1..Len(fingerprint) :
            HasRow(stored, i, fingerprint[i]) \/ i > ingested + job[w].start
    /\ task.at # "idle" =>
         /\ task.docs = files
         /\ \A i \in 1..Len(files) : HasRow(stored, i, files[i]) \/ i > task.start

CatalogInv ==
  /\ CatalogTypeOK /\ IngestionsAreApart /\ FilesComeFirst /\ RowsAreCounted /\ FingerprintIsTrue
  /\ task.at # "idle" => foreign

LEMMA CatalogParts ==
    ASSUME CatalogInv
    PROVE  /\ CatalogTypeOK /\ IngestionsAreApart /\ FilesComeFirst /\ RowsAreCounted /\ FingerprintIsTrue
           /\ task.at # "idle" => foreign
           /\ Len(docs) \in Nat /\ Len(files) \in Nat /\ Len(fingerprint) \in Nat /\ ingested \in Nat
           /\ BatchSize \in Nat /\ BatchSize > 0
  BY CatalogAssumption DEF CatalogInv, CatalogTypeOK

LEMMA PrefixBegins ==
    ASSUME NEW s \in Seq(Documents), NEW t \in Seq(Documents), IsPrefix(s, t)
    PROVE  Begins(s, t)
<1>1. Len(s) <= Len(t) /\ SubSeq(s, 1, Len(s)) = SubSeq(t, 1, Len(s))
  BY DEF IsPrefix
<1>2. ASSUME NEW i \in 1..Len(s) PROVE s[i] = t[i]
  <2>1. SubSeq(s, 1, Len(s))[i] = s[i] /\ SubSeq(t, 1, Len(s))[i] = t[i]
    BY <1>1
  <2> QED
    BY <2>1, <1>1
<1> QED
  BY <1>1, <1>2 DEF Begins

(* A batch is written where its documents stand.                            *)
LastOf(pending, start) == IF start + BatchSize < Len(pending) THEN start + BatchSize ELSE Len(pending)

BatchIsStored(counter, pending, start, last) ==
  /\ DOMAIN stored' = DOMAIN stored \cup (counter + start + 1)..(counter + last)
  /\ IsFiniteSet(DOMAIN stored')
  /\ \A n \in 1..Len(pending) : n > start /\ n <= last => HasRow(stored', counter + n, pending[n])
  /\ \A i \in DOMAIN stored : ~(i > counter + start /\ i <= counter + last) => stored'[i] = stored[i]

LEMMA BatchIsWritten ==
    ASSUME CatalogInv, NEW pending \in Seq(Documents), NEW start \in Nat, start < Len(pending),
           NEW counter \in Nat, stored' = WithRows(stored, IdsOf(counter, start, Chunk(pending, start)))
    PROVE  BatchIsStored(counter, pending, start, LastOf(pending, start))
<1> DEFINE last == LastOf(pending, start)
           chunk == Chunk(pending, start)
           added == IdsOf(counter, start, chunk)
<1>0. Len(pending) \in Nat /\ BatchSize \in Nat /\ BatchSize > 0
  BY CatalogParts
<1>1. last \in Nat /\ start < last /\ last <= Len(pending) /\ last <= start + BatchSize
      /\ (last = Len(pending) \/ last = start + BatchSize)
  BY <1>0 DEF LastOf
<1>2. Len(chunk) = last - start /\ \A n \in 1..(last - start) : chunk[n] = pending[start + n]
  BY <1>0, <1>1 DEF Chunk, LastOf
<1> HIDE DEF last, chunk
<1>3. DOMAIN added = {counter + start + n : n \in 1..(last - start)}
  BY <1>2 DEF IdsOf
<1>4. DOMAIN added = (counter + start + 1)..(counter + last)
  <2>1. ASSUME NEW i \in (counter + start + 1)..(counter + last)
        PROVE  i \in {counter + start + n : n \in 1..(last - start)}
    <3>1. i - counter - start \in 1..(last - start) /\ i = counter + start + (i - counter - start)
      BY <1>1, <2>1
    <3> QED
      BY <3>1
  <2>2. ASSUME NEW n \in 1..(last - start) PROVE counter + start + n \in (counter + start + 1)..(counter + last)
    BY <1>1
  <2> QED
    BY <1>3, <2>1, <2>2
<1>5. ASSUME NEW n \in 1..Len(pending), n > start, n <= last
      PROVE  counter + n \in DOMAIN added /\ added[counter + n] = pending[n]
  <2>1. counter + n \in (counter + start + 1)..(counter + last)
    BY <1>0, <1>1, <1>5
  <2>2. counter + n \in {counter + start + m : m \in 1..Len(chunk)}
    BY <2>1, <1>2, <1>3, <1>4
  <2>3. added[counter + n] = chunk[(counter + n) - counter - start]
    BY <2>2 DEF IdsOf
  <2>4. (counter + n) - counter - start = n - start /\ n - start \in 1..(last - start) /\ start + (n - start) = n
    BY <1>0, <1>1, <1>5
  <2> QED
    BY <2>1, <2>3, <2>4, <1>2, <1>4
<1> HIDE DEF added
<1>6. stored' = [i \in DOMAIN stored \cup DOMAIN added |-> IF i \in DOMAIN added THEN added[i] ELSE stored[i]]
  BY DEF WithRows, added, chunk
<1>7. DOMAIN stored' = DOMAIN stored \cup (counter + start + 1)..(counter + last)
  BY <1>4, <1>6
<1>8. IsFiniteSet(DOMAIN stored')
  <2>1. IsFiniteSet(DOMAIN stored)
    BY DEF CatalogInv, CatalogTypeOK
  <2>2. IsFiniteSet((counter + start + 1)..(counter + last))
    BY <1>1, FS_Interval
  <2> QED
    BY <1>7, <2>1, <2>2, FS_Union
<1>9. ASSUME NEW n \in 1..Len(pending), n > start, n <= last PROVE HasRow(stored', counter + n, pending[n])
  BY <1>5, <1>6, <1>9 DEF HasRow
<1>10. ASSUME NEW i \in DOMAIN stored, ~(i > counter + start /\ i <= counter + last) PROVE stored'[i] = stored[i]
  <2>1. i \notin DOMAIN added
    BY <1>1, <1>4, <1>10
  <2> QED
    BY <1>6, <2>1
<1> QED
  BY <1>7, <1>8, <1>9, <1>10 DEF BatchIsStored, last

LEMMA CatalogInitInv == CatalogInit => CatalogInv
<1> SUFFICES ASSUME CatalogInit PROVE CatalogInv
  OBVIOUS
<1>1. PICK d \in Documents : files = <<d>>
  BY DEF CatalogInit
<1>2. files \in Seq(Documents) /\ docs = files /\ fingerprint = <<>> /\ Len(files) = 1 /\ Len(docs) = 1
  BY <1>1 DEF CatalogInit
<1>3. DOMAIN stored = {} /\ stored = NoRows
  BY DEF CatalogInit, NoRows
<1>4. IsFiniteSet(DOMAIN stored) /\ Cardinality(DOMAIN stored) = 0
  BY <1>3, FS_EmptySet
<1>5. ingested = 0
  BY <1>2, <1>3, <1>4 DEF CatalogInit, Resume
<1>6. /\ job \in [Requests -> CatalogJobs] /\ task \in CatalogTasks
      /\ task.at = "idle" /\ \A w \in Requests : job[w].at = "idle"
  BY DEF CatalogInit, CatalogJobs, CatalogTasks, IdleJob, IdleTask
<1>7. CatalogTypeOK
  BY <1>2, <1>4, <1>5, <1>6 DEF CatalogTypeOK
<1>8. IngestionsAreApart
  BY <1>2, <1>5, <1>6 DEF IngestionsAreApart, Busy
<1>9. FilesComeFirst
  BY <1>2, <1>3, <1>6 DEF FilesComeFirst, Begins
<1>10. RowsAreCounted
  <2>1. DOMAIN stored = 1..0 /\ 0 \in Nat
    BY <1>3
  <2> QED
    BY <2>1, <1>5, <1>6 DEF RowsAreCounted
<1>11. FingerprintIsTrue
  BY <1>2, <1>6 DEF FingerprintIsTrue, Busy
<1> QED
  BY <1>6, <1>7, <1>8, <1>9, <1>10, <1>11 DEF CatalogInv

(* An ingestion that begins alone finds everybody at rest.                  *)
LEMMA BeginsAlone ==
    ASSUME CatalogInv, NEW w \in Requests, ~Busy(w), ~overlapped, ~OthersBusy(w)
    PROVE  task.at = "idle" /\ \A v \in Requests : ~Busy(v) /\ job[v].at = "idle"
<1>1. \A v \in Requests : v # w => ~Busy(v)
  BY DEF OthersBusy
<1> QED
  BY <1>1 DEF OthersBusy, Busy

LEMMA JobMoves ==
    ASSUME CatalogInv, NEW w \in Requests, NEW moved \in CatalogJobs, job' = [job EXCEPT ![w] = moved]
    PROVE  job' \in [Requests -> CatalogJobs] /\ job'[w] = moved /\ \A v \in Requests : v # w => job'[v] = job[v]
  BY DEF CatalogInv, CatalogTypeOK

LEMMA IngestionBegins ==
    ASSUME CatalogInv, NEW w \in Requests, ~Busy(w),
           docs' \in Seq(Documents), Begins(docs, docs'),
           job' = [job EXCEPT ![w] = [at |-> "embedding", pending |-> SubSeq(docs', ingested + 1, Len(docs')), start |-> 0]],
           overlapped' = (overlapped \/ OthersBusy(w)), disturbed' = (disturbed \/ StaleProcess),
           files' = files, ingested' = ingested, stored' = stored, task' = task,
           fingerprint' = fingerprint, foreign' = foreign, edited' = edited
    PROVE  CatalogInv'
<1>0. /\ CatalogTypeOK /\ IngestionsAreApart /\ FilesComeFirst /\ RowsAreCounted /\ FingerprintIsTrue
      /\ task.at # "idle" => foreign
      /\ Len(docs) \in Nat /\ Len(files) \in Nat /\ Len(fingerprint) \in Nat /\ ingested \in Nat
  BY CatalogParts
<1>1. Len(docs') \in Nat /\ Len(docs) <= Len(docs') /\ \A i \in 1..Len(docs) : docs'[i] = docs[i]
  BY DEF Begins
<1> DEFINE pending == SubSeq(docs', ingested + 1, Len(docs'))
           moved == [at |-> "embedding", pending |-> pending, start |-> 0]
<1>2. pending \in Seq(Documents) /\ moved \in CatalogJobs
  BY <1>0, <1>1 DEF CatalogJobs
<1>3. ingested <= Len(docs) =>
        ingested + Len(pending) = Len(docs') /\ \A n \in 1..Len(pending) : pending[n] = docs'[ingested + n]
  BY <1>0, <1>1
<1>4. moved.at = "embedding" /\ moved.pending = pending /\ moved.start = 0
  OBVIOUS
<1> HIDE DEF pending, moved
<1>5. job' \in [Requests -> CatalogJobs] /\ job'[w] = moved /\ \A v \in Requests : v # w => job'[v] = job[v]
  BY <1>2, JobMoves DEF moved, pending
<1>6. CatalogTypeOK'
  BY <1>0, <1>5 DEF CatalogTypeOK
<1>7. ASSUME ~overlapped'
      PROVE  ~overlapped /\ task.at = "idle" /\ \A v \in Requests : job[v].at = "idle" /\ ~Busy(v)
  BY <1>7, BeginsAlone
<1>8. IngestionsAreApart'
  <2> SUFFICES ASSUME ~overlapped' PROVE IngestionsAreApart'
    BY DEF IngestionsAreApart
  <2>1. ingested <= Len(docs)
    BY <1>0, <1>7 DEF IngestionsAreApart
  <2>2. \A v \in Requests : v # w => job'[v].at = "idle"
    BY <1>5, <1>7
  <2> QED
    BY <2>1, <2>2, <1>0, <1>1, <1>3, <1>4, <1>5, <1>7 DEF IngestionsAreApart, Busy
<1>9. FilesComeFirst'
  <2> SUFFICES ASSUME ~overlapped', ~edited PROVE FilesComeFirst'
    BY DEF FilesComeFirst
  <2>1. Begins(files, docs) /\ \A i \in DOMAIN stored : i \in 1..Len(files) => stored[i] = files[i]
    BY <1>0, <1>7 DEF FilesComeFirst
  <2>2. Begins(files, docs)'
    BY <2>1, <1>0, <1>1 DEF Begins
  <2> QED
    BY <2>1, <2>2, <1>7 DEF FilesComeFirst
<1>10. RowsAreCounted'
  <2> SUFFICES ASSUME ~overlapped', ~edited, ~foreign PROVE RowsAreCounted'
    BY DEF RowsAreCounted
  <2>1. \E k \in Nat : DOMAIN stored = 1..k
    BY <1>0, <1>7 DEF RowsAreCounted
  <2>2. \A v \in Requests : v # w => job'[v].at = "idle"
    BY <1>5, <1>7
  <2>3. ASSUME NEW i \in 1..Len(docs'), i <= ingested PROVE HasRow(stored, i, docs'[i])
    <3>1. i \in 1..Len(docs)
      BY <2>3, <1>0, <1>7 DEF IngestionsAreApart
    <3> QED
      BY <3>1, <2>3, <1>0, <1>1, <1>7 DEF RowsAreCounted
  <2>4. ASSUME NEW i \in 1..Len(docs'), i > ingested
        PROVE  \A v \in Requests : job'[v].at = "embedding" => i > ingested + job'[v].start
    BY <2>4, <2>2, <1>0, <1>4, <1>5
  <2> QED
    BY <2>1, <2>3, <2>4, <1>0, <1>1 DEF RowsAreCounted
<1>11. FingerprintIsTrue'
  <2> SUFFICES ASSUME ~overlapped', ~disturbed' PROVE FingerprintIsTrue'
    BY DEF FingerprintIsTrue
  <2>1. Begins(fingerprint, docs)
    BY <1>0, PrefixBegins DEF StaleProcess, CatalogTypeOK
  <2>2. Begins(fingerprint, docs')
    BY <2>1, <1>0, <1>1 DEF Begins
  <2>3. \A i \in 1..Len(fingerprint) : HasRow(stored, i, fingerprint[i])
    BY <1>0, <1>7 DEF FingerprintIsTrue
  <2>4. Busy(w)' /\ task'.at = "idle"
    BY <1>4, <1>5, <1>7 DEF Busy
  <2> QED
    BY <2>2, <2>3, <2>4 DEF FingerprintIsTrue
<1> QED
  BY <1>0, <1>6, <1>8, <1>9, <1>10, <1>11 DEF CatalogInv

LEMMA EnsureSeededInv ==
    ASSUME CatalogInv, NEW w \in Requests, EnsureSeeded(w) PROVE CatalogInv'
<1>1. docs' = docs /\ docs \in Seq(Documents) /\ Begins(docs, docs)
  BY CatalogParts DEF EnsureSeeded, CatalogTypeOK, Begins
<1>2. job' = [job EXCEPT ![w] = [at |-> "embedding", pending |-> SubSeq(docs', ingested + 1, Len(docs')), start |-> 0]]
  BY <1>1 DEF EnsureSeeded, Begin
<1> QED
  BY <1>1, <1>2, IngestionBegins DEF EnsureSeeded, Begin

LEMMA CatalogLoadInv ==
    ASSUME CatalogInv, NEW w \in Requests, NEW d \in Documents, CatalogLoad(w, d) PROVE CatalogInv'
<1>1. docs' = Append(docs, d) /\ docs \in Seq(Documents)
  BY CatalogParts DEF CatalogLoad, CatalogTypeOK
<1>2. docs' \in Seq(Documents) /\ Begins(docs, docs')
  BY <1>1 DEF Begins
<1>3. job' = [job EXCEPT ![w] = [at |-> "embedding", pending |-> SubSeq(docs', ingested + 1, Len(docs')), start |-> 0]]
  BY DEF CatalogLoad, Begin
<1> QED
  BY <1>2, <1>3, IngestionBegins DEF CatalogLoad, Begin

LEMMA CatalogUpdateInv ==
    ASSUME CatalogInv, NEW w \in Requests, CatalogUpdate(w) PROVE CatalogInv'
<1>0. /\ CatalogTypeOK /\ IngestionsAreApart /\ FilesComeFirst /\ RowsAreCounted /\ FingerprintIsTrue
      /\ task.at # "idle" => foreign
      /\ Len(docs) \in Nat /\ Len(files) \in Nat /\ Len(fingerprint) \in Nat /\ ingested \in Nat
  BY CatalogParts
<1>1. /\ ~Busy(w) /\ overlapped' = (overlapped \/ OthersBusy(w)) /\ disturbed' = (disturbed \/ StaleProcess)
      /\ files' = files /\ docs' = docs /\ ingested' = ingested /\ task' = task
      /\ fingerprint' = fingerprint /\ foreign' = foreign /\ edited' = edited
      /\ stored' = NoRows
  BY DEF CatalogUpdate
<1>2. PICK moved \in CatalogJobs : moved.at = "clearing" /\ job' = [job EXCEPT ![w] = moved]
  <2> DEFINE cleared == [IdleJob EXCEPT !.at = "clearing"]
  <2>0. IdleJob \in CatalogJobs
    BY DEF IdleJob, CatalogJobs
  <2>1. cleared \in CatalogJobs /\ cleared.at = "clearing"
    BY <2>0 DEF CatalogJobs
  <2>2. job' = [job EXCEPT ![w] = cleared]
    BY DEF CatalogUpdate
  <2> HIDE DEF cleared
  <2> QED
    BY <2>1, <2>2
<1>3. job' \in [Requests -> CatalogJobs] /\ job'[w] = moved /\ \A v \in Requests : v # w => job'[v] = job[v]
  BY <1>2, JobMoves
<1>4. DOMAIN stored' = {} /\ DOMAIN stored' = 1..0 /\ IsFiniteSet(DOMAIN stored')
  BY <1>1, FS_EmptySet DEF NoRows
<1>5. CatalogTypeOK'
  BY <1>0, <1>1, <1>3, <1>4 DEF CatalogTypeOK
<1>6. ASSUME ~overlapped'
      PROVE  /\ ~overlapped /\ task.at = "idle" /\ \A v \in Requests : job[v].at = "idle" /\ ~Busy(v)
             /\ \A v \in Requests : v # w => job'[v].at = "idle"
  BY <1>1, <1>3, <1>6, BeginsAlone
<1>7. IngestionsAreApart'
  BY <1>0, <1>1, <1>2, <1>3, <1>6 DEF IngestionsAreApart, Busy
<1>8. FilesComeFirst'
  BY <1>0, <1>1, <1>4 DEF FilesComeFirst, Begins
<1>9. RowsAreCounted'
  BY <1>2, <1>3, <1>4 DEF RowsAreCounted
<1>10. FingerprintIsTrue'
  <2> SUFFICES ASSUME ~overlapped', ~disturbed' PROVE FingerprintIsTrue'
    BY DEF FingerprintIsTrue
  <2>1. Begins(fingerprint, docs)
    BY <1>0, <1>1, PrefixBegins DEF StaleProcess, CatalogTypeOK
  <2>2. Begins(fingerprint, docs)'
    BY <2>1, <1>1 DEF Begins
  <2>3. Busy(w)' /\ task'.at = "idle"
    BY <1>1, <1>2, <1>3, <1>6 DEF Busy
  <2> QED
    BY <2>2, <2>3, <1>2, <1>3, <1>6 DEF FingerprintIsTrue
<1> QED
  BY <1>0, <1>1, <1>5, <1>7, <1>8, <1>9, <1>10 DEF CatalogInv

(* Who is at work, alone.                                                   *)
LEMMA WorksAlone ==
    ASSUME CatalogInv, NEW w \in Requests, Busy(w), ~overlapped
    PROVE  task.at = "idle" /\ \A v \in Requests : v # w => ~Busy(v) /\ job[v].at = "idle"
  BY CatalogParts DEF IngestionsAreApart, Busy

LEMMA ClearedInv ==
    ASSUME CatalogInv, NEW w \in Requests, Cleared(w) PROVE CatalogInv'
<1>0. /\ CatalogTypeOK /\ IngestionsAreApart /\ FilesComeFirst /\ RowsAreCounted /\ FingerprintIsTrue
      /\ task.at # "idle" => foreign
      /\ Len(docs) \in Nat /\ Len(files) \in Nat /\ Len(fingerprint) \in Nat
  BY CatalogParts
<1>1. /\ job[w].at = "clearing" /\ Busy(w) /\ overlapped' = overlapped /\ disturbed' = disturbed
      /\ files' = files /\ docs' = docs /\ ingested' = 0 /\ task' = task
      /\ fingerprint' = fingerprint /\ foreign' = foreign /\ edited' = edited
      /\ stored' = stored
  BY DEF Cleared, Busy
<1>2. PICK moved \in CatalogJobs :
        moved.at = "embedding" /\ moved.pending = docs /\ moved.start = 0 /\ job' = [job EXCEPT ![w] = moved]
  <2>1. [at |-> "embedding", pending |-> docs, start |-> 0] \in CatalogJobs
    BY <1>0 DEF CatalogJobs, CatalogTypeOK
  <2> QED
    BY <2>1 DEF Cleared
<1>3. job' \in [Requests -> CatalogJobs] /\ job'[w] = moved /\ \A v \in Requests : v # w => job'[v] = job[v]
  BY <1>2, JobMoves
<1>4. ASSUME ~overlapped
      PROVE  task.at = "idle" /\ \A v \in Requests : v # w => ~Busy(v) /\ job'[v].at = "idle"
  BY <1>1, <1>3, <1>4, WorksAlone
<1>5. CatalogTypeOK'
  BY <1>0, <1>1, <1>3 DEF CatalogTypeOK
<1>6. IngestionsAreApart'
  BY <1>0, <1>1, <1>2, <1>3, <1>4 DEF IngestionsAreApart, Busy
<1>7. FilesComeFirst'
  BY <1>0, <1>1 DEF FilesComeFirst, Begins
<1>8. RowsAreCounted'
  <2> SUFFICES ASSUME ~overlapped, ~edited, ~foreign PROVE RowsAreCounted'
    BY <1>1 DEF RowsAreCounted
  <2>1. \E k \in Nat : DOMAIN stored = 1..k
    BY <1>0 DEF RowsAreCounted
  <2>2. ASSUME NEW i \in 1..Len(docs)
        PROVE  i > 0 /\ \A v \in Requests : job'[v].at = "embedding" => i > 0 + job'[v].start
    BY <1>0, <1>2, <1>3, <1>4
  <2> QED
    BY <2>1, <2>2, <1>1 DEF RowsAreCounted
<1>9. FingerprintIsTrue'
  <2> SUFFICES ASSUME ~overlapped, ~disturbed PROVE FingerprintIsTrue'
    BY <1>1 DEF FingerprintIsTrue
  <2>1. Begins(fingerprint, docs)'
    BY <1>0, <1>1 DEF FingerprintIsTrue, Begins
  <2>2. \A i \in 1..Len(fingerprint), v \in Requests : job'[v].at = "embedding" => i > 0 + job'[v].start
    BY <1>0, <1>2, <1>3, <1>4
  <2>3. Busy(w)' /\ task'.at = "idle"
    BY <1>1, <1>2, <1>3, <1>4 DEF Busy
  <2> QED
    BY <2>1, <2>2, <2>3, <1>1 DEF FingerprintIsTrue
<1> QED
  BY <1>0, <1>1, <1>5, <1>6, <1>7, <1>8, <1>9 DEF CatalogInv

LEMMA AddBatchInv ==
    ASSUME CatalogInv, NEW w \in Requests, AddBatch(w) PROVE CatalogInv'
<1>0. /\ CatalogTypeOK /\ IngestionsAreApart /\ FilesComeFirst /\ RowsAreCounted /\ FingerprintIsTrue
      /\ task.at # "idle" => foreign
      /\ Len(docs) \in Nat /\ Len(files) \in Nat /\ Len(fingerprint) \in Nat /\ ingested \in Nat
      /\ BatchSize \in Nat /\ BatchSize > 0
  BY CatalogParts
<1>1. /\ job[w].at = "embedding" /\ Busy(w) /\ overlapped' = overlapped /\ disturbed' = disturbed
      /\ files' = files /\ docs' = docs /\ ingested' = ingested /\ task' = task
      /\ fingerprint' = fingerprint /\ foreign' = foreign /\ edited' = edited
  BY DEF AddBatch, Busy
<1> PICK old \in CatalogJobs : old = job[w]
  BY <1>0 DEF CatalogTypeOK
<1>2. /\ old.start \in Nat /\ old.pending \in Seq(Documents) /\ Len(old.pending) \in Nat
      /\ old.start < Len(old.pending) /\ old.at = "embedding"
      /\ stored' = WithRows(stored, IdsOf(ingested, old.start, Chunk(old.pending, old.start)))
  BY <1>1 DEF AddBatch, CatalogJobs
<1> PICK start \in Nat, pending \in Seq(Documents), size \in Nat :
      start = old.start /\ pending = old.pending /\ size = Len(pending)
  BY <1>2
<1>n. /\ start < size /\ ingested \in Nat /\ BatchSize \in Nat /\ BatchSize > 0
      /\ Len(docs) \in Nat /\ Len(files) \in Nat /\ Len(fingerprint) \in Nat
  BY <1>0, <1>2
<1> DEFINE moved == [old EXCEPT !.start = start + BatchSize]
<1>3. moved \in CatalogJobs /\ moved.at = "embedding" /\ moved.pending = old.pending
      /\ moved.start = start + BatchSize
  BY <1>0, <1>2 DEF CatalogJobs
<1>4. job' = [job EXCEPT ![w] = moved]
  BY <1>0 DEF AddBatch, CatalogTypeOK
<1> HIDE DEF moved
<1>5. job' \in [Requests -> CatalogJobs] /\ job'[w] = moved /\ \A v \in Requests : v # w => job'[v] = job[v]
  BY <1>3, <1>4, JobMoves
<1>s. stored' = WithRows(stored, IdsOf(ingested, start, Chunk(pending, start))) /\ start < Len(pending)
  BY <1>2
<1> DEFINE last == LastOf(pending, start)
<1>m. last \in Nat /\ start < last /\ last <= size /\ (last = size \/ last = start + BatchSize)
  BY <1>n DEF LastOf
<1>p. BatchIsStored(ingested, pending, start, last)
  BY <1>n, <1>s, BatchIsWritten
<1> HIDE DEF last
<1>6. CatalogTypeOK'
  BY <1>0, <1>1, <1>5, <1>p DEF BatchIsStored, CatalogTypeOK
<1>7. ASSUME ~overlapped
      PROVE  /\ task.at = "idle" /\ \A v \in Requests : v # w => ~Busy(v) /\ job'[v].at = "idle" /\ job[v].at = "idle"
             /\ ingested + size = Len(docs)
             /\ \A n \in 1..size : pending[n] = docs[ingested + n]
  BY <1>0, <1>1, <1>5, <1>7, WorksAlone DEF IngestionsAreApart
<1>d. ~overlapped => ingested + size = Len(docs)
  BY <1>7
<1>e. moved.start = start + BatchSize
  BY <1>3
<1>f. ASSUME ~overlapped, NEW i \in 1..Len(docs) PROVE i > ingested + last => i > ingested + moved.start
  <2>1. i <= ingested + size
    BY <1>d, <1>f
  <2>2. last = start + BatchSize \/ i <= ingested + last
    BY <2>1, <1>m
  <2> QED
    BY <2>2, <1>e, <1>f, <1>m, <1>n
<1>8. ASSUME ~overlapped, NEW i \in Nat, i > ingested + start, i <= ingested + last
      PROVE  HasRow(stored', i, docs[i]) /\ i \in 1..Len(docs)
  <2>1. i - ingested \in 1..size /\ i - ingested > start /\ i - ingested <= last
        /\ ingested + (i - ingested) = i
    BY SMTT(30), <1>n, <1>m, <1>8
  <2>2. HasRow(stored', ingested + (i - ingested), pending[i - ingested])
    BY <2>1, <1>p DEF BatchIsStored
  <2>3. pending[i - ingested] = docs[ingested + (i - ingested)]
    BY <2>1, <1>7, <1>8
  <2> QED
    <3>1. i \in 1..Len(docs)
      BY SMTT(30), <1>8, <1>d, <1>n, <1>m
    <3> QED
      BY <2>1, <2>2, <2>3, <3>1
<1>9. ASSUME ~overlapped, NEW i \in Nat, NEW d, HasRow(stored, i, d),
             i > ingested + start /\ i <= ingested + last => docs[i] = d
      PROVE  HasRow(stored', i, d)
  BY <1>8, <1>9, <1>p DEF BatchIsStored, HasRow
<1>10. IngestionsAreApart'
  <2> SUFFICES ASSUME ~overlapped PROVE IngestionsAreApart'
    BY <1>1 DEF IngestionsAreApart
  <2>1. ingested <= Len(docs)
    BY <1>0 DEF IngestionsAreApart
  <2>2. task'.at = "idle" /\ \A v \in Requests : v # w => job'[v].at = "idle"
    BY <1>1, <1>7
  <2>3. /\ ingested + Len(job'[w].pending) = Len(docs)
        /\ \A n \in 1..Len(job'[w].pending) : job'[w].pending[n] = docs[ingested + n]
    BY <1>3, <1>5, <1>7
  <2> QED
    BY <2>1, <2>2, <2>3, <1>1 DEF IngestionsAreApart, Busy
<1>11. FilesComeFirst'
  <2> SUFFICES ASSUME ~overlapped, ~edited PROVE FilesComeFirst'
    BY <1>1 DEF FilesComeFirst
  <2>1. /\ Len(files) <= Len(docs) /\ \A i \in 1..Len(files) : files[i] = docs[i]
        /\ Begins(files, docs)' /\ task'.at = "idle"
    BY <1>0, <1>1, <1>7 DEF FilesComeFirst, Begins
  <2>2. ASSUME NEW i \in DOMAIN stored', i \in 1..Len(files) PROVE stored'[i] = files[i]
    <3>1. CASE i > ingested + start /\ i <= ingested + last
      BY <3>1, <2>1, <2>2, <1>8 DEF HasRow
    <3>2. CASE ~(i > ingested + start /\ i <= ingested + last)
      <4>1. i \notin (ingested + start + 1)..(ingested + last)
        BY SMTT(30), <3>2, <1>n, <1>m, <2>2
      <4>2. i \in DOMAIN stored
        BY <4>1, <1>p DEF BatchIsStored
      <4> QED
        BY <4>2, <3>2, <2>2, <1>0, <1>p DEF BatchIsStored, FilesComeFirst
    <3> QED
      BY <3>1, <3>2
  <2> QED
    BY <2>1, <2>2, <1>1 DEF FilesComeFirst
<1>12. RowsAreCounted'
  <2> SUFFICES ASSUME ~overlapped, ~edited, ~foreign PROVE RowsAreCounted'
    BY <1>1 DEF RowsAreCounted
  <2>1. PICK k \in Nat : DOMAIN stored = 1..k
    BY <1>0 DEF RowsAreCounted
  <2>2. \A v \in Requests : job[v].at # "clearing"
    BY <1>2, <1>7
  <2>3. ASSUME NEW i \in 1..Len(docs), i <= ingested + start PROVE HasRow(stored, i, docs[i])
    <3>1. i \in Nat /\ ~(i > ingested + start)
      BY <2>3, <1>n, <1>m
    <3>2. job[w].at = "embedding" /\ job[w].start = start
      BY <1>1
    <3>3. ~(\A v \in Requests : job[v].at = "embedding" => i > ingested + job[v].start)
      BY <3>1, <3>2
    <3> QED
      BY <3>3, <2>2, <1>0 DEF RowsAreCounted
  <2>4. ingested + start <= k
    <3>1. CASE ingested + start = 0
      BY <3>1
    <3>2. CASE ingested + start > 0
      <4> PICK from \in Nat : from = ingested + start
        BY <1>n
      <4>0. Len(docs) = ingested + size
        BY <1>d
      <4>1. from \in 1..Len(docs)
        BY SMTT(30), <4>0, <3>2, <1>n
      <4>2. from \in DOMAIN stored
        BY <4>1, <2>3, <1>n DEF HasRow
      <4> QED
        BY <4>2, <2>1
    <3> QED
      BY <3>1, <3>2, <1>n, <1>m
  <2>5. DOMAIN stored' = 1..k \cup (ingested + start + 1)..(ingested + last)
    BY <2>1, <1>p DEF BatchIsStored
  <2>6. \E length \in Nat : DOMAIN stored' = 1..length
    <3> PICK top \in Nat : top = ingested + last /\ start < last
      BY <1>n, <1>m
    <3>1. CASE k < top
      <4> PICK from \in Nat : from = ingested + start
        BY <1>n
      <4>1. from <= k
        BY <2>4
      <4>2. 1..k \cup (from + 1)..top = 1..top
        BY <3>1, <4>1
      <4> QED
        BY <4>2, <2>5
    <3>2. CASE top <= k
      <4>1. 1..k \cup (ingested + start + 1)..top = 1..k
        BY SMTT(30), <3>2, <1>n, <1>m
      <4> QED
        BY <4>1, <2>5
    <3> QED
      BY <3>1, <3>2
  <2>7. ASSUME NEW i \in 1..Len(docs), i <= ingested + moved.start PROVE HasRow(stored', i, docs[i])
    <3>1. CASE i <= ingested + start
      BY <3>1, <2>3, <1>0, <1>9
    <3>2. CASE i > ingested + start
      <4>1. i <= ingested + last
        BY SMTT(30), <2>7, <1>f, <1>e, <1>m, <1>n
      <4> QED
        BY <3>2, <4>1, <1>8
    <3> QED
      BY <3>1, <3>2, <1>n, <1>m
  <2>8. ASSUME NEW i \in 1..Len(docs), ~HasRow(stored', i, docs[i])
        PROVE  i > ingested /\ \A v \in Requests : job'[v].at = "embedding" => i > ingested + job'[v].start
    <3>1. i > ingested + moved.start
      BY SMTT(30), <2>7, <2>8, <1>n, <1>m, <1>3
    <3>2. i > ingested
      BY <3>1, <1>n, <1>m, <1>3
    <3>3. \A v \in Requests : v # w => job'[v].at = "idle"
      BY <1>7
    <3> QED
      BY <3>1, <3>2, <3>3, <1>5
  <2> QED
    BY <2>6, <2>8, <1>1 DEF RowsAreCounted
<1>13. FingerprintIsTrue'
  <2> SUFFICES ASSUME ~overlapped, ~disturbed PROVE FingerprintIsTrue'
    BY <1>1 DEF FingerprintIsTrue
  <2>1. Len(fingerprint) <= Len(docs) /\ \A i \in 1..Len(fingerprint) : fingerprint[i] = docs[i]
    BY <1>0, <1>1 DEF FingerprintIsTrue, Begins
  <2>2. Begins(fingerprint, docs)' /\ Busy(w)' /\ task'.at = "idle"
    BY <2>1, <1>1, <1>3, <1>5, <1>7 DEF Begins, Busy
  <2>3. ASSUME NEW i \in 1..Len(fingerprint)
        PROVE  HasRow(stored', i, fingerprint[i]) \/ i > ingested + moved.start
    <3>1. CASE HasRow(stored, i, fingerprint[i])
      BY <3>1, <2>1, <1>9
    <3>2. CASE i > ingested + start /\ i <= ingested + last
      BY <3>2, <2>1, <1>8
    <3>3. CASE i > ingested + start /\ i > ingested + last
      <4>1. i \in 1..Len(docs)
        BY <2>1, <1>n
      <4> QED
        BY <3>3, <4>1, <1>f
    <3>4. HasRow(stored, i, fingerprint[i]) \/ i > ingested + start
      BY <1>0, <1>1 DEF FingerprintIsTrue
    <3> QED
      BY <3>1, <3>2, <3>3, <3>4, <1>n, <1>m
  <2> QED
    BY <2>2, <2>3, <1>1, <1>3, <1>5, <1>7 DEF FingerprintIsTrue
<1> QED
  BY <1>0, <1>1, <1>6, <1>10, <1>11, <1>12, <1>13 DEF CatalogInv

LEMMA IngestedInv ==
    ASSUME CatalogInv, NEW w \in Requests, Ingested(w) PROVE CatalogInv'
<1>0. /\ CatalogTypeOK /\ IngestionsAreApart /\ FilesComeFirst /\ RowsAreCounted /\ FingerprintIsTrue
      /\ task.at # "idle" => foreign
      /\ Len(docs) \in Nat /\ Len(files) \in Nat /\ Len(fingerprint) \in Nat /\ ingested \in Nat
  BY CatalogParts
<1>1. /\ job[w].at = "embedding" /\ Busy(w) /\ overlapped' = overlapped /\ disturbed' = disturbed
      /\ files' = files /\ docs' = docs /\ stored' = stored /\ task' = task
      /\ fingerprint' = fingerprint /\ foreign' = foreign /\ edited' = edited
      /\ job' = [job EXCEPT ![w] = IdleJob]
      /\ job[w].start >= Len(job[w].pending) /\ ingested' = ingested + Len(job[w].pending)
  BY DEF Ingested, Busy
<1> PICK start \in Nat, size \in Nat : start = job[w].start /\ size = Len(job[w].pending)
  BY <1>0 DEF CatalogTypeOK, CatalogJobs
<1>2. start >= size /\ ingested' = ingested + size /\ ingested' \in Nat
  BY <1>0, <1>1
<1>3. IdleJob \in CatalogJobs /\ IdleJob.at = "idle"
  BY DEF IdleJob, CatalogJobs
<1>4. job' \in [Requests -> CatalogJobs] /\ job'[w].at = "idle" /\ \A v \in Requests : v # w => job'[v] = job[v]
  BY <1>1, <1>3, JobMoves
<1>5. ASSUME ~overlapped
      PROVE  /\ task.at = "idle" /\ \A v \in Requests : job'[v].at = "idle"
             /\ \A v \in Requests : job[v].at # "clearing"
             /\ ingested + size = Len(docs)
  <2>1. task.at = "idle" /\ \A v \in Requests : v # w => job[v].at = "idle"
    BY <1>1, <1>5, WorksAlone
  <2>2. ingested + size = Len(docs)
    BY <1>0, <1>1, <1>5 DEF IngestionsAreApart
  <2> QED
    BY <2>1, <2>2, <1>1, <1>4
<1>6. ASSUME ~overlapped, NEW i \in 1..Len(docs) PROVE ~(i > ingested + start)
  <2>1. i <= ingested + size
    BY <1>5, <1>6
  <2> QED
    BY SMTT(30), <2>1, <1>0, <1>2
<1>7. CatalogTypeOK'
  BY <1>0, <1>1, <1>2, <1>4 DEF CatalogTypeOK
<1>8. IngestionsAreApart'
  <2> SUFFICES ASSUME ~overlapped PROVE IngestionsAreApart'
    BY <1>1 DEF IngestionsAreApart
  <2>1. ingested' <= Len(docs)
    BY <1>0, <1>2, <1>5
  <2> QED
    BY <2>1, <1>1, <1>5 DEF IngestionsAreApart, Busy
<1>9. FilesComeFirst'
  BY <1>0, <1>1 DEF FilesComeFirst, Begins
<1>10. RowsAreCounted'
  <2> SUFFICES ASSUME ~overlapped, ~edited, ~foreign PROVE RowsAreCounted'
    BY <1>1 DEF RowsAreCounted
  <2>1. ASSUME NEW i \in 1..Len(docs) PROVE HasRow(stored, i, docs[i])
    BY <2>1, <1>0, <1>1, <1>5, <1>6 DEF RowsAreCounted
  <2> QED
    BY <2>1, <1>0, <1>1 DEF RowsAreCounted
<1>11. FingerprintIsTrue'
  <2> SUFFICES ASSUME ~overlapped, ~disturbed PROVE FingerprintIsTrue'
    BY <1>1 DEF FingerprintIsTrue
  <2>1. Begins(fingerprint, docs)
    BY <1>0, <1>1 DEF FingerprintIsTrue
  <2>2. ASSUME NEW i \in 1..Len(fingerprint) PROVE HasRow(stored, i, fingerprint[i])
    <3>1. i \in 1..Len(docs)
      BY <2>1, <1>0 DEF Begins
    <3>2. HasRow(stored, i, fingerprint[i]) \/ i > ingested + start
      BY <1>0, <1>1 DEF FingerprintIsTrue
    <3> QED
      BY <3>1, <3>2, <1>6
  <2> QED
    BY <2>2, <1>1, <1>5 DEF FingerprintIsTrue, Busy
<1> QED
  BY <1>0, <1>1, <1>7, <1>8, <1>9, <1>10, <1>11 DEF CatalogInv

LEMMA EmbedFailsInv ==
    ASSUME CatalogInv, NEW w \in Requests, EmbedFails(w) PROVE CatalogInv'
<1>0. /\ CatalogTypeOK /\ IngestionsAreApart /\ FilesComeFirst /\ RowsAreCounted /\ FingerprintIsTrue
      /\ task.at # "idle" => foreign
      /\ Len(docs) \in Nat /\ Len(files) \in Nat /\ Len(fingerprint) \in Nat /\ ingested \in Nat
  BY CatalogParts
<1>1. /\ job[w].at = "embedding" /\ Busy(w) /\ overlapped' = overlapped
      /\ disturbed' = (disturbed \/ fingerprint # <<>>)
      /\ files' = files /\ docs' = docs /\ stored' = stored /\ task' = task
      /\ fingerprint' = fingerprint /\ foreign' = foreign /\ edited' = edited
      /\ job' = [job EXCEPT ![w] = IdleJob] /\ ingested' = ingested
  BY DEF EmbedFails, Busy
<1> PICK start \in Nat : start = job[w].start
  BY <1>0 DEF CatalogTypeOK, CatalogJobs
<1>3. IdleJob \in CatalogJobs /\ IdleJob.at = "idle"
  BY DEF IdleJob, CatalogJobs
<1>4. job' \in [Requests -> CatalogJobs] /\ job'[w].at = "idle" /\ \A v \in Requests : v # w => job'[v] = job[v]
  BY <1>1, <1>3, JobMoves
<1>5. ASSUME ~overlapped
      PROVE  /\ task.at = "idle" /\ \A v \in Requests : job'[v].at = "idle"
             /\ \A v \in Requests : job[v].at # "clearing"
  <2>1. task.at = "idle" /\ \A v \in Requests : v # w => job[v].at = "idle"
    BY <1>1, <1>5, WorksAlone
  <2> QED
    BY <2>1, <1>1, <1>4
<1>7. CatalogTypeOK'
  BY <1>0, <1>1, <1>4 DEF CatalogTypeOK
<1>8. IngestionsAreApart'
  BY <1>0, <1>1, <1>5 DEF IngestionsAreApart, Busy
<1>9. FilesComeFirst'
  BY <1>0, <1>1 DEF FilesComeFirst, Begins
<1>10. RowsAreCounted'
  <2> SUFFICES ASSUME ~overlapped, ~edited, ~foreign PROVE RowsAreCounted'
    BY <1>1 DEF RowsAreCounted
  <2>1. ASSUME NEW i \in 1..Len(docs) PROVE i > ingested \/ HasRow(stored, i, docs[i])
    <3>1. ~(i > ingested) => ~(i > ingested + start)
      BY <1>0
    <3> QED
      BY <3>1, <1>0, <1>1, <1>5 DEF RowsAreCounted
  <2>2. \E k \in Nat : DOMAIN stored = 1..k
    BY <1>0 DEF RowsAreCounted
  <2> QED
    BY <2>1, <2>2, <1>1, <1>5 DEF RowsAreCounted
<1>11. FingerprintIsTrue'
  <2> SUFFICES ASSUME ~overlapped, fingerprint = <<>> PROVE FingerprintIsTrue'
    BY <1>1 DEF FingerprintIsTrue
  <2> QED
    BY <1>1, <1>5 DEF FingerprintIsTrue, Busy
<1> QED
  BY <1>0, <1>1, <1>7, <1>8, <1>9, <1>10, <1>11 DEF CatalogInv

LEMMA ResumeCounts ==
    ASSUME CatalogInv
    PROVE  /\ Cardinality(DOMAIN stored) \in Nat
           /\ Resume(files, stored) \in Nat /\ Resume(files, stored) <= Len(files)
           /\ Resume(files, stored) <= Cardinality(DOMAIN stored)
<1>1. Cardinality(DOMAIN stored) \in Nat /\ Len(files) \in Nat
  BY FS_CardinalityType DEF CatalogInv, CatalogTypeOK
<1> QED
  BY <1>1 DEF Resume

LEMMA RestartApiInv ==
    ASSUME CatalogInv, RestartApi PROVE CatalogInv'
<1>0. /\ CatalogTypeOK /\ IngestionsAreApart /\ FilesComeFirst /\ RowsAreCounted /\ FingerprintIsTrue
      /\ task.at # "idle" => foreign
      /\ Len(docs) \in Nat /\ Len(files) \in Nat /\ Len(fingerprint) \in Nat /\ ingested \in Nat
  BY CatalogParts
<1>1. /\ overlapped' = overlapped /\ disturbed' = (disturbed \/ \E w \in Requests : Busy(w))
      /\ files' = files /\ docs' = files /\ stored' = stored /\ task' = task
      /\ fingerprint' = fingerprint /\ edited' = edited
      /\ job' = [w \in Requests |-> IdleJob] /\ ingested' = Resume(files, stored)
      /\ foreign' = (task.at # "idle" \/ (foreign /\ DOMAIN stored # 1..Cardinality(DOMAIN stored)))
  BY DEF RestartApi
<1>2. ingested' \in Nat /\ ingested' <= Len(files) /\ ingested' <= Cardinality(DOMAIN stored)
      /\ Cardinality(DOMAIN stored) \in Nat
  BY <1>1, ResumeCounts
<1>3. job' \in [Requests -> CatalogJobs] /\ \A v \in Requests : job'[v].at = "idle"
  BY <1>1 DEF IdleJob, CatalogJobs
<1>4. CatalogTypeOK'
  BY <1>0, <1>1, <1>2, <1>3 DEF CatalogTypeOK
<1>5. IngestionsAreApart'
  BY <1>1, <1>2, <1>3 DEF IngestionsAreApart, Busy
<1>6. FilesComeFirst'
  BY <1>0, <1>1 DEF FilesComeFirst, Begins
<1>7. RowsAreCounted'
  <2> SUFFICES ASSUME ~overlapped, ~edited, ~foreign' PROVE RowsAreCounted'
    BY <1>1 DEF RowsAreCounted
  <2>1. PICK k \in Nat : DOMAIN stored = 1..k
    BY <1>0, <1>1, <1>2 DEF RowsAreCounted
  <2>2. Cardinality(DOMAIN stored) = k
    BY <2>1, FS_Interval
  <2>3. ASSUME NEW i \in 1..Len(files), i <= ingested' PROVE HasRow(stored, i, files[i])
    <3>1. i \in DOMAIN stored
      BY <2>1, <2>2, <2>3, <1>2
    <3> QED
      BY <3>1, <1>0 DEF FilesComeFirst, HasRow
  <2>4. \A i \in 1..Len(files) : i > ingested' \/ HasRow(stored, i, files[i])
    BY <2>3, <1>2
  <2> QED
    BY <2>1, <2>4, <1>1, <1>3 DEF RowsAreCounted
<1>8. FingerprintIsTrue'
  <2> SUFFICES ASSUME ~overlapped, ~disturbed, \A w \in Requests : ~Busy(w) PROVE FingerprintIsTrue'
    BY <1>1 DEF FingerprintIsTrue
  <2> QED
    BY <1>0, <1>1, <1>3 DEF FingerprintIsTrue, Busy
<1> QED
  BY <1>1, <1>4, <1>5, <1>6, <1>7, <1>8 DEF CatalogInv

LEMMA EditFilesInv ==
    ASSUME CatalogInv, NEW changed \in Edits, EditFiles(changed) PROVE CatalogInv'
<1>0. /\ CatalogTypeOK /\ IngestionsAreApart /\ FilesComeFirst /\ RowsAreCounted /\ FingerprintIsTrue
      /\ task.at # "idle" => foreign
  BY CatalogParts
<1>1. /\ overlapped' = overlapped /\ disturbed' = (disturbed \/ task.at # "idle")
      /\ files' = changed /\ docs' = docs /\ stored' = stored /\ task' = task
      /\ fingerprint' = fingerprint /\ edited' = TRUE /\ job' = job /\ ingested' = ingested
      /\ foreign' = foreign
  BY DEF EditFiles
<1>2. changed \in Seq(Documents)
  <2>1. ASSUME NEW d \in Documents PROVE Append(files, d) \in Seq(Documents) /\ [files EXCEPT ![1] = d] \in Seq(Documents)
    <3>1. files \in Seq(Documents) /\ Len(files) \in Nat
      BY <1>0 DEF CatalogTypeOK
    <3>2. files \in [1..Len(files) -> Documents]
      BY <3>1
    <3>3. [files EXCEPT ![1] = d] \in [1..Len(files) -> Documents]
      BY <3>2
    <3>4. [files EXCEPT ![1] = d] \in Seq(Documents)
      BY <3>1, <3>3
    <3> QED
      BY <3>1, <3>4
  <2> QED
    BY <2>1 DEF Edits
<1>3. CatalogTypeOK'
  BY <1>0, <1>1, <1>2 DEF CatalogTypeOK
<1>4. IngestionsAreApart'
  BY <1>0, <1>1 DEF IngestionsAreApart, Busy
<1>5. FilesComeFirst' /\ RowsAreCounted'
  BY <1>1 DEF FilesComeFirst, RowsAreCounted
<1>6. FingerprintIsTrue'
  BY <1>0, <1>1 DEF FingerprintIsTrue, Begins, Busy
<1> QED
  BY <1>0, <1>1, <1>3, <1>4, <1>5, <1>6 DEF CatalogInv

LEMMA ReingestIfChangedInv ==
    ASSUME CatalogInv, ReingestIfChanged PROVE CatalogInv'
<1>0. /\ CatalogTypeOK /\ IngestionsAreApart /\ FilesComeFirst
      /\ Len(docs) \in Nat /\ Len(files) \in Nat /\ ingested \in Nat
  BY CatalogParts
<1>1. /\ overlapped' = (overlapped \/ \E w \in Requests : Busy(w))
      /\ files' = files /\ docs' = docs /\ stored' = NoRows
      /\ fingerprint' = fingerprint /\ edited' = edited /\ job' = job /\ ingested' = ingested
      /\ foreign' = TRUE
      /\ task' = [at |-> "embedding", docs |-> files, ingested |-> 0, start |-> 0]
  BY DEF ReingestIfChanged
<1>2. task' \in CatalogTasks /\ task'.at = "embedding" /\ task'.docs = files /\ task'.start = 0
  BY <1>0, <1>1 DEF CatalogTypeOK, CatalogTasks
<1>3. DOMAIN stored' = {} /\ IsFiniteSet(DOMAIN stored')
  BY <1>1, FS_EmptySet DEF NoRows
<1>4. ASSUME ~overlapped' PROVE ~overlapped /\ \A v \in Requests : ~Busy(v) /\ job'[v].at = "idle"
  BY <1>1, <1>4 DEF Busy
<1>5. CatalogTypeOK'
  BY <1>0, <1>1, <1>2, <1>3 DEF CatalogTypeOK
<1>6. IngestionsAreApart'
  BY <1>0, <1>1, <1>4 DEF IngestionsAreApart, Busy
<1>7. FilesComeFirst'
  BY <1>0, <1>1, <1>2, <1>3 DEF FilesComeFirst, Begins
<1>8. RowsAreCounted'
  BY <1>1 DEF RowsAreCounted
<1>9. FingerprintIsTrue'
  BY <1>0, <1>1, <1>2, <1>4 DEF FingerprintIsTrue, Busy
<1> QED
  BY <1>1, <1>5, <1>6, <1>7, <1>8, <1>9 DEF CatalogInv

LEMMA ReingestBatchInv ==
    ASSUME CatalogInv, ReingestBatch PROVE CatalogInv'
<1>0. /\ CatalogTypeOK /\ IngestionsAreApart /\ FilesComeFirst /\ RowsAreCounted /\ FingerprintIsTrue
      /\ task.at # "idle" => foreign
      /\ Len(docs) \in Nat /\ Len(files) \in Nat /\ BatchSize \in Nat /\ BatchSize > 0
  BY CatalogParts
<1>1. /\ overlapped' = overlapped /\ disturbed' = disturbed
      /\ files' = files /\ docs' = docs /\ fingerprint' = fingerprint /\ edited' = edited
      /\ job' = job /\ ingested' = ingested /\ foreign' = foreign
      /\ task.at = "embedding"
  BY DEF ReingestBatch
<1> PICK old \in CatalogTasks : old = task
  BY <1>0 DEF CatalogTypeOK
<1> PICK start \in Nat, pending \in Seq(Documents), size \in Nat :
      start = old.start /\ pending = old.docs /\ size = Len(pending)
  BY DEF CatalogTasks
<1> PICK none \in Nat : none = 0
  OBVIOUS
<1>2. old.ingested = none /\ start < Len(pending) /\ start < size
  BY <1>1 DEF ReingestBatch, CatalogTasks
<1>3. stored' = WithRows(stored, IdsOf(none, start, Chunk(pending, start)))
  BY <1>2 DEF ReingestBatch
<1> DEFINE last == LastOf(pending, start)
           moved == [old EXCEPT !.start = start + BatchSize]
<1>4. moved \in CatalogTasks /\ moved.at = "embedding" /\ moved.docs = pending /\ moved.start = start + BatchSize
  BY <1>0, <1>1 DEF CatalogTasks
<1>5. task' = moved
  BY DEF ReingestBatch
<1> HIDE DEF moved
<1>6. last \in Nat /\ start < last /\ last <= size /\ (last = size \/ last = start + BatchSize)
  BY <1>0, <1>2 DEF LastOf
<1>7. BatchIsStored(none, pending, start, last)
  BY <1>2, <1>3, BatchIsWritten
<1> HIDE DEF last
<1>8. CatalogTypeOK'
  BY <1>0, <1>1, <1>4, <1>5, <1>7 DEF BatchIsStored, CatalogTypeOK
<1>9. ASSUME ~overlapped PROVE \A v \in Requests : ~Busy(v) /\ job[v].at = "idle"
  BY <1>0, <1>1, <1>9 DEF IngestionsAreApart, Busy
<1>10. DOMAIN stored' = DOMAIN stored \cup (start + 1)..last
  BY <1>7, <1>6 DEF BatchIsStored
<1>11. \A n \in 1..size : n > start /\ n <= last => HasRow(stored', n, pending[n])
  <2> TAKE n \in 1..size
  <2>1. none + n = n
    OBVIOUS
  <2> QED
    BY <2>1, <1>7 DEF BatchIsStored
<1>12. \A i \in DOMAIN stored : ~(i > start /\ i <= last) => stored'[i] = stored[i]
  <2>1. none + start = start /\ none + last = last
    BY <1>6
  <2> QED
    BY <2>1, <1>7 DEF BatchIsStored
<1>13. IngestionsAreApart'
  BY <1>0, <1>1, <1>9 DEF IngestionsAreApart, Busy
<1>14. FilesComeFirst'
  <2> SUFFICES ASSUME ~overlapped, ~edited PROVE FilesComeFirst'
    BY <1>1 DEF FilesComeFirst
  <2>1. pending = files /\ Begins(files, docs)
    BY <1>0, <1>1 DEF FilesComeFirst
  <2>2. ASSUME NEW i \in DOMAIN stored', i \in 1..Len(files) PROVE stored'[i] = files[i]
    <3>1. CASE i > start /\ i <= last
      BY <3>1, <2>1, <2>2, <1>11 DEF HasRow
    <3>2. CASE ~(i > start /\ i <= last)
      <4>1. i \in DOMAIN stored
        BY <3>2, <2>2, <1>6, <1>10
      <4> QED
        BY <4>1, <3>2, <2>2, <1>0, <1>12 DEF FilesComeFirst
    <3> QED
      BY <3>1, <3>2
  <2> QED
    BY <2>1, <2>2, <1>1, <1>4, <1>5 DEF FilesComeFirst, Begins
<1>15. RowsAreCounted'
  BY <1>0, <1>1 DEF RowsAreCounted
<1>16. FingerprintIsTrue'
  <2> SUFFICES ASSUME ~overlapped, ~disturbed PROVE FingerprintIsTrue'
    BY <1>1 DEF FingerprintIsTrue
  <2>1. pending = files
    BY <1>0, <1>1 DEF FingerprintIsTrue
  <2>2. ASSUME NEW i \in 1..Len(files) PROVE HasRow(stored', i, files[i]) \/ i > moved.start
    <3>1. CASE i > start /\ i <= last
      BY <3>1, <2>1, <1>11
    <3>2. CASE i > start /\ i > last
      BY <3>2, <2>1, <1>4, <1>6
    <3>3. CASE ~(i > start)
      <4>1. HasRow(stored, i, files[i])
        BY <3>3, <1>0, <1>1 DEF FingerprintIsTrue
      <4> QED
        BY <4>1, <3>3, <1>10, <1>12 DEF HasRow
    <3>4. i > start => i <= last \/ i > last
      BY <1>6
    <3> QED
      BY <3>1, <3>2, <3>3, <3>4
  <2>3. task'.at # "idle" /\ task'.docs = files /\ task'.start = moved.start
    BY <2>1, <1>4, <1>5
  <2> QED
    BY <2>2, <2>3, <1>1, <1>9 DEF FingerprintIsTrue, Busy
<1> QED
  BY <1>0, <1>1, <1>8, <1>13, <1>14, <1>15, <1>16 DEF CatalogInv

LEMMA TaskRests == IdleTask \in CatalogTasks /\ IdleTask.at = "idle"
  BY DEF IdleTask, CatalogTasks

LEMMA SaveStateInv ==
    ASSUME CatalogInv, SaveState PROVE CatalogInv'
<1>0. /\ CatalogTypeOK /\ IngestionsAreApart /\ FilesComeFirst /\ RowsAreCounted /\ FingerprintIsTrue
      /\ task.at # "idle" => foreign
      /\ Len(files) \in Nat
  BY CatalogParts
<1>1. /\ overlapped' = overlapped /\ disturbed' = disturbed
      /\ files' = files /\ docs' = docs /\ fingerprint' = files /\ edited' = edited
      /\ job' = job /\ ingested' = ingested /\ foreign' = foreign /\ stored' = stored
      /\ task' = IdleTask /\ task.at = "embedding" /\ task.start >= Len(task.docs)
  BY DEF SaveState
<1>2. task' \in CatalogTasks /\ task'.at = "idle" /\ task.start \in Nat
  BY <1>0, <1>1, TaskRests DEF CatalogTypeOK, CatalogTasks
<1>3. CatalogTypeOK'
  BY <1>0, <1>1, <1>2 DEF CatalogTypeOK
<1>4. IngestionsAreApart'
  BY <1>0, <1>1, <1>2 DEF IngestionsAreApart, Busy
<1>5. FilesComeFirst'
  BY <1>0, <1>1, <1>2 DEF FilesComeFirst, Begins
<1>6. RowsAreCounted'
  BY <1>0, <1>1 DEF RowsAreCounted
<1>7. FingerprintIsTrue'
  <2> SUFFICES ASSUME ~overlapped, ~disturbed PROVE FingerprintIsTrue'
    BY <1>1 DEF FingerprintIsTrue
  <2>1. task.docs = files /\ \A i \in 1..Len(files) : HasRow(stored, i, files[i]) \/ i > task.start
    BY <1>0, <1>1 DEF FingerprintIsTrue
  <2>2. \A i \in 1..Len(files) : HasRow(stored, i, files[i])
    BY <2>1, <1>0, <1>1, <1>2
  <2>3. \A v \in Requests : ~Busy(v) /\ job[v].at = "idle"
    BY <1>0, <1>1 DEF IngestionsAreApart, Busy
  <2> QED
    BY <2>2, <2>3, <1>1, <1>2 DEF FingerprintIsTrue, Busy
<1> QED
  BY <1>0, <1>1, <1>2, <1>3, <1>4, <1>5, <1>6, <1>7 DEF CatalogInv

LEMMA ReingestFailsInv ==
    ASSUME CatalogInv, ReingestFails PROVE CatalogInv'
<1>0. /\ CatalogTypeOK /\ IngestionsAreApart /\ FilesComeFirst /\ RowsAreCounted /\ FingerprintIsTrue
      /\ task.at # "idle" => foreign
  BY CatalogParts
<1>1. /\ overlapped' = overlapped /\ disturbed' = (disturbed \/ fingerprint # <<>>)
      /\ files' = files /\ docs' = docs /\ fingerprint' = fingerprint /\ edited' = edited
      /\ job' = job /\ ingested' = ingested /\ foreign' = foreign /\ stored' = stored
      /\ task' = IdleTask /\ task.at = "embedding"
  BY DEF ReingestFails
<1>2. task' \in CatalogTasks /\ task'.at = "idle"
  BY <1>1, TaskRests
<1>3. CatalogTypeOK'
  BY <1>0, <1>1, <1>2 DEF CatalogTypeOK
<1>4. IngestionsAreApart'
  BY <1>0, <1>1, <1>2 DEF IngestionsAreApart, Busy
<1>5. FilesComeFirst'
  BY <1>0, <1>1, <1>2 DEF FilesComeFirst, Begins
<1>6. RowsAreCounted'
  BY <1>0, <1>1 DEF RowsAreCounted
<1>7. FingerprintIsTrue'
  <2> SUFFICES ASSUME ~overlapped, fingerprint = <<>> PROVE FingerprintIsTrue'
    BY <1>1 DEF FingerprintIsTrue
  <2>1. \A v \in Requests : ~Busy(v) /\ job[v].at = "idle"
    BY <1>0, <1>1 DEF IngestionsAreApart, Busy
  <2> QED
    BY <2>1, <1>1, <1>2 DEF FingerprintIsTrue, Busy
<1> QED
  BY <1>0, <1>1, <1>2, <1>3, <1>4, <1>5, <1>6, <1>7 DEF CatalogInv

LEMMA CatalogNextInv == CatalogInv /\ [CatalogNext]_catalogVars => CatalogInv'
<1> SUFFICES ASSUME CatalogInv, [CatalogNext]_catalogVars PROVE CatalogInv'
  OBVIOUS
<1>1. ASSUME NEW w \in Requests,
             \/ EnsureSeeded(w) \/ CatalogUpdate(w) \/ Cleared(w)
             \/ \E d \in Documents : NewDocument(d) /\ CatalogLoad(w, d)
             \/ AddBatch(w) \/ Ingested(w) \/ EmbedFails(w)
      PROVE  CatalogInv'
  BY <1>1, EnsureSeededInv, CatalogUpdateInv, ClearedInv, CatalogLoadInv, AddBatchInv, IngestedInv, EmbedFailsInv
<1>2. CASE RestartApi \/ (\E changed \in Edits : EditFiles(changed))
  BY <1>2, RestartApiInv, EditFilesInv
<1>3. CASE ReingestIfChanged \/ ReingestBatch \/ SaveState \/ ReingestFails
  BY <1>3, ReingestIfChangedInv, ReingestBatchInv, SaveStateInv, ReingestFailsInv
<1>4. CASE UNCHANGED catalogVars
  BY <1>4 DEF CatalogInv, CatalogTypeOK, IngestionsAreApart, FilesComeFirst, RowsAreCounted, FingerprintIsTrue,
              Begins, Busy, catalogVars
<1> QED
  BY <1>1, <1>2, <1>3, <1>4 DEF CatalogNext

LEMMA CatalogInvImpliesTruth == CatalogInv => CatalogIsTrue
<1> SUFFICES ASSUME CatalogInv PROVE CatalogIsTrue
  OBVIOUS
<1>0. /\ CatalogTypeOK /\ RowsAreCounted /\ FingerprintIsTrue
      /\ Len(docs) \in Nat /\ ingested \in Nat
  BY CatalogParts
<1>1. EmbeddedIsStored
  <2> SUFFICES ASSUME Quiet, ~overlapped, ~edited, ~foreign, ingested >= Len(docs), NEW i \in 1..Len(docs)
               PROVE  HasRow(stored, i, docs[i])
    BY DEF EmbeddedIsStored, HasRow
  <2>1. \A w \in Requests : job[w].at = "idle"
    BY DEF Quiet, Busy
  <2>2. ~(i > ingested)
    BY <1>0
  <2> QED
    BY <2>1, <2>2, <1>0 DEF RowsAreCounted
<1>2. UnchangedMeansFresh
  BY <1>0 DEF UnchangedMeansFresh, FingerprintIsTrue, Quiet, HasRow
<1> QED
  BY <1>1, <1>2 DEF CatalogIsTrue

(* What the count or the fingerprint of the catalog vouches for is in the   *)
(* store (DocumentCatalog of the rag variant, reingest_if_changed), for any *)
(* documents, requests, batches, uploads, edits, failures and restarts.     *)
THEOREM TheCatalogIsTrue == CatalogSpec => []CatalogIsTrue
<1>1. CatalogInv /\ [CatalogNext]_catalogVars => CatalogInv'
  BY CatalogNextInv
<1> QED
  BY <1>1, CatalogInitInv, CatalogInvImpliesTruth, PTL DEF CatalogSpec

-----------------------------------------------------------------------------
(* The rag tool.                                                           *)

(* Induction, for a set: the least number outside would have a predecessor. *)
LEMMA NumbersByInduction ==
    ASSUME NEW S \in SUBSET Nat, 0 \in S, \A n \in S : n + 1 \in S
    PROVE  S = Nat
<1> SUFFICES ASSUME Nat \ S # {} PROVE FALSE
  OBVIOUS
<1>1. PICK R : R = OpToRel(<, Nat)
  OBVIOUS
<1>2. IsWellFoundedOn(R, Nat)
  BY <1>1, NatLessThanWellFounded
<1>3. PICK m \in Nat \ S : \A n \in Nat \ S : ~(<<n, m>> \in R)
  BY <1>2, WFMin
<1>4. R = {pair \in Nat \X Nat : pair[1] < pair[2]}
  BY <1>1 DEF OpToRel
<1>5. \A n \in Nat \ S : ~(n < m)
  BY <1>3, <1>4
<1>6. m # 0 /\ m - 1 \in Nat /\ m - 1 < m
  BY <1>3
<1>7. m - 1 \in S
  BY <1>5, <1>6
<1> QED
  BY <1>3, <1>6, <1>7

(* A value and a step make a function over the numbers up to any one.       *)
Recurs(T, first, step) == first \in T /\ step \in [T \X Nat -> T]

Unrolls(g, n, T, first, step) ==
  /\ g \in [0..n -> T] /\ g[0] = first
  /\ \A i \in 1..n : g[i] = step[<<g[i - 1], i>>]

LEMMA Recursion ==
    ASSUME NEW T, NEW first, NEW step, Recurs(T, first, step), NEW n \in Nat
    PROVE  \E g : Unrolls(g, n, T, first, step)
<1> DEFINE S == {k \in Nat : \E g : Unrolls(g, k, T, first, step)}
<1>1. 0 \in S
  <2>1. PICK g : g = [i \in 0..0 |-> first]
    OBVIOUS
  <2>2. g \in [0..0 -> T] /\ g[0] = first /\ \A i \in 1..0 : FALSE
    BY <2>1 DEF Recurs
  <2> QED
    BY <2>2 DEF Unrolls
<1>2. ASSUME NEW k \in S PROVE k + 1 \in S
  <2>1. PICK g : Unrolls(g, k, T, first, step)
    OBVIOUS
  <2>2. /\ k \in Nat /\ k + 1 \in Nat /\ k + 1 # 0
        /\ g \in [0..k -> T] /\ g[0] = first
        /\ \A i \in 1..k : g[i] = step[<<g[i - 1], i>>]
    BY <2>1 DEF Unrolls
  <2>3. PICK next \in T : next = step[<<g[k], k + 1>>]
    <3>1. g[k] \in T
      BY <2>2
    <3>2. <<g[k], k + 1>> \in T \X Nat
      BY <2>2, <3>1
    <3> QED
      BY <3>2 DEF Recurs
  <2>4. PICK h : h = [i \in 0..(k + 1) |-> IF i = k + 1 THEN next ELSE g[i]]
    OBVIOUS
  <2>5. h \in [0..(k + 1) -> T] /\ h[0] = first /\ h[k + 1] = next
    BY <2>2, <2>3, <2>4
  <2>6. \A i \in 0..k : h[i] = g[i]
    BY <2>2, <2>4
  <2>7. ASSUME NEW i \in 1..(k + 1) PROVE h[i] = step[<<h[i - 1], i>>]
    <3>1. CASE i = k + 1
      <4>1. i - 1 = k /\ k \in 0..k
        BY <2>2, <3>1
      <4> QED
        BY <2>3, <2>5, <2>6, <3>1, <4>1
    <3>2. CASE i # k + 1
      <4>1. i \in 1..k /\ i \in 0..k /\ i - 1 \in 0..k
        BY <2>2, <3>2
      <4> QED
        BY <2>2, <2>6, <4>1
    <3> QED
      BY <3>1, <3>2
  <2>8. Unrolls(h, k + 1, T, first, step)
    BY <2>5, <2>7 DEF Unrolls
  <2> QED
    BY <2>2, <2>8
<1>3. S = Nat
  <2> HIDE DEF S
  <2>1. S \in SUBSET Nat
    BY DEF S
  <2> QED
    BY <1>1, <1>2, <2>1, NumbersByInduction
<1> QED
  BY <1>3

(* Chunks of a document of n units: sets of units that leave none out.      *)
Covers(chunks, n) ==
  /\ chunks \in Seq(SUBSET (1..n))
  /\ \A u \in 1..n : \E i \in 1..Len(chunks) : u \in chunks[i]

LEMMA Quotients ==
    ASSUME NEW a \in Nat, NEW d \in Nat, d # 0
    PROVE  a \div d \in Nat /\ (a \div d) * d <= a /\ a < (a \div d) * d + d
BY SMT

LEMMA QuotientsGrow ==
    ASSUME NEW a \in Nat, NEW b \in Nat, a <= b, NEW d \in Nat, d # 0
    PROVE  a \div d <= b \div d
BY SMT

LEMMA SlidingChunksCover ==
    ASSUME NEW n \in Nat, NEW size \in Nat, NEW overlap \in Nat, overlap < size
    PROVE  Covers(SlidingChunks(n, size, overlap), n)
<1>1. PICK step \in Nat : step = size - overlap /\ step # 0 /\ step <= size
  OBVIOUS
<1>2. PICK count : count = IF n = 0 THEN 0 ELSE (n - 1) \div step + 1
  OBVIOUS
<1>3. count \in Nat
  BY <1>1, <1>2, Quotients
<1>4. PICK chunks : chunks = [i \in 1..count |-> Window((i - 1) * step, (i - 1) * step + size, n)]
  OBVIOUS
<1>5. SlidingChunks(n, size, overlap) = chunks
  <2>1. ~(step <= 0)
    BY <1>1
  <2> QED
    BY <1>1, <1>2, <1>4, <2>1 DEF SlidingChunks
<1>6. chunks \in Seq(SUBSET (1..n)) /\ Len(chunks) = count
  BY <1>3, <1>4 DEF Window
<1>7. ASSUME NEW u \in 1..n PROVE \E i \in 1..count : u \in chunks[i]
  <2>1. PICK a \in Nat : a = u - 1 /\ a <= n - 1 /\ n - 1 \in Nat
    OBVIOUS
  <2>2. PICK q \in Nat : q = a \div step /\ q * step <= a /\ a < q * step + step
    BY <1>1, Quotients
  <2>3. q <= (n - 1) \div step
    BY <1>1, <2>1, <2>2, QuotientsGrow
  <2>4. PICK r \in Nat : r = (n - 1) \div step
    BY <1>1, <2>1, Quotients
  <2>5. count = r + 1 /\ q <= r
    BY <1>2, <2>3, <2>4
  <2>6. q + 1 \in 1..count /\ (q + 1) - 1 = q
    BY <2>5
  <2>7. PICK from \in Nat : from = q * step
    OBVIOUS
  <2>8. from < u /\ u <= from + size
    BY <1>1, <2>1, <2>2, <2>7
  <2>9. u \in Window(from, from + size, n)
    BY <2>8 DEF Window
  <2>10. chunks[q + 1] = Window(from, from + size, n)
    BY <1>4, <2>6, <2>7
  <2> QED
    BY <2>6, <2>9, <2>10
<1> QED
  BY <1>5, <1>6, <1>7 DEF Covers

Longer(longer, s, x) ==
  /\ longer = Append(s, x) /\ Len(longer) = Len(s) + 1 /\ longer[Len(s) + 1] = x
  /\ \A k \in 1..Len(s) : longer[k] = s[k]

LEMMA Appending ==
    ASSUME NEW T, NEW s \in Seq(T), NEW x \in T
    PROVE  \E longer \in Seq(T) : Longer(longer, s, x)
<1>1. PICK longer : longer = Append(s, x)
  OBVIOUS
<1>2. longer \in Seq(T) /\ Len(longer) = Len(s) + 1 /\ longer[Len(s) + 1] = x
  BY <1>1
<1>3. \A k \in 1..Len(s) : longer[k] = s[k]
  BY <1>1
<1> QED
  BY <1>1, <1>2, <1>3 DEF Longer

(* One sentence more: it closes a chunk, of which the last ones open the    *)
(* next, or it waits in the current one.                                    *)
Gathering(n) == [out : Seq(SUBSET (1..n)), current : SUBSET (1..n)]

Gathered(before, i, size, overlap) ==
  LET current == before.current \cup {i}
  IN IF Cardinality(current) >= size
     THEN [out |-> Append(before.out, current), current |-> {u \in current : u > i - overlap}]
     ELSE [before EXCEPT !.current = current]

GatheredUpTo(acc, i) ==
  \A u \in 1..i : u \in acc.current \/ \E k \in 1..Len(acc.out) : u \in acc.out[k]

LEMMA GatheredOneMore ==
    ASSUME NEW n \in Nat, NEW size, NEW overlap, NEW i \in 1..n, NEW before \in Gathering(n)
    PROVE  /\ Gathered(before, i, size, overlap) \in Gathering(n)
           /\ GatheredUpTo(before, i - 1) => GatheredUpTo(Gathered(before, i, size, overlap), i)
<1>1. PICK current \in SUBSET (1..n) : current = before.current \cup {i}
  BY DEF Gathering
<1>2. PICK out \in Seq(SUBSET (1..n)) : out = before.out
  BY DEF Gathering
<1>3. CASE Cardinality(current) >= size
  <2>1. PICK next \in SUBSET (1..n) : next = {u \in current : u > i - overlap}
    BY <1>1
  <2>2. PICK longer \in Seq(SUBSET (1..n)) :
          Longer(longer, out, current)
    <3>1. PICK T : T = SUBSET (1..n)
      OBVIOUS
    <3>2. out \in Seq(T) /\ current \in T
      BY <3>1
    <3>3. \E longer \in Seq(T) : Longer(longer, out, current)
      BY <3>2, Appending
    <3> QED
      BY <3>1, <3>3
  <2>3. Gathered(before, i, size, overlap) = [out |-> longer, current |-> next]
    BY <1>1, <1>2, <1>3, <2>1, <2>2 DEF Gathered, Longer
  <2>4. ASSUME GatheredUpTo(before, i - 1), NEW u \in 1..i
        PROVE  \E k \in 1..Len(longer) : u \in longer[k]
    <3>1. CASE u \in current
      BY <2>2, <3>1 DEF Longer
    <3>2. CASE u \notin current
      <4>1. u \in 1..(i - 1) /\ u \notin before.current
        BY <1>1, <3>2
      <4>2. PICK k \in 1..Len(out) : u \in out[k]
        BY <1>2, <2>4, <4>1 DEF GatheredUpTo
      <4> QED
        BY <2>2, <4>2 DEF Longer
    <3> QED
      BY <3>1, <3>2
  <2> QED
    BY <2>3, <2>4 DEF Gathering, GatheredUpTo
<1>4. CASE ~(Cardinality(current) >= size)
  <2>1. Gathered(before, i, size, overlap) = [before EXCEPT !.current = current]
    BY <1>1, <1>4 DEF Gathered
  <2>2. [before EXCEPT !.current = current] = [out |-> out, current |-> current]
    BY <1>2 DEF Gathering
  <2>3. ASSUME GatheredUpTo(before, i - 1), NEW u \in 1..i, u \notin current
        PROVE  \E k \in 1..Len(out) : u \in out[k]
    <3>1. u \in 1..(i - 1) /\ u \notin before.current
      BY <1>1, <2>3
    <3> QED
      BY <1>2, <2>3, <3>1 DEF GatheredUpTo
  <2> QED
    BY <2>1, <2>2, <2>3 DEF Gathering, GatheredUpTo
<1> QED
  BY <1>3, <1>4

LEMMA SentenceChunksCover ==
    ASSUME NEW n \in Nat, NEW size \in Nat, NEW overlap \in Nat
    PROVE  Covers(SentenceChunks(n, size, overlap), n)
<1> DEFINE none == [out |-> <<>>, current |-> {}]
           gather[i \in 0..n] ==
             IF i = 0 THEN [out |-> <<>>, current |-> {}]
             ELSE LET before  == gather[i - 1]
                      current == before.current \cup {i}
                  IN IF Cardinality(current) >= size
                     THEN [out |-> Append(before.out, current),
                           current |-> {u \in current : u > i - overlap}]
                     ELSE [before EXCEPT !.current = current]
<1>1. PICK step : step = [pair \in Gathering(n) \X Nat |->
                            IF pair[2] \in 1..n THEN Gathered(pair[1], pair[2], size, overlap)
                            ELSE pair[1]]
  OBVIOUS
<1>2. Recurs(Gathering(n), none, step)
  <2>1. none \in Gathering(n)
    BY DEF Gathering
  <2>2. ASSUME NEW pair \in Gathering(n) \X Nat PROVE step[pair] \in Gathering(n)
    <3>1. PICK before \in Gathering(n), i \in Nat : pair = <<before, i>>
      OBVIOUS
    <3>2. step[pair] = IF i \in 1..n THEN Gathered(before, i, size, overlap) ELSE before
      BY <1>1, <3>1
    <3> QED
      BY <3>1, <3>2, GatheredOneMore
  <2>3. step \in [Gathering(n) \X Nat -> Gathering(n)]
    BY <1>1, <2>2
  <2> HIDE DEF none
  <2> QED
    BY <2>1, <2>3 DEF Recurs
<1>3. PICK g : Unrolls(g, n, Gathering(n), none, step)
  <2> HIDE DEF none
  <2> QED
    BY <1>2, Recursion
<1>4. /\ g \in [0..n -> Gathering(n)] /\ g[0] = none
      /\ \A i \in 1..n : g[i] = Gathered(g[i - 1], i, size, overlap)
  <2> HIDE DEF none
  <2>1. g \in [0..n -> Gathering(n)] /\ g[0] = none /\ \A i \in 1..n : g[i] = step[<<g[i - 1], i>>]
    BY <1>3 DEF Unrolls
  <2>2. ASSUME NEW i \in 1..n PROVE step[<<g[i - 1], i>>] = Gathered(g[i - 1], i, size, overlap)
    <3>1. PICK before \in Gathering(n) : before = g[i - 1]
      BY <2>1
    <3>2. PICK pair : pair = <<before, i>>
      OBVIOUS
    <3>3. pair \in Gathering(n) \X Nat /\ pair[1] = before /\ pair[2] = i
      BY <3>2
    <3> QED
      BY <1>1, <3>1, <3>2, <3>3
  <2> QED
    BY <2>1, <2>2
<1>5. g = [i \in 0..n |-> IF i = 0 THEN none ELSE Gathered(g[i - 1], i, size, overlap)]
  <2>1. ASSUME NEW i \in 0..n PROVE g[i] = IF i = 0 THEN none ELSE Gathered(g[i - 1], i, size, overlap)
    <3> HIDE DEF none
    <3>1. i # 0 => i \in 1..n
      OBVIOUS
    <3> QED
      BY <1>4, <3>1
  <2> HIDE DEF none
  <2> QED
    BY <1>4, <2>1
<1>6. gather = [i \in 0..n |-> IF i = 0 THEN none ELSE Gathered(gather[i - 1], i, size, overlap)]
  BY <1>5 DEF Gathered
<1>7. PICK S : S = {i \in Nat : i <= n => gather[i] \in Gathering(n) /\ GatheredUpTo(gather[i], i)}
  OBVIOUS
<1>8. 0 \in S
  <2>1. gather[0] = none
    <3> HIDE DEF none, gather
    <3> QED
      BY <1>6
  <2>2. none \in Gathering(n) /\ GatheredUpTo(none, 0)
    BY DEF Gathering, GatheredUpTo
  <2> HIDE DEF none, gather
  <2> QED
    BY <1>7, <2>1, <2>2
<1>9. ASSUME NEW k \in S PROVE k + 1 \in S
  <2> HIDE DEF none, gather
  <2> SUFFICES ASSUME k + 1 <= n PROVE gather[k + 1] \in Gathering(n) /\ GatheredUpTo(gather[k + 1], k + 1)
    BY <1>7
  <2>1. k \in Nat /\ k <= n /\ k + 1 \in 1..n /\ k + 1 \in 0..n /\ k + 1 # 0 /\ (k + 1) - 1 = k
    BY <1>7
  <2>2. gather[k] \in Gathering(n) /\ GatheredUpTo(gather[k], k)
    BY <1>7, <2>1
  <2>3. PICK before \in Gathering(n), i \in 1..n : before = gather[k] /\ i = k + 1 /\ i - 1 = k
    BY <2>1, <2>2
  <2>4. gather[i] = Gathered(before, i, size, overlap)
    BY <1>6, <2>1, <2>3
  <2> QED
    BY <2>2, <2>3, <2>4, GatheredOneMore
<1>10. n \in S
  <2> HIDE DEF none, gather
  <2>1. S \in SUBSET Nat
    BY <1>7
  <2>2. S = Nat
    BY <1>8, <1>9, <2>1, NumbersByInduction
  <2> QED
    BY <2>2
<1>11. PICK all \in Gathering(n) : all = gather[n] /\ GatheredUpTo(all, n)
  <2> HIDE DEF none, gather
  <2> QED
    BY <1>7, <1>10
<1>12. SentenceChunks(n, size, overlap) =
         IF all.current = {} THEN all.out ELSE Append(all.out, all.current)
  BY <1>11, SMTT(30) DEF SentenceChunks
<1> HIDE DEF none, gather
<1>13. PICK out \in Seq(SUBSET (1..n)), current \in SUBSET (1..n) : out = all.out /\ current = all.current
  BY DEF Gathering
<1>14. CASE current = {}
  BY <1>11, <1>12, <1>13, <1>14 DEF Covers, GatheredUpTo
<1>15. CASE current # {}
  <2>1. PICK longer \in Seq(SUBSET (1..n)) :
          Longer(longer, out, current)
    <3>1. PICK T : T = SUBSET (1..n)
      OBVIOUS
    <3>2. out \in Seq(T) /\ current \in T
      BY <3>1
    <3>3. \E longer \in Seq(T) : Longer(longer, out, current)
      BY <3>2, Appending
    <3> QED
      BY <3>1, <3>3
  <2>2. SentenceChunks(n, size, overlap) = longer
    BY <1>12, <1>13, <1>15, <2>1 DEF Longer
  <2>3. \A u \in 1..n : \E k \in 1..Len(longer) : u \in longer[k]
    BY <1>11, <1>13, <2>1 DEF GatheredUpTo, Longer
  <2> QED
    BY <2>2, <2>3 DEF Covers
<1> QED
  BY <1>14, <1>15

RagSpec == RagInit /\ [][RagNext]_ragVars

RagTypeOK ==
  /\ chunker \in [strategy : {"token", "sentence"}, size : Nat, overlap : Nat]
  /\ seeded \in BOOLEAN
  /\ call \in [Calls -> [at : {"idle", "seeding", "searching", "ingesting"},
                         given : Seq(Known), todo : Seq(Known)]]
  /\ arrived \subseteq Known

(* The rows of a document are in the store as the chunker makes them.       *)
Held(doc) ==
  \A r \in DOMAIN RowsOf(doc) : r \in DOMAIN table /\ table[r] = RowsOf(doc)[r]

RowsAreOfDocuments ==
  \A r \in DOMAIN table : \E doc \in Known : r \in DOMAIN RowsOf(doc) /\ table[r] = RowsOf(doc)[r]

(* What a call has added stays, unless a document of the same id came.      *)
AddedIsHeld ==
  \A c \in Calls : \A doc \in Range(call[c].given) :
    OwnsItsId(doc) => Held(doc) \/ doc \in Range(call[c].todo)

SearchesAreOfTheCorpus ==
  \A c \in Calls : /\ call[c].at \in {"seeding", "searching"} => call[c].given = Corpus
                   /\ call[c].at = "searching" => call[c].todo = <<>>

VouchedIsHeld ==
  /\ seeded => \A doc \in Range(Corpus) : OwnsItsId(doc) => Held(doc)
  /\ \A doc \in arrived : OwnsItsId(doc) => Held(doc)

RagInv ==
  /\ RagTypeOK /\ RowsAreOfDocuments /\ AddedIsHeld /\ SearchesAreOfTheCorpus /\ VouchedIsHeld

LEMMA RagParts ==
    ASSUME RagInv
    PROVE  /\ RagTypeOK /\ RowsAreOfDocuments /\ AddedIsHeld /\ SearchesAreOfTheCorpus /\ VouchedIsHeld
           /\ call \in [Calls -> [at : {"idle", "seeding", "searching", "ingesting"},
                                  given : Seq(Known), todo : Seq(Known)]]
           /\ \A c \in Calls : call[c].given \in Seq(Known) /\ call[c].todo \in Seq(Known)
           /\ Corpus \in Seq(Known) /\ Range(Corpus) \subseteq Known /\ arrived \subseteq Known
  BY RagAssumption DEF RagInv, RagTypeOK, Known

LEMMA RowsAreNamed ==
    ASSUME NEW doc, NEW r \in DOMAIN RowsOf(doc)
    PROVE  r[1] = doc.id
  BY DEF RowsOf

(* The chunker is configured once, so a document's rows are what they were. *)
LEMMA RowsStay ==
    ASSUME chunker' = chunker
    PROVE  \A doc : RowsOf(doc)' = RowsOf(doc)
  BY DEF RowsOf, Chunks

LEMMA HeldStays ==
    ASSUME chunker' = chunker, table' = table
    PROVE  /\ \A doc : Held(doc)' <=> Held(doc)
           /\ RowsAreOfDocuments => RowsAreOfDocuments'
<1>1. \A doc : RowsOf(doc)' = RowsOf(doc)
  BY RowsStay
<1> QED
  BY <1>1 DEF Held, RowsAreOfDocuments

LEMMA RagInitInv == RagInit => RagInv
<1> SUFFICES ASSUME RagInit PROVE RagInv
  OBVIOUS
<1>0. <<>> \in Seq(Known)
  OBVIOUS
<1>1. RagTypeOK
  BY <1>0, RagAssumption DEF RagInit, RagTypeOK, NoCall
<1>2. \A c \in Calls : call[c] = NoCall
  BY DEF RagInit
<1>3. Range(<<>>) = {}
  BY DEF Range
<1> QED
  BY <1>1, <1>2, <1>3 DEF RagInit, RagInv, RowsAreOfDocuments, AddedIsHeld, SearchesAreOfTheCorpus,
     VouchedIsHeld, NoCall

(* A call that changes is one of the calls.                                 *)
LEMMA CallMoves ==
    ASSUME RagInv, NEW c \in Calls,
           NEW moved \in [at : {"idle", "seeding", "searching", "ingesting"},
                          given : Seq(Known), todo : Seq(Known)],
           call' = [call EXCEPT ![c] = moved]
    PROVE  /\ call' \in [Calls -> [at : {"idle", "seeding", "searching", "ingesting"},
                                   given : Seq(Known), todo : Seq(Known)]]
           /\ call'[c] = moved /\ \A d \in Calls : d # c => call'[d] = call[d]
  BY DEF RagInv, RagTypeOK

(* A step of one call that writes nothing.                                  *)
LEMMA WithoutWriting ==
    ASSUME RagInv, NEW c \in Calls,
           NEW moved \in [at : {"idle", "seeding", "searching", "ingesting"},
                          given : Seq(Known), todo : Seq(Known)],
           call' = [call EXCEPT ![c] = moved], UNCHANGED <<chunker, table>>,
           seeded' \in BOOLEAN, arrived' \subseteq Known, VouchedIsHeld',
           \A doc \in Range(moved.given) : OwnsItsId(doc) => Held(doc) \/ doc \in Range(moved.todo),
           moved.at \in {"seeding", "searching"} => moved.given = Corpus,
           moved.at = "searching" => moved.todo = <<>>
    PROVE  RagInv'
<1>1. /\ RagTypeOK /\ RowsAreOfDocuments /\ AddedIsHeld /\ SearchesAreOfTheCorpus
  BY RagParts
<1>2. /\ call' \in [Calls -> [at : {"idle", "seeding", "searching", "ingesting"},
                              given : Seq(Known), todo : Seq(Known)]]
      /\ call'[c] = moved /\ \A d \in Calls : d # c => call'[d] = call[d]
  BY CallMoves
<1>3. RagTypeOK'
  BY <1>1, <1>2 DEF RagTypeOK
<1>4. (\A doc : Held(doc)' <=> Held(doc)) /\ RowsAreOfDocuments'
  BY <1>1, HeldStays
<1>5. AddedIsHeld'
  <2> SUFFICES ASSUME NEW d \in Calls, NEW doc \in Range(call'[d].given), OwnsItsId(doc)
               PROVE  Held(doc)' \/ doc \in Range(call'[d].todo)
    BY DEF AddedIsHeld
  <2>1. CASE d = c
    BY <1>2, <1>4, <2>1
  <2>2. CASE d # c
    BY <1>1, <1>2, <1>4, <2>2 DEF AddedIsHeld
  <2> QED
    BY <2>1, <2>2
<1>6. SearchesAreOfTheCorpus'
  <2> SUFFICES ASSUME NEW d \in Calls
               PROVE  /\ call'[d].at \in {"seeding", "searching"} => call'[d].given = Corpus
                      /\ call'[d].at = "searching" => call'[d].todo = <<>>
    BY DEF SearchesAreOfTheCorpus
  <2> QED
    BY <1>1, <1>2 DEF SearchesAreOfTheCorpus
<1> QED
  BY <1>3, <1>4, <1>5, <1>6 DEF RagInv

LEMMA ArunInv ==
    ASSUME RagInv, NEW c \in Calls, Arun(c) PROVE RagInv'
<1>1. /\ VouchedIsHeld /\ RagTypeOK /\ Corpus \in Seq(Known) /\ arrived \subseteq Known
  BY RagParts
<1>2. PICK moved : moved = Seeding
  OBVIOUS
<1>3. moved \in [at : {"idle", "seeding", "searching", "ingesting"},
                given : Seq(Known), todo : Seq(Known)]
  <2>1. <<>> \in Seq(Known)
    OBVIOUS
  <2> QED
    BY <1>1, <1>2, <2>1 DEF Seeding
<1>4. /\ call' = [call EXCEPT ![c] = moved] /\ UNCHANGED <<chunker, table>>
      /\ seeded' = seeded /\ arrived' = arrived
  BY <1>2 DEF Arun
<1>5. moved.at = "seeding" /\ moved.given = Corpus /\ moved.todo = IF seeded THEN <<>> ELSE Corpus
  BY <1>2 DEF Seeding
<1>6. VouchedIsHeld'
  BY <1>1, <1>4, HeldStays DEF VouchedIsHeld
<1>7. \A doc \in Range(moved.given) : OwnsItsId(doc) => Held(doc) \/ doc \in Range(moved.todo)
  BY <1>1, <1>5 DEF VouchedIsHeld
<1>8. seeded' \in BOOLEAN
  BY <1>1, <1>4 DEF RagTypeOK
<1> QED
  BY <1>1, <1>3, <1>4, <1>5, <1>6, <1>7, <1>8, WithoutWriting

LEMMA SeededInv ==
    ASSUME RagInv, NEW c \in Calls, Seeded(c) PROVE RagInv'
<1>1. /\ VouchedIsHeld /\ RagTypeOK /\ AddedIsHeld /\ SearchesAreOfTheCorpus /\ arrived \subseteq Known
      /\ call[c].given \in Seq(Known) /\ call[c].todo \in Seq(Known)
      /\ call \in [Calls -> [at : {"idle", "seeding", "searching", "ingesting"},
                                  given : Seq(Known), todo : Seq(Known)]]
  BY RagParts
<1>2. PICK moved : moved = [call[c] EXCEPT !.at = "searching"]
  OBVIOUS
<1>3. moved \in [at : {"idle", "seeding", "searching", "ingesting"},
                given : Seq(Known), todo : Seq(Known)]
  BY <1>1, <1>2
<1>4. /\ call' = [call EXCEPT ![c] = moved] /\ UNCHANGED <<chunker, table>>
      /\ seeded' = TRUE /\ arrived' = arrived
  BY <1>1, <1>2 DEF Seeded
<1>5. moved.at = "searching" /\ moved.given = Corpus /\ moved.todo = <<>> /\ call[c].given = Corpus
      /\ call[c].todo = <<>>
  BY <1>1, <1>2 DEF Seeded, SearchesAreOfTheCorpus
<1>6. \A doc \in Range(Corpus) : OwnsItsId(doc) => Held(doc)
  <2>1. Range(<<>>) = {}
    BY DEF Range
  <2> QED
    BY <1>1, <1>5, <2>1 DEF AddedIsHeld
<1>7. VouchedIsHeld'
  BY <1>1, <1>4, <1>6, HeldStays DEF VouchedIsHeld
<1> QED
  BY <1>1, <1>3, <1>4, <1>5, <1>6, <1>7, WithoutWriting

(* A call that ends, with or without its answer.                            *)
LEMMA CallEnds ==
    ASSUME RagInv, NEW c \in Calls, call' = [call EXCEPT ![c] = NoCall],
           UNCHANGED <<chunker, seeded, table>>, arrived' \subseteq Known,
           \A doc \in arrived' \ arrived : OwnsItsId(doc) => Held(doc)
    PROVE  RagInv'
<1>1. /\ VouchedIsHeld /\ RagTypeOK /\ arrived \subseteq Known
  BY RagParts
<1>2. PICK moved : moved = NoCall
  OBVIOUS
<1>3. moved \in [at : {"idle", "seeding", "searching", "ingesting"},
                given : Seq(Known), todo : Seq(Known)]
  <2>1. <<>> \in Seq(Known)
    OBVIOUS
  <2> QED
    BY <1>2, <2>1 DEF NoCall
<1>4. moved.at = "idle" /\ moved.given = <<>> /\ moved.todo = <<>>
  BY <1>2 DEF NoCall
<1>5. Range(<<>>) = {}
  BY DEF Range
<1>6. VouchedIsHeld'
  BY <1>1, HeldStays DEF VouchedIsHeld
<1>7. seeded' \in BOOLEAN
  BY <1>1 DEF RagTypeOK
<1> QED
  BY <1>1, <1>2, <1>3, <1>4, <1>5, <1>6, <1>7, WithoutWriting

LEMMA AnsweredInv ==
    ASSUME RagInv, NEW c \in Calls, Answered(c) PROVE RagInv'
<1>1. arrived' = arrived /\ arrived \subseteq Known
  BY RagParts DEF Answered
<1> QED
  BY <1>1, CallEnds DEF Answered

LEMMA EmbedManyFailsInv ==
    ASSUME RagInv, NEW c \in Calls, EmbedManyFails(c) PROVE RagInv'
<1>1. arrived' = arrived /\ arrived \subseteq Known
  BY RagParts DEF EmbedManyFails
<1> QED
  BY <1>1, CallEnds DEF EmbedManyFails

LEMMA ConfirmInv ==
    ASSUME RagInv, NEW c \in Calls, Confirm(c) PROVE RagInv'
<1>1. /\ AddedIsHeld /\ arrived \subseteq Known /\ call[c].given \in Seq(Known)
  BY RagParts
<1>2. Range(call[c].given) \subseteq Known
  BY <1>1 DEF Range
<1>3. arrived' = arrived \cup Range(call[c].given) /\ call[c].todo = <<>>
  BY DEF Confirm
<1>4. \A doc \in Range(call[c].given) : OwnsItsId(doc) => Held(doc)
  <2>1. Range(<<>>) = {}
    BY DEF Range
  <2> QED
    BY <1>1, <1>3, <2>1 DEF AddedIsHeld
<1>5. arrived' \subseteq Known /\ \A doc \in arrived' \ arrived : OwnsItsId(doc) => Held(doc)
  BY <1>1, <1>2, <1>3, <1>4
<1> QED
  BY <1>5, CallEnds DEF Confirm

LEMMA IngestInv ==
    ASSUME RagInv, NEW c \in Calls, NEW loaded \in Arrivals, Ingest(c, loaded) PROVE RagInv'
<1>1. /\ VouchedIsHeld /\ RagTypeOK /\ arrived \subseteq Known
  BY RagParts
<1>2. PICK moved : moved = [at |-> "ingesting", given |-> loaded, todo |-> loaded]
  OBVIOUS
<1>3. moved \in [at : {"idle", "seeding", "searching", "ingesting"},
                given : Seq(Known), todo : Seq(Known)]
  BY <1>2, RagAssumption
<1>4. /\ call' = [call EXCEPT ![c] = moved] /\ UNCHANGED <<chunker, table>>
      /\ seeded' = seeded /\ arrived' = arrived
  BY <1>2 DEF Ingest
<1>5. moved.at = "ingesting" /\ moved.given = loaded /\ moved.todo = loaded
  BY <1>2
<1>6. VouchedIsHeld'
  BY <1>1, <1>4, HeldStays DEF VouchedIsHeld
<1>7. seeded' \in BOOLEAN
  BY <1>1, <1>4 DEF RagTypeOK
<1> QED
  BY <1>1, <1>3, <1>4, <1>5, <1>6, <1>7, WithoutWriting

(* Writing a document's rows makes them held, and leaves what another one   *)
(* with an id of its own has.                                               *)
LEMMA WritingHolds ==
    ASSUME RagInv, NEW e \in Known, chunker' = chunker, table' = Written(table, RowsOf(e))
    PROVE  /\ Held(e)' /\ RowsAreOfDocuments'
           /\ \A doc \in Known : OwnsItsId(doc) /\ Held(doc) => Held(doc)'
<1>0. RowsAreOfDocuments
  BY RagParts
<1>1. \A doc : RowsOf(doc)' = RowsOf(doc)
  BY RowsStay
<1>2. PICK rows : rows = RowsOf(e)
  OBVIOUS
<1>3. /\ DOMAIN table' = DOMAIN table \cup DOMAIN rows
      /\ \A r \in DOMAIN table' : table'[r] = IF r \in DOMAIN rows THEN rows[r] ELSE table[r]
  BY <1>2 DEF Written
<1>4. Held(e)'
  BY <1>1, <1>2, <1>3 DEF Held
<1>5. ASSUME NEW doc \in Known, OwnsItsId(doc), Held(doc), doc # e PROVE Held(doc)'
  <2>1. e.id # doc.id
    BY <1>5 DEF OwnsItsId
  <2>2. ASSUME NEW r \in DOMAIN RowsOf(doc) PROVE r \notin DOMAIN rows
    BY <1>2, <2>1, <2>2, RowsAreNamed
  <2> QED
    BY <1>1, <1>3, <1>5, <2>2 DEF Held
<1>6. RowsAreOfDocuments'
  <2> SUFFICES ASSUME NEW r \in DOMAIN table'
               PROVE  \E doc \in Known : r \in DOMAIN RowsOf(doc) /\ table'[r] = RowsOf(doc)[r]
    BY <1>1 DEF RowsAreOfDocuments
  <2>1. CASE r \in DOMAIN rows
    BY <1>2, <1>3, <2>1
  <2>2. CASE r \notin DOMAIN rows
    BY <1>0, <1>3, <2>2 DEF RowsAreOfDocuments
  <2> QED
    BY <2>1, <2>2
<1> QED
  BY <1>4, <1>5, <1>6

LEMMA HeadAndTail ==
    ASSUME NEW T, NEW s \in Seq(T), s # <<>>
    PROVE  \E e \in T : \E rest \in Seq(T) :
             e = Head(s) /\ rest = Tail(s) /\ Range(s) \subseteq {e} \cup Range(rest)
<1>1. Head(s) \in T /\ Head(s) = s[1]
  OBVIOUS
<1>2. Tail(s) \in Seq(T) /\ Len(Tail(s)) = Len(s) - 1
  OBVIOUS
<1>3. PICK rest \in Seq(T) : rest = Tail(s)
  BY <1>2
<1>4. \A i \in 1..Len(rest) : rest[i] = s[i + 1]
  BY <1>3
<1>5. ASSUME NEW i \in 1..Len(s), i # 1 PROVE s[i] \in Range(rest)
  <2>1. i - 1 \in 1..Len(rest) /\ (i - 1) + 1 = i
    BY <1>2, <1>3, <1>5
  <2>2. rest[i - 1] = s[i]
    BY <1>4, <2>1
  <2>3. i - 1 \in DOMAIN rest
    BY <2>1
  <2> QED
    BY <2>2, <2>3 DEF Range
<1>6. Range(s) \subseteq {Head(s)} \cup Range(rest)
  BY <1>1, <1>5 DEF Range
<1> QED
  BY <1>1, <1>3, <1>6

LEMMA AddDocumentInv ==
    ASSUME RagInv, NEW c \in Calls, AddDocument(c) PROVE RagInv'
<1>1. /\ VouchedIsHeld /\ RagTypeOK /\ AddedIsHeld /\ SearchesAreOfTheCorpus
      /\ Range(Corpus) \subseteq Known /\ arrived \subseteq Known
      /\ call[c].given \in Seq(Known) /\ call[c].todo \in Seq(Known)
      /\ call \in [Calls -> [at : {"idle", "seeding", "searching", "ingesting"},
                                  given : Seq(Known), todo : Seq(Known)]]
      /\ \A d \in Calls : call[d].given \in Seq(Known)
  BY RagParts
<1>2. PICK todo \in Seq(Known) : todo = call[c].todo /\ todo # <<>>
  BY <1>1 DEF AddDocument
<1>3. PICK e \in Known, rest \in Seq(Known) :
        e = Head(todo) /\ rest = Tail(todo) /\ Range(todo) \subseteq {e} \cup Range(rest)
  BY <1>2, HeadAndTail
<1>4. Range(todo) \subseteq {e} \cup Range(rest)
  BY <1>3
<1>5. PICK moved : moved = [call[c] EXCEPT !.todo = rest]
  OBVIOUS
<1>6. /\ moved \in [at : {"idle", "seeding", "searching", "ingesting"},
                    given : Seq(Known), todo : Seq(Known)]
      /\ moved.at = call[c].at /\ moved.given = call[c].given /\ moved.todo = rest
      /\ moved.at # "searching"
  BY <1>1, <1>3, <1>5 DEF AddDocument
<1>7. /\ call' = [call EXCEPT ![c] = moved] /\ table' = Written(table, RowsOf(e))
      /\ UNCHANGED <<chunker, seeded, arrived>>
  BY <1>1, <1>2, <1>3, <1>5 DEF AddDocument
<1>8. /\ Held(e)' /\ RowsAreOfDocuments'
      /\ \A doc \in Known : OwnsItsId(doc) /\ Held(doc) => Held(doc)'
  BY <1>7, WritingHolds
<1>9. /\ call' \in [Calls -> [at : {"idle", "seeding", "searching", "ingesting"},
                              given : Seq(Known), todo : Seq(Known)]]
      /\ call'[c] = moved /\ \A d \in Calls : d # c => call'[d] = call[d]
  BY <1>6, <1>7, CallMoves
<1>10. RagTypeOK'
  BY <1>1, <1>7, <1>9 DEF RagTypeOK
<1>11. AddedIsHeld'
  <2> SUFFICES ASSUME NEW d \in Calls, NEW doc \in Range(call'[d].given), OwnsItsId(doc)
               PROVE  Held(doc)' \/ doc \in Range(call'[d].todo)
    BY DEF AddedIsHeld
  <2>1. call'[d].given = call[d].given /\ doc \in Range(call[d].given)
    BY <1>6, <1>9
  <2>2. doc \in Known
    BY <1>1, <2>1 DEF Range
  <2>3. CASE Held(doc)
    BY <1>8, <2>2, <2>3
  <2>4. CASE ~Held(doc) /\ d = c
    <3>1. doc \in Range(todo)
      BY <1>1, <1>2, <2>1, <2>4 DEF AddedIsHeld
    <3> QED
      BY <1>4, <1>6, <1>8, <1>9, <2>4, <3>1
  <2>5. CASE ~Held(doc) /\ d # c
    BY <1>1, <1>9, <2>1, <2>5 DEF AddedIsHeld
  <2> QED
    BY <2>3, <2>4, <2>5
<1>12. SearchesAreOfTheCorpus'
  <2> SUFFICES ASSUME NEW d \in Calls
               PROVE  /\ call'[d].at \in {"seeding", "searching"} => call'[d].given = Corpus
                      /\ call'[d].at = "searching" => call'[d].todo = <<>>
    BY DEF SearchesAreOfTheCorpus
  <2> QED
    BY <1>1, <1>6, <1>9 DEF SearchesAreOfTheCorpus
<1>13. VouchedIsHeld'
  BY <1>1, <1>7, <1>8 DEF VouchedIsHeld
<1> QED
  BY <1>8, <1>10, <1>11, <1>12, <1>13 DEF RagInv

LEMMA RagNextInv == RagInv /\ [RagNext]_ragVars => RagInv'
<1> SUFFICES ASSUME RagInv, [RagNext]_ragVars PROVE RagInv'
  OBVIOUS
<1>1. CASE UNCHANGED ragVars
  <2>1. \A doc : RowsOf(doc)' = RowsOf(doc)
    BY <1>1, RowsStay DEF ragVars
  <2> QED
    BY <1>1, <2>1 DEF ragVars, RagInv, RagTypeOK, RowsAreOfDocuments, AddedIsHeld,
       SearchesAreOfTheCorpus, VouchedIsHeld, Held
<1>2. ASSUME NEW c \in Calls,
             \/ Arun(c) \/ AddDocument(c) \/ Seeded(c) \/ Answered(c) \/ EmbedManyFails(c)
             \/ Confirm(c) \/ \E loaded \in Arrivals : Ingest(c, loaded)
      PROVE  RagInv'
  BY <1>2, ArunInv, AddDocumentInv, SeededInv, AnsweredInv, EmbedManyFailsInv, ConfirmInv, IngestInv
<1> QED
  BY <1>1, <1>2 DEF RagNext

(* A document that is held is found whole, and with nothing else.           *)
LEMMA HeldIsCovered ==
    ASSUME RagInv, NEW doc \in Known, OwnsItsId(doc), Held(doc), chunker.overlap < chunker.size
    PROVE  CoveredBy(doc) = 1..doc.length
<1>0. RagTypeOK /\ RowsAreOfDocuments
  BY RagParts
<1>1. PICK n \in Nat : n = doc.length
  BY RagAssumption
<1>2. PICK chunks : chunks = Chunks(n)
  OBVIOUS
<1>3. Covers(chunks, n)
  <2>1. chunker.size \in Nat /\ chunker.overlap \in Nat
    BY <1>0 DEF RagTypeOK
  <2> QED
    BY <1>2, <2>1, SentenceChunksCover, SlidingChunksCover DEF Chunks
<1>4. chunks \in Seq(SUBSET (1..n)) /\ \A u \in 1..n : \E i \in 1..Len(chunks) : u \in chunks[i]
  BY <1>3 DEF Covers
<1>5. PICK rows : rows = RowsOf(doc)
  OBVIOUS
<1>6. rows = [r \in {<<doc.id, i>> : i \in 1..Len(chunks)} |-> [text |-> doc.text, tokens |-> chunks[r[2]]]]
  BY <1>1, <1>2, <1>5 DEF RowsOf
<1>7. ASSUME NEW i \in 1..Len(chunks)
      PROVE  /\ <<doc.id, i>> \in DOMAIN table /\ table[<<doc.id, i>>].text = doc.text
             /\ table[<<doc.id, i>>].tokens = chunks[i] /\ <<doc.id, i>>[1] = doc.id
  <2>1. PICK r : r = <<doc.id, i>>
    OBVIOUS
  <2>2. r \in DOMAIN rows /\ r[1] = doc.id /\ r[2] = i
    BY <1>6, <2>1
  <2>3. rows[r] = [text |-> doc.text, tokens |-> chunks[i]]
    BY <1>6, <2>2
  <2>4. r \in DOMAIN table /\ table[r] = rows[r]
    BY <1>5, <2>2 DEF Held
  <2> QED
    BY <2>1, <2>2, <2>3, <2>4
<1>8. ASSUME NEW r \in DOMAIN table, r[1] = doc.id PROVE table[r].tokens \subseteq 1..n
  <2>1. PICK other \in Known : r \in DOMAIN RowsOf(other) /\ table[r] = RowsOf(other)[r]
    BY <1>0 DEF RowsAreOfDocuments
  <2>2. other = doc
    BY <1>8, <2>1, RowsAreNamed DEF OwnsItsId
  <2>3. r \in DOMAIN rows /\ table[r] = rows[r]
    BY <1>5, <2>1, <2>2
  <2>4. PICK i \in 1..Len(chunks) : r = <<doc.id, i>>
    BY <1>6, <2>3
  <2>5. rows[r].tokens = chunks[i]
    BY <1>6, <2>3, <2>4
  <2>6. chunks[i] \in SUBSET (1..n)
    BY <1>4
  <2> QED
    BY <2>3, <2>5, <2>6
<1>9. \A u \in CoveredBy(doc) : u \in 1..n
  BY <1>8 DEF CoveredBy
<1>10. ASSUME NEW u \in 1..n PROVE u \in CoveredBy(doc)
  <2>1. PICK i \in 1..Len(chunks) : u \in chunks[i]
    BY <1>4
  <2>2. PICK r : r = <<doc.id, i>>
    OBVIOUS
  <2>3. r \in DOMAIN table /\ r[1] = doc.id /\ table[r].text = doc.text /\ u \in table[r].tokens
    BY <1>7, <2>1, <2>2
  <2> QED
    BY <2>3 DEF CoveredBy
<1> QED
  BY <1>1, <1>9, <1>10

(* Whatever a chunker of any size and overlap makes of any documents: when  *)
(* a query reaches the store, every configured and every confirmed document *)
(* with an id of its own is there whole, and nothing else under its id.     *)
THEOREM SearchesSeeWholeDocuments == RagSpec => []SearchSeesEveryDocument
<1>1. RagInv => SearchSeesEveryDocument
  <2> SUFFICES ASSUME RagInv, chunker.overlap < chunker.size, NEW c \in Calls, call[c].at = "searching",
                      NEW doc \in Range(Corpus) \cup arrived, OwnsItsId(doc)
               PROVE  CoveredBy(doc) = 1..doc.length
    BY DEF SearchSeesEveryDocument
  <2>1. doc \in Known /\ VouchedIsHeld /\ AddedIsHeld /\ SearchesAreOfTheCorpus
    BY RagParts
  <2>2. Held(doc)
    <3>1. Range(<<>>) = {}
      BY DEF Range
    <3>2. call[c].given = Corpus /\ call[c].todo = <<>>
      BY <2>1 DEF SearchesAreOfTheCorpus
    <3> QED
      BY <2>1, <3>1, <3>2 DEF VouchedIsHeld, AddedIsHeld
  <2> QED
    BY <2>1, <2>2, HeldIsCovered
<1> QED
  BY <1>1, RagInitInv, RagNextInv, PTL DEF RagSpec

-----------------------------------------------------------------------------
(* What is selected from a sequence.                                       *)

Selecting(kept, s, S) ==
  kept = [i \in 0..Len(s) |->
            IF i = 0 THEN <<>>
            ELSE IF s[i] \in S THEN Append(kept[i - 1], s[i]) ELSE kept[i - 1]]

Selects(kept, s, S, T) ==
  /\ kept \in [0..Len(s) -> Seq(T \cap S)] /\ kept[0] = <<>>
  /\ \A i \in 1..Len(s) : /\ s[i] \in S => Longer(kept[i], kept[i - 1], s[i])
                          /\ s[i] \notin S => kept[i] = kept[i - 1]

LEMMA SelectingExists ==
    ASSUME NEW T, NEW s \in Seq(T), NEW S
    PROVE  \E kept : Selecting(kept, s, S)
<1>1. PICK n \in Nat : n = Len(s)
  OBVIOUS
<1>2. PICK U : U = Seq(T)
  OBVIOUS
<1>3. PICK step : step = [pair \in U \X Nat |->
                            IF pair[2] \in 1..n /\ s[pair[2]] \in S
                            THEN Append(pair[1], s[pair[2]]) ELSE pair[1]]
  OBVIOUS
<1>4. ASSUME NEW before \in U, NEW i \in Nat
      PROVE  step[<<before, i>>] = IF i \in 1..n /\ s[i] \in S THEN Append(before, s[i]) ELSE before
  <2>1. PICK pair : pair = <<before, i>>
    OBVIOUS
  <2>2. pair \in U \X Nat /\ pair[1] = before /\ pair[2] = i
    BY <2>1
  <2> QED
    BY <1>3, <2>1, <2>2
<1>5. PICK none \in U : none = <<>>
  <2>1. <<>> \in Seq(T)
    OBVIOUS
  <2> QED
    BY <1>2, <2>1
<1>6. Recurs(U, none, step)
  <2>1. ASSUME NEW pair \in U \X Nat PROVE step[pair] \in U
    <3>1. PICK before \in U, i \in Nat : pair = <<before, i>>
      OBVIOUS
    <3>2. i \in 1..n => Append(before, s[i]) \in U
      BY <1>1, <1>2
    <3> QED
      BY <1>4, <3>1, <3>2
  <2>2. step \in [U \X Nat -> U]
    BY <1>3, <2>1
  <2> QED
    BY <1>5, <2>2 DEF Recurs
<1>7. PICK g : Unrolls(g, n, U, none, step)
  BY <1>6, Recursion
<1>8. g \in [0..n -> U] /\ g[0] = none /\ \A i \in 1..n : g[i] = step[<<g[i - 1], i>>]
  BY <1>7 DEF Unrolls
<1>9. ASSUME NEW i \in 0..n
      PROVE  g[i] = IF i = 0 THEN <<>>
                    ELSE IF s[i] \in S THEN Append(g[i - 1], s[i]) ELSE g[i - 1]
  <2>1. CASE i = 0
    BY <1>5, <1>8, <2>1
  <2>2. CASE i # 0
    <3>1. i \in 1..n /\ i - 1 \in 0..n /\ i \in Nat
      BY <2>2
    <3>2. PICK before \in U : before = g[i - 1]
      BY <1>8, <3>1
    <3>3. g[i] = step[<<before, i>>]
      BY <1>8, <3>1, <3>2
    <3> QED
      BY <1>4, <2>2, <3>1, <3>2, <3>3
  <2> QED
    BY <2>1, <2>2
<1>10. g = [i \in 0..n |-> IF i = 0 THEN <<>>
                    ELSE IF s[i] \in S THEN Append(g[i - 1], s[i]) ELSE g[i - 1]]
  BY <1>8, <1>9
<1> QED
  BY <1>1, <1>10 DEF Selecting

LEMMA SelectingSelects ==
    ASSUME NEW T, NEW s \in Seq(T), NEW S, NEW kept, Selecting(kept, s, S)
    PROVE  Selects(kept, s, S, T)
<1>1. PICK n \in Nat : n = Len(s) /\ \A i \in 1..n : s[i] \in T
  OBVIOUS
<1>2. PICK V : V = T \cap S
  OBVIOUS
<1>3. /\ kept = [i \in 0..n |-> kept[i]] /\ kept[0] = <<>>
      /\ \A i \in 1..n : kept[i] = IF s[i] \in S THEN Append(kept[i - 1], s[i]) ELSE kept[i - 1]
  <2>1. PICK f : f = [i \in 0..n |-> IF i = 0 THEN <<>>
                    ELSE IF s[i] \in S THEN Append(kept[i - 1], s[i]) ELSE kept[i - 1]]
    OBVIOUS
  <2>2. kept = f
    BY <1>1, <2>1 DEF Selecting
  <2>3. f = [i \in 0..n |-> f[i]] /\ f[0] = <<>>
    BY <2>1
  <2>4. \A i \in 1..n : f[i] = IF s[i] \in S THEN Append(kept[i - 1], s[i]) ELSE kept[i - 1]
    BY <2>1
  <2> QED
    BY <2>2, <2>3, <2>4
<1>4. PICK A : A = {i \in Nat : i <= n => kept[i] \in Seq(V)}
  OBVIOUS
<1>5. 0 \in A
  BY <1>3, <1>4
<1>6. ASSUME NEW k \in A PROVE k + 1 \in A
  <2> SUFFICES ASSUME k + 1 <= n PROVE kept[k + 1] \in Seq(V)
    BY <1>4
  <2>1. k \in Nat /\ k <= n /\ k + 1 \in 1..n /\ (k + 1) - 1 = k
    BY <1>4
  <2>2. PICK before \in Seq(V) : before = kept[k]
    BY <1>4, <2>1
  <2>3. PICK x : x = s[k + 1] /\ x \in T
    BY <1>1, <2>1
  <2>4. kept[k + 1] = IF x \in S THEN Append(before, x) ELSE before
    BY <1>3, <2>1, <2>2, <2>3
  <2>5. x \in S => x \in V
    BY <1>2, <2>3
  <2> QED
    BY <2>2, <2>4, <2>5
<1>7. A = Nat
  <2>1. A \in SUBSET Nat
    BY <1>4
  <2> QED
    BY <1>5, <1>6, <2>1, NumbersByInduction
<1>8. \A i \in 0..n : kept[i] \in Seq(V)
  BY <1>4, <1>7
<1>9. ASSUME NEW i \in 1..n, s[i] \in S
      PROVE  Longer(kept[i], kept[i - 1], s[i])
  <2>1. PICK before \in Seq(V) : before = kept[i - 1]
    BY <1>8
  <2>2. PICK x \in V : x = s[i]
    BY <1>1, <1>2, <1>9
  <2>3. kept[i] = Append(before, x)
    BY <1>3, <1>9, <2>1, <2>2
  <2>4. PICK longer \in Seq(V) : Longer(longer, before, x)
    BY Appending
  <2> QED
    BY <2>1, <2>2, <2>3, <2>4 DEF Longer
<1>10. \A i \in 1..n : s[i] \notin S => kept[i] = kept[i - 1]
  BY <1>3
<1>11. kept \in [0..n -> Seq(V)]
  BY <1>3, <1>8
<1> QED
  BY <1>1, <1>2, <1>3, <1>9, <1>10, <1>11 DEF Selects

-----------------------------------------------------------------------------
(* Sub-agents that share the state of the workflow.                        *)

SubSpec == SubInit /\ [][SubNext]_subVars

Values(f) == f \in [Agent -> Nat]

Locals == {"pc", "copy", "round", "tries", "number"}

SubTypeOK ==
  /\ Values(flowState) /\ Values(wrote)
  /\ attempted \in Nat
  /\ DOMAIN sub = Agent /\ \A a \in Agent : DOMAIN sub[a] = Locals
  /\ \A a \in Agent : sub[a].pc \in {"idle", "asking"}
  /\ \A a \in Agent : sub[a].pc = "asking" => sub[a].number \in Nat /\ Values(sub[a].copy)

(* Whatever was copied since a write that nobody was beside of has it.      *)
Settled(a) == a \in Agent /\ a \notin repliedBeside /\ wrote[a] # NoValue

CopiesHaveWhatIsSettled ==
  \A a, b \in Agent : Settled(a) /\ sub[b].pc = "asking" => sub[b].copy[a] = wrote[a]

WhatIsSettledStays == \A a \in Agent : Settled(a) => flowState[a] = wrote[a]

SubInv == SubTypeOK /\ CopiesHaveWhatIsSettled /\ WhatIsSettledStays

LEMMA SubInitInv == SubInit => SubInv
  BY DEF SubInit, Idling, NoValue, Locals, SubInv, SubTypeOK, Values, Settled,
         CopiesHaveWhatIsSettled, WhatIsSettledStays

LEMMA AttemptStarts ==
    ASSUME NEW tries, NEW number
    PROVE  LET started == Attempt(tries, number)
           IN  /\ started.pc = "asking" /\ started.copy = flowState /\ started.number = number
               /\ DOMAIN started = Locals
  BY DEF Attempt, Locals

LEMMA CallSubAgentsInv ==
    ASSUME SubInv, CallSubAgents
    PROVE  SubInv'
<1>0. PICK called \in SUBSET Agent \ {{}} :
        sub' = [a \in Agent |-> IF a \in called THEN Attempt(1, attempted + 1) ELSE Idling]
  BY DEF CallSubAgents
<1>1. UNCHANGED <<flowState, wrote, repliedBeside>> /\ attempted' = attempted + 1
  BY DEF CallSubAgents
<1>2. SubTypeOK /\ WhatIsSettledStays
  BY DEF SubInv
<1>3. ASSUME NEW a \in Agent
      PROVE  /\ DOMAIN sub'[a] = Locals
             /\ a \in called => /\ sub'[a].pc = "asking" /\ sub'[a].copy = flowState
                                /\ sub'[a].number = attempted + 1
             /\ a \notin called => sub'[a].pc = "idle"
  BY <1>0, <1>3, AttemptStarts DEF Idling, Locals
<1>4. SubTypeOK'
  BY <1>0, <1>1, <1>2, <1>3 DEF SubTypeOK, Values
<1>5. WhatIsSettledStays'
  BY <1>1, <1>2 DEF WhatIsSettledStays, Settled
<1>6. CopiesHaveWhatIsSettled'
  <2> SUFFICES ASSUME NEW a \in Agent, NEW b \in Agent, Settled(a)', sub'[b].pc = "asking"
               PROVE  sub'[b].copy[a] = wrote'[a]
    BY DEF CopiesHaveWhatIsSettled
  <2>1. Settled(a)
    BY <1>1 DEF Settled
  <2>2. sub'[b].copy = flowState
    BY <1>3
  <2> QED
    BY <2>1, <2>2, <1>1, <1>2 DEF WhatIsSettledStays
<1> QED
  BY <1>4, <1>5, <1>6 DEF SubInv

LEMMA SubAgentUsesToolInv ==
    ASSUME SubInv, NEW a \in Agent, SubAgentUsesTool(a)
    PROVE  SubInv'
<1>0. PICK round : sub' = [sub EXCEPT ![a] = [sub[a] EXCEPT !.round = round]]
  BY DEF SubAgentUsesTool
<1>1. SubTypeOK /\ UNCHANGED <<flowState, wrote, attempted, repliedBeside>>
  BY DEF SubInv, SubAgentUsesTool
<1>2. DOMAIN sub = Agent /\ DOMAIN sub' = Agent /\ \A b \in Agent : DOMAIN sub[b] = Locals
  BY <1>0, <1>1 DEF SubTypeOK
<1>3. sub'[a] = [sub[a] EXCEPT !.round = round]
  BY <1>0, <1>2
<1>4. /\ DOMAIN sub'[a] = Locals /\ sub'[a].pc = sub[a].pc
      /\ sub'[a].copy = sub[a].copy /\ sub'[a].number = sub[a].number
  BY <1>2, <1>3 DEF Locals
<1>5. \A b \in Agent : b # a => sub'[b] = sub[b]
  BY <1>0, <1>2
<1>6. \A b \in Agent : /\ DOMAIN sub'[b] = Locals /\ sub'[b].pc = sub[b].pc
                       /\ sub'[b].copy = sub[b].copy /\ sub'[b].number = sub[b].number
  BY <1>2, <1>4, <1>5
<1>7. SubTypeOK'
  BY <1>1, <1>2, <1>6 DEF SubTypeOK, Values
<1>8. CopiesHaveWhatIsSettled' /\ WhatIsSettledStays'
  BY <1>1, <1>6 DEF SubInv, CopiesHaveWhatIsSettled, WhatIsSettledStays, Settled
<1> QED
  BY <1>7, <1>8 DEF SubInv

(* A sub-agent that has ended is idle, and the others are where they were.  *)
LEMMA SubAgentEnds ==
    ASSUME SubTypeOK, NEW a \in Agent, sub' = [sub EXCEPT ![a] = Idling]
    PROVE  /\ DOMAIN sub' = Agent /\ \A b \in Agent : DOMAIN sub'[b] = Locals
           /\ sub'[a].pc = "idle"
           /\ \A b \in Agent : b # a => sub'[b] = sub[b]
  BY DEF SubTypeOK, Idling, Locals

(* Nobody is beside a reply that is settled: those who begin after it copy  *)
(* it, and those at work beside any other reply have what was settled then. *)
LEMMA SubAgentRepliesInv ==
    ASSUME SubInv, NEW a \in Agent, SubAgentReplies(a)
    PROVE  SubInv'
<1> DEFINE copy == [sub[a].copy EXCEPT ![a] = sub[a].number]
<1>0. /\ flowState' = [k \in Agent |-> IF copy[k] # NoValue THEN copy[k] ELSE flowState[k]]
      /\ wrote' = [wrote EXCEPT ![a] = sub[a].number]
      /\ sub' = [sub EXCEPT ![a] = Idling]
      /\ repliedBeside' = IF AtWork = {a} THEN repliedBeside \ {a} ELSE repliedBeside \cup {a}
      /\ UNCHANGED attempted
      /\ sub[a].pc = "asking" /\ sub[a].number \in Nat
  BY DEF SubAgentReplies, Recorded, SubInv, SubTypeOK
<1>1. SubTypeOK /\ CopiesHaveWhatIsSettled /\ WhatIsSettledStays
  BY DEF SubInv
<1>2. /\ DOMAIN sub' = Agent /\ \A b \in Agent : DOMAIN sub'[b] = Locals
      /\ sub'[a].pc = "idle" /\ \A b \in Agent : b # a => sub'[b] = sub[b]
  BY <1>0, <1>1, SubAgentEnds
<1>3. Values(sub[a].copy)
  BY <1>0, <1>1 DEF SubTypeOK
<1>4. /\ copy[a] = sub[a].number
      /\ \A k \in Agent : copy[k] \in Nat /\ (k # a => copy[k] = sub[a].copy[k])
  BY <1>0, <1>3 DEF Values
<1> HIDE DEF copy
<1>5. Values(flowState') /\ Values(wrote')
  BY <1>0, <1>1, <1>4 DEF SubTypeOK, Values
<1>6. SubTypeOK'
  BY <1>0, <1>1, <1>2, <1>5 DEF SubTypeOK
<1>7. wrote'[a] = sub[a].number /\ \A k \in Agent : k # a => wrote'[k] = wrote[k]
  BY <1>0, <1>1 DEF SubTypeOK, Values
<1>8. ASSUME NEW k \in Agent, k # a, Settled(k)'
      PROVE  Settled(k) /\ wrote'[k] = wrote[k]
  BY <1>0, <1>7, <1>8 DEF Settled
<1>9. WhatIsSettledStays'
  <2>1. ASSUME NEW k \in Agent, Settled(k)' PROVE flowState'[k] = wrote'[k]
    <3>1. CASE k = a
      <4>1. copy[a] # NoValue
        BY <1>4, <1>7, <2>1, <3>1 DEF Settled
      <4> QED
        BY <1>0, <1>4, <1>7, <3>1, <4>1
    <3>2. CASE k # a
      <4>1. Settled(k) /\ wrote'[k] = wrote[k]
        BY <1>8, <2>1, <3>2
      <4>2. sub[a].copy[k] = wrote[k] /\ wrote[k] # NoValue
        BY <1>0, <1>1, <4>1 DEF CopiesHaveWhatIsSettled, Settled
      <4>3. flowState'[k] = copy[k] /\ copy[k] = wrote[k]
        BY <1>0, <1>4, <3>2, <4>2
      <4> QED
        BY <4>1, <4>3
    <3> QED
      BY <3>1, <3>2
  <2> QED
    BY <2>1 DEF WhatIsSettledStays
<1>10. CopiesHaveWhatIsSettled'
  <2> SUFFICES ASSUME NEW k \in Agent, NEW b \in Agent, Settled(k)', sub'[b].pc = "asking"
               PROVE  sub'[b].copy[k] = wrote'[k]
    BY DEF CopiesHaveWhatIsSettled
  <2>1. b # a /\ sub'[b] = sub[b] /\ b \in AtWork
    BY <1>2 DEF AtWork
  <2>2. repliedBeside' = repliedBeside \cup {a}
    BY <1>0, <2>1
  <2>3. k # a
    BY <2>2 DEF Settled
  <2>4. Settled(k) /\ wrote'[k] = wrote[k]
    BY <1>8, <2>3
  <2> QED
    BY <1>1, <2>1, <2>4 DEF CopiesHaveWhatIsSettled
<1> QED
  BY <1>6, <1>9, <1>10 DEF SubInv

LEMMA SubAgentFailsInv ==
    ASSUME SubInv, NEW a \in Agent, SubAgentFails(a)
    PROVE  SubInv'
<1>0. UNCHANGED <<flowState, wrote, repliedBeside>>
  BY DEF SubAgentFails
<1>1. SubTypeOK /\ CopiesHaveWhatIsSettled /\ WhatIsSettledStays
  BY DEF SubInv
<1>2. WhatIsSettledStays' /\ \A k \in Agent : Settled(k)' => Settled(k)
  BY <1>0, <1>1 DEF WhatIsSettledStays, Settled
<1>3. CASE UNCHANGED attempted /\ sub' = [sub EXCEPT ![a] = Idling]
  <2>1. /\ DOMAIN sub' = Agent /\ \A b \in Agent : DOMAIN sub'[b] = Locals
        /\ sub'[a].pc = "idle" /\ \A b \in Agent : b # a => sub'[b] = sub[b]
    BY <1>1, <1>3, SubAgentEnds
  <2>2. SubTypeOK'
    BY <2>1, <1>0, <1>1, <1>3 DEF SubTypeOK, Values
  <2>3. CopiesHaveWhatIsSettled'
    BY <2>1, <1>0, <1>1, <1>2 DEF CopiesHaveWhatIsSettled
  <2> QED
    BY <2>2, <2>3, <1>2 DEF SubInv
<1>4. CASE /\ attempted' = attempted + 1 /\ sub[a].pc = "asking"
           /\ sub' = [sub EXCEPT ![a] = Attempt(sub[a].tries + 1, attempted')]
  <2>1. PICK started : /\ sub' = [sub EXCEPT ![a] = started]
                       /\ started.pc = "asking" /\ started.copy = flowState
                       /\ started.number = attempted' /\ DOMAIN started = Locals
    BY <1>4, AttemptStarts, ZenonT(30)
  <2>2. /\ DOMAIN sub' = Agent /\ sub'[a] = started
        /\ \A b \in Agent : b # a => sub'[b] = sub[b]
    BY <2>1, <1>1 DEF SubTypeOK
  <2>3. attempted' \in Nat
    BY <1>1, <1>4 DEF SubTypeOK
  <2>4. SubTypeOK'
    BY <2>1, <2>2, <2>3, <1>0, <1>1 DEF SubTypeOK, Values
  <2>5. CopiesHaveWhatIsSettled'
    <3> SUFFICES ASSUME NEW k \in Agent, NEW b \in Agent, Settled(k)', sub'[b].pc = "asking"
                 PROVE  sub'[b].copy[k] = wrote'[k]
      BY DEF CopiesHaveWhatIsSettled
    <3>1. Settled(k) /\ flowState[k] = wrote[k]
      BY <1>1, <1>2 DEF WhatIsSettledStays
    <3>2. CASE b = a
      BY <1>0, <2>1, <2>2, <3>1, <3>2
    <3>3. CASE b # a
      BY <1>0, <1>1, <2>2, <3>1, <3>3 DEF CopiesHaveWhatIsSettled
    <3> QED
      BY <3>2, <3>3
  <2> QED
    BY <2>4, <2>5, <1>2 DEF SubInv
<1> QED
  BY <1>3, <1>4 DEF SubAgentFails

LEMMA SubNextInv == SubInv /\ [SubNext]_subVars => SubInv'
<1> SUFFICES ASSUME SubInv, [SubNext]_subVars PROVE SubInv'
  OBVIOUS
<1>1. CASE UNCHANGED subVars
  BY <1>1 DEF subVars, SubInv, SubTypeOK, Values, Settled, CopiesHaveWhatIsSettled,
              WhatIsSettledStays
<1> QED
  BY <1>1, CallSubAgentsInv, SubAgentUsesToolInv, SubAgentRepliesInv, SubAgentFailsInv DEF SubNext

(* What a sub-agent wrote with no other at work is what the state of the    *)
(* workflow holds from then on, whatever rounds of others, side by side,    *)
(* with failures, time-outs and further attempts, come before and after it, *)
(* until it replies again: nobody who was called later can undo it.         *)
THEOREM UndisturbedWritesStay == SubSpec => []SubAgentsAreCalls
<1>1. SubSpec => []SubInv
  BY SubInitInv, SubNextInv, PTL DEF SubSpec
<1>2. SubInv => SubAgentsAreCalls
  BY DEF SubInv, WhatIsSettledStays, Settled, SubAgentsAreCalls
<1> QED
  BY <1>1, <1>2, PTL

-----------------------------------------------------------------------------
(* Notes that are one, and found.                                          *)

LEMMA SelectedSelects ==
    ASSUME NEW T, NEW s \in Seq(T), NEW S
    PROVE  \E kept : Selects(kept, s, S, T) /\ Selected(s, S) = kept[Len(s)]
<1> DEFINE kept[i \in 0..Len(s)] ==
             IF i = 0 THEN <<>>
             ELSE IF s[i] \in S THEN Append(kept[i - 1], s[i]) ELSE kept[i - 1]
<1>1. PICK g : Selecting(g, s, S)
  BY SelectingExists
<1>2. kept = [i \in 0..Len(s) |->
                IF i = 0 THEN <<>>
                ELSE IF s[i] \in S THEN Append(kept[i - 1], s[i]) ELSE kept[i - 1]]
  BY <1>1 DEF Selecting
<1>3. Selected(s, S) = kept[Len(s)]
  BY DEF Selected
<1> HIDE DEF kept
<1>4. Selecting(kept, s, S)
  BY <1>2 DEF Selecting
<1>5. Selects(kept, s, S, T)
  BY <1>4, SelectingSelects
<1> QED
  BY <1>3, <1>5

Distinct(s) == \A i, j \in 1..Len(s) : s[i] = s[j] => i = j

(* t has what the first i of s have in S, and each once if s does.          *)
PickedFrom(t, s, S, i) ==
  /\ Len(t) <= i
  /\ \A p \in 1..Len(t) : \E q \in 1..i : s[q] \in S /\ t[p] = s[q]
  /\ \A q \in 1..i : s[q] \in S => \E p \in 1..Len(t) : t[p] = s[q]
  /\ Distinct(s) => Distinct(t)

LEMMA OneMoreIsPicked ==
    ASSUME NEW T, NEW s \in Seq(T), NEW S, NEW V, NEW before \in Seq(V), NEW after \in Seq(V),
           NEW i \in Nat, i + 1 \in 1..Len(s), PickedFrom(before, s, S, i),
           s[i + 1] \in S => Longer(after, before, s[i + 1]),
           s[i + 1] \notin S => after = before
    PROVE  PickedFrom(after, s, S, i + 1)
<1>1. PICK x : x = s[i + 1]
  OBVIOUS
<1>2. /\ Len(before) <= i
      /\ \A p \in 1..Len(before) : \E q \in 1..i : s[q] \in S /\ before[p] = s[q]
      /\ \A q \in 1..i : s[q] \in S => \E p \in 1..Len(before) : before[p] = s[q]
  BY DEF PickedFrom
<1>3. Distinct(s) => Distinct(before)
  BY DEF PickedFrom
<1>4. \A q \in 1..(i + 1) : q = i + 1 \/ q \in 1..i
  OBVIOUS
<1>5. CASE x \notin S
  <2>1. after = before
    BY <1>1, <1>5
  <2>2. Len(after) <= i + 1
    BY <1>2, <2>1
  <2>3. \A p \in 1..Len(after) : \E q \in 1..(i + 1) : s[q] \in S /\ after[p] = s[q]
    BY <1>2, <2>1
  <2>4. \A q \in 1..(i + 1) : s[q] \in S => \E p \in 1..Len(after) : after[p] = s[q]
    BY <1>1, <1>2, <1>4, <1>5, <2>1
  <2> QED
    BY <1>3, <2>1, <2>2, <2>3, <2>4 DEF PickedFrom
<1>6. CASE x \in S
  <2>1. PICK m \in Nat : m = Len(before)
    OBVIOUS
  <2>2. /\ Len(after) = m + 1 /\ after[m + 1] = x
        /\ \A p \in 1..m : after[p] = before[p]
    BY <1>1, <1>6, <2>1 DEF Longer
  <2>3. Len(after) <= i + 1
    BY <1>2, <2>1, <2>2
  <2>4. \A p \in 1..(m + 1) : p = m + 1 \/ p \in 1..m
    OBVIOUS
  <2>5. ASSUME NEW p \in 1..(m + 1) PROVE \E q \in 1..(i + 1) : s[q] \in S /\ after[p] = s[q]
    <3>1. CASE p = m + 1
      BY <1>1, <1>6, <2>2, <3>1
    <3>2. CASE p \in 1..m
      <4>1. PICK q \in 1..i : s[q] \in S /\ before[p] = s[q]
        BY <1>2, <2>1, <3>2
      <4>2. q \in 1..(i + 1)
        OBVIOUS
      <4> QED
        BY <2>2, <3>2, <4>1, <4>2
    <3> QED
      BY <2>4, <3>1, <3>2
  <2>6. ASSUME NEW q \in 1..(i + 1), s[q] \in S PROVE \E p \in 1..(m + 1) : after[p] = s[q]
    <3>1. CASE q = i + 1
      BY <1>1, <2>2, <3>1
    <3>2. CASE q \in 1..i
      <4>1. PICK p \in 1..m : before[p] = s[q]
        BY <1>2, <2>1, <2>6, <3>2
      <4>2. p \in 1..(m + 1)
        OBVIOUS
      <4> QED
        BY <2>2, <4>1, <4>2
    <3> QED
      BY <1>4, <3>1, <3>2
  <2>7. ASSUME Distinct(s) PROVE Distinct(after)
    <3>1. \A p \in 1..m : before[p] # x
      <4> SUFFICES ASSUME NEW p \in 1..m, before[p] = x PROVE FALSE
        OBVIOUS
      <4>1. PICK q \in 1..i : before[p] = s[q]
        BY <1>2, <2>1
      <4>2. q \in 1..Len(s) /\ q # i + 1
        OBVIOUS
      <4> QED
        BY <1>1, <2>7, <4>1, <4>2 DEF Distinct
    <3>2. \A p, r \in 1..m : before[p] = before[r] => p = r
      BY <1>3, <2>1, <2>7 DEF Distinct
    <3>3. ASSUME NEW p \in 1..(m + 1), NEW r \in 1..(m + 1), after[p] = after[r] PROVE p = r
      <4>1. CASE p \in 1..m /\ r \in 1..m
        BY <2>2, <3>2, <3>3, <4>1
      <4>2. CASE p = m + 1 /\ r = m + 1
        BY <4>2
      <4>3. CASE p \in 1..m /\ r = m + 1
        BY <2>2, <3>1, <3>3, <4>3
      <4>4. CASE p = m + 1 /\ r \in 1..m
        BY <2>2, <3>1, <3>3, <4>4
      <4> QED
        BY <2>4, <4>1, <4>2, <4>3, <4>4
    <3> QED
      BY <2>2, <3>3 DEF Distinct
  <2> QED
    BY <2>2, <2>3, <2>5, <2>6, <2>7 DEF PickedFrom
<1> QED
  BY <1>5, <1>6

LEMMA SelectionIsPicked ==
    ASSUME NEW T, NEW s \in Seq(T), NEW S
    PROVE  Selected(s, S) \in Seq(T \cap S) /\ PickedFrom(Selected(s, S), s, S, Len(s))
<1>1. PICK n \in Nat : n = Len(s)
  OBVIOUS
<1>2. PICK kept : Selects(kept, s, S, T) /\ Selected(s, S) = kept[n]
  BY <1>1, SelectedSelects
<1>3. PICK V : V = T \cap S
  OBVIOUS
<1>4. /\ kept \in [0..n -> Seq(V)] /\ kept[0] = <<>>
      /\ \A i \in 1..n : /\ s[i] \in S => Longer(kept[i], kept[i - 1], s[i])
                         /\ s[i] \notin S => kept[i] = kept[i - 1]
  BY <1>1, <1>2, <1>3 DEF Selects
<1>5. PICK A : A = {i \in Nat : i <= n => PickedFrom(kept[i], s, S, i)}
  OBVIOUS
<1>6. 0 \in A
  <2>1. PickedFrom(<<>>, s, S, 0)
    BY DEF PickedFrom, Distinct
  <2> QED
    BY <1>4, <1>5, <2>1
<1>7. ASSUME NEW i \in A PROVE i + 1 \in A
  <2> SUFFICES ASSUME i + 1 <= n PROVE PickedFrom(kept[i + 1], s, S, i + 1)
    BY <1>5
  <2>1. /\ i \in Nat /\ i + 1 \in 1..n /\ (i + 1) - 1 = i
        /\ PickedFrom(kept[i], s, S, i)
    BY <1>5
  <2>2. PICK before \in Seq(V), after \in Seq(V) : before = kept[i] /\ after = kept[i + 1]
    BY <1>4, <2>1
  <2>3. /\ s[i + 1] \in S => Longer(after, before, s[i + 1])
        /\ s[i + 1] \notin S => after = before
    BY <1>4, <2>1, <2>2
  <2> QED
    BY <1>1, <2>1, <2>2, <2>3, OneMoreIsPicked
<1>8. A = Nat
  <2>1. A \in SUBSET Nat
    BY <1>5
  <2> QED
    BY <1>6, <1>7, <2>1, NumbersByInduction
<1> QED
  BY <1>1, <1>2, <1>3, <1>4, <1>5, <1>8

(* What is selected of a beginning is the beginning of what is selected.    *)
Extends(after, before, more) ==
  /\ Len(before) <= Len(after) /\ Len(after) <= Len(before) + more
  /\ \A p \in 1..Len(before) : after[p] = before[p]

LEMMA KeptExtends ==
    ASSUME NEW T, NEW s \in Seq(T), NEW S, NEW kept, Selects(kept, s, S, T),
           NEW m \in Nat, m <= Len(s)
    PROVE  Extends(kept[Len(s)], kept[m], Len(s) - m)
<1>1. PICK n \in Nat : n = Len(s)
  OBVIOUS
<1>2. PICK V : V = T \cap S
  OBVIOUS
<1>3. /\ kept \in [0..n -> Seq(V)]
      /\ \A i \in 1..n : /\ s[i] \in S => Longer(kept[i], kept[i - 1], s[i])
                         /\ s[i] \notin S => kept[i] = kept[i - 1]
  BY <1>1, <1>2 DEF Selects
<1>4. PICK before \in Seq(V) : before = kept[m]
  BY <1>1, <1>3
<1>5. PICK A : A = {i \in Nat : m + i <= n => Extends(kept[m + i], before, i)}
  OBVIOUS
<1>6. 0 \in A
  <2>1. m + 0 = m
    OBVIOUS
  <2>2. Extends(before, before, 0)
    BY DEF Extends
  <2> QED
    BY <1>4, <1>5, <2>1, <2>2
<1>7. ASSUME NEW i \in A PROVE i + 1 \in A
  <2> SUFFICES ASSUME m + (i + 1) <= n PROVE Extends(kept[m + (i + 1)], before, i + 1)
    BY <1>5
  <2>1. i \in Nat /\ m + i <= n /\ Extends(kept[m + i], before, i)
    BY <1>5
  <2>2. PICK j \in 1..n : j = m + (i + 1) /\ j - 1 = m + i
    BY <2>1
  <2>3. PICK middle \in Seq(V), after \in Seq(V) : middle = kept[m + i] /\ after = kept[j]
    BY <1>3, <2>1, <2>2
  <2>4. middle = kept[j - 1]
    BY <2>2, <2>3
  <2>5. CASE s[j] \notin S
    <3>1. after = middle
      BY <1>3, <2>3, <2>4, <2>5
    <3> QED
      BY <2>1, <2>2, <2>3, <3>1 DEF Extends
  <2>6. CASE s[j] \in S
    <3>1. Longer(after, middle, s[j])
      BY <1>3, <2>3, <2>4, <2>6
    <3>2. Len(after) = Len(middle) + 1 /\ \A p \in 1..Len(middle) : after[p] = middle[p]
      BY <3>1 DEF Longer
    <3>3. PICK a \in Nat, b \in Nat, c \in Nat : a = Len(before) /\ b = Len(middle) /\ c = Len(after)
      OBVIOUS
    <3>4. a <= b /\ b <= a + i /\ c = b + 1 /\ \A p \in 1..a : middle[p] = before[p]
      BY <2>1, <2>3, <3>2, <3>3 DEF Extends
    <3>5. \A p \in 1..a : p \in 1..b /\ after[p] = before[p]
      BY <3>2, <3>3, <3>4
    <3>6. a <= c /\ c <= a + (i + 1)
      BY <2>1, <3>4
    <3>7. Extends(after, before, i + 1)
      BY <3>3, <3>5, <3>6 DEF Extends
    <3> QED
      BY <2>2, <2>3, <3>7
  <2> QED
    BY <2>5, <2>6
<1>8. A = Nat
  <2>1. A \in SUBSET Nat
    BY <1>5
  <2> QED
    BY <1>6, <1>7, <2>1, NumbersByInduction
<1>9. PICK rest \in Nat : rest = n - m /\ m + rest = n
  <2>1. n - m \in Nat /\ m + (n - m) = n
    BY <1>1
  <2> QED
    BY <2>1
<1>10. rest \in A
  BY <1>8
<1>11. Extends(kept[n], before, rest)
  BY <1>5, <1>9, <1>10
<1> QED
  BY <1>1, <1>4, <1>9, <1>11

LEMMA BeginningsAreKept ==
    ASSUME NEW T, NEW s \in Seq(T), NEW S, NEW kept, Selects(kept, s, S, T),
           NEW m \in Nat, m <= Len(s)
    PROVE  Selected(SubSeq(s, 1, m), S) = kept[m]
<1>1. PICK n \in Nat : n = Len(s)
  OBVIOUS
<1>2. PICK V : V = T \cap S
  OBVIOUS
<1>3. PICK first \in Seq(T) : /\ first = SubSeq(s, 1, m) /\ Len(first) = m
                             /\ \A i \in 1..m : first[i] = s[i]
  <2>1. PICK first : first = SubSeq(s, 1, m)
    OBVIOUS
  <2>2. first \in Seq(T) /\ Len(first) = m
    BY <2>1
  <2>3. \A i \in 1..m : first[i] = s[i]
    BY <2>1
  <2> QED
    BY <2>1, <2>2, <2>3
<1>4. PICK held : Selects(held, first, S, T) /\ Selected(first, S) = held[m]
  <2>1. \E held : Selects(held, first, S, T) /\ Selected(first, S) = held[Len(first)]
    BY SelectedSelects
  <2> QED
    BY <1>3, <2>1
<1>5. /\ kept \in [0..n -> Seq(V)] /\ kept[0] = <<>>
      /\ \A i \in 1..n : /\ s[i] \in S => Longer(kept[i], kept[i - 1], s[i])
                         /\ s[i] \notin S => kept[i] = kept[i - 1]
  BY <1>1, <1>2 DEF Selects
<1>6. /\ held \in [0..m -> Seq(V)] /\ held[0] = <<>>
      /\ \A i \in 1..m : /\ first[i] \in S => Longer(held[i], held[i - 1], first[i])
                         /\ first[i] \notin S => held[i] = held[i - 1]
  BY <1>2, <1>3, <1>4 DEF Selects
<1>7. PICK A : A = {i \in Nat : i <= m => held[i] = kept[i]}
  OBVIOUS
<1>8. ASSUME NEW i \in A PROVE i + 1 \in A
  <2> SUFFICES ASSUME i + 1 <= m PROVE held[i + 1] = kept[i + 1]
    BY <1>7
  <2>1. i \in Nat /\ i + 1 \in 1..m /\ i + 1 \in 1..n /\ (i + 1) - 1 = i /\ held[i] = kept[i]
    BY <1>1, <1>7
  <2>2. PICK x : x = s[i + 1] /\ x = first[i + 1]
    BY <1>3, <2>1
  <2>3. CASE x \in S
    <3>1. Longer(kept[i + 1], kept[i], x) /\ Longer(held[i + 1], held[i], x)
      BY <1>5, <1>6, <2>1, <2>2, <2>3
    <3> QED
      BY <2>1, <3>1 DEF Longer
  <2>4. CASE x \notin S
    BY <1>5, <1>6, <2>1, <2>2, <2>4
  <2> QED
    BY <2>3, <2>4
<1>9. A = Nat
  <2>1. A \in SUBSET Nat /\ 0 \in A
    BY <1>5, <1>6, <1>7
  <2> QED
    BY <1>8, <2>1, NumbersByInduction
<1> QED
  BY <1>3, <1>4, <1>7, <1>9

(* As long as k or fewer are missing from S, the first 2k hold the k first  *)
(* of what S has.                                                           *)
LEMMA TwiceAsManyAreEnough ==
    ASSUME NEW T, NEW all \in Seq(T), NEW S, NEW k \in Nat,
           Len(all) - Len(Selected(all, S)) <= k
    PROVE  FirstN(Selected(FirstN(all, 2 * k), S), k) = FirstN(Selected(all, S), k)
<1>1. PICK n \in Nat : n = Len(all)
  OBVIOUS
<1>2. PICK kept : Selects(kept, all, S, T) /\ Selected(all, S) = kept[n]
  BY <1>1, SelectedSelects
<1>3. PICK V : V = T \cap S
  OBVIOUS
<1>4. kept \in [0..n -> Seq(V)]
  BY <1>1, <1>2, <1>3 DEF Selects
<1>5. PICK m \in Nat : m = (IF 2 * k < n THEN 2 * k ELSE n) /\ m <= n
  BY <1>1
<1>6. FirstN(all, 2 * k) = SubSeq(all, 1, m)
  BY <1>1, <1>5 DEF FirstN
<1>7. Selected(FirstN(all, 2 * k), S) = kept[m]
  <2>1. Selects(kept, all, S, T) /\ m <= Len(all)
    BY <1>1, <1>2, <1>5
  <2>2. Selected(SubSeq(all, 1, m), S) = kept[m]
    BY <2>1, BeginningsAreKept
  <2> QED
    BY <1>6, <2>2
<1>8. PICK near \in Seq(V), live \in Seq(V) : near = kept[m] /\ live = kept[n]
  BY <1>4, <1>5
<1>9. Extends(live, near, n - m)
  BY <1>1, <1>2, <1>5, <1>8, KeptExtends
<1>10. n - Len(live) <= k
  BY <1>1, <1>2, <1>8
<1>11. CASE n <= 2 * k
  BY <1>2, <1>5, <1>7, <1>11
<1>12. CASE 2 * k < n
  <2>1. PICK l \in Nat, r \in Nat : l = Len(live) /\ r = Len(near)
    OBVIOUS
  <2>2. /\ r <= l /\ l <= r + (n - m) /\ m = 2 * k
        /\ \A p \in 1..r : live[p] = near[p]
    BY <1>5, <1>9, <1>12, <2>1 DEF Extends
  <2>3. k <= r /\ k <= l
    BY <1>10, <2>1, <2>2
  <2>4. FirstN(near, k) = SubSeq(near, 1, k) /\ FirstN(live, k) = SubSeq(live, 1, k)
    BY <2>1, <2>3, SMTT(30) DEF FirstN
  <2>5. SubSeq(near, 1, k) = SubSeq(live, 1, k)
    <3>1. \A p \in 1..k : near[p] = live[p]
      BY <2>2, <2>3
    <3> QED
      BY <2>1, <2>3, <3>1
  <2> QED
    BY <1>2, <1>7, <1>8, <2>4, <2>5
<1> QED
  BY <1>1, <1>11, <1>12

(* The first that is found, if no more than one is missing from S: it comes *)
(* no later than any other that S has.                                      *)
LEMMA TheFirstIsFound ==
    ASSUME NEW T, NEW all \in Seq(T), NEW S, NEW q \in 1..Len(all), all[q] \in S,
           \A i, j \in 1..Len(all) : all[i] \notin S /\ all[j] \notin S => i = j
    PROVE  LET near == FirstN(Selected(FirstN(all, 2 * 1), S), 1)
           IN near # <<>> /\ \E j \in 1..q : near[1] = all[j]
<1>1. PICK n \in Nat : n = Len(all) /\ 1 <= n
  OBVIOUS
<1>2. PICK m \in 1..n : m = IF 2 < n THEN 2 ELSE n
  BY <1>1
<1>3. PICK first \in Seq(T) : /\ first = FirstN(all, 2 * 1) /\ Len(first) = m
                             /\ \A i \in 1..m : first[i] = all[i]
  <2>1. PICK first : first = SubSeq(all, 1, m)
    OBVIOUS
  <2>2. first \in Seq(T) /\ Len(first) = m /\ \A i \in 1..m : first[i] = all[i]
    BY <1>1, <2>1
  <2>3. FirstN(all, 2 * 1) = first
    BY <1>1, <1>2, <2>1 DEF FirstN
  <2> QED
    BY <2>2, <2>3
<1>4. PICK V : V = T \cap S
  OBVIOUS
<1>5. PICK kept : Selects(kept, first, S, T) /\ Selected(first, S) = kept[m]
  <2>1. \E kept : Selects(kept, first, S, T) /\ Selected(first, S) = kept[Len(first)]
    BY SelectedSelects
  <2> QED
    BY <1>3, <2>1
<1>6. /\ kept \in [0..m -> Seq(V)] /\ kept[0] = <<>>
      /\ \A i \in 1..m : /\ all[i] \in S => Longer(kept[i], kept[i - 1], all[i])
                         /\ all[i] \notin S => kept[i] = kept[i - 1]
  BY <1>3, <1>4, <1>5 DEF Selects
<1>7. PICK j \in 1..m : /\ j <= q /\ all[j] \in S
                        /\ kept[m] # <<>> /\ kept[m][1] = all[j]
  <2>1. 1 \in 1..m /\ 1 - 1 = 0
    OBVIOUS
  <2>2. CASE all[1] \in S
    <3>1. Longer(kept[1], <<>>, all[1])
      BY <1>6, <2>1, <2>2
    <3>2. Len(kept[1]) = 1 /\ kept[1][1] = all[1]
      BY <3>1 DEF Longer
    <3>3. kept[m] # <<>> /\ kept[m][1] = all[1]
      <4>1. CASE m = 1
        BY <3>2, <4>1
      <4>2. CASE m = 2
        <5>1. 2 \in 1..m /\ 2 - 1 = 1
          BY <4>2
        <5>2. kept[2] = kept[1] \/ Longer(kept[2], kept[1], all[2])
          BY <1>6, <5>1
        <5>3. Len(kept[2]) >= 1 /\ kept[2][1] = all[1]
          BY <3>2, <5>2 DEF Longer
        <5> QED
          BY <4>2, <5>3
      <4> QED
        BY <1>2, <4>1, <4>2
    <3> QED
      BY <2>1, <2>2, <3>3
  <2>3. CASE all[1] \notin S
    <3>1. 2 <= q /\ 2 <= n /\ 2 \in 1..m /\ m = 2 /\ 2 - 1 = 1
      <4>1. q # 1
        BY <2>3
      <4> QED
        BY <1>1, <1>2, <4>1
    <3>2. all[2] \in S
      BY <1>1, <2>3, <3>1
    <3>3. kept[1] = <<>>
      BY <1>6, <2>1, <2>3
    <3>4. Longer(kept[2], <<>>, all[2])
      BY <1>6, <3>1, <3>2, <3>3
    <3>5. Len(kept[2]) = 1 /\ kept[2][1] = all[2]
      BY <3>4 DEF Longer
    <3> QED
      BY <3>1, <3>2, <3>5
  <2> QED
    BY <2>2, <2>3
<1>8. PICK found \in Seq(V) : found = kept[m]
  BY <1>6
<1>9. PICK near : near = FirstN(found, 1)
  OBVIOUS
<1>10. Len(found) >= 1 /\ found[1] = all[j]
  BY <1>7, <1>8
<1>11. near = SubSeq(found, 1, 1)
  <2>1. PICK l \in Nat : l = Len(found) /\ l >= 1
    BY <1>10
  <2>2. (IF 1 < l THEN 1 ELSE l) = 1
    BY <2>1
  <2> QED
    BY <1>9, <2>1, <2>2 DEF FirstN
<1>12. near # <<>> /\ near[1] = all[j]
  BY <1>10, <1>11
<1> QED
  BY <1>3, <1>5, <1>7, <1>8, <1>9, <1>12

LEMMA TwoInARow ==
    ASSUME NEW T, NEW s \in Seq(T), NEW t \in Seq(T)
    PROVE  /\ s \o t \in Seq(T) /\ Len(s \o t) = Len(s) + Len(t)
           /\ \A i \in 1..Len(s) : (s \o t)[i] = s[i]
           /\ \A i \in 1..Len(t) : (s \o t)[Len(s) + i] = t[i]
<1>1. s \o t \in Seq(T) /\ Len(s \o t) = Len(s) + Len(t)
  OBVIOUS
<1>2. \A i \in 1..Len(s) : (s \o t)[i] = s[i]
  OBVIOUS
<1>3. \A i \in 1..Len(t) : (s \o t)[Len(s) + i] = t[i]
  OBVIOUS
<1> QED
  BY <1>1, <1>2, <1>3

ARow(row, s, t, u) ==
  /\ Len(row) = Len(s) + Len(t) + Len(u)
  /\ \A i \in 1..Len(s) : row[i] = s[i]
  /\ \A i \in 1..Len(t) : row[Len(s) + i] = t[i]
  /\ \A i \in 1..Len(u) : row[Len(s) + Len(t) + i] = u[i]

LEMMA ThreeInARow ==
    ASSUME NEW T, NEW s \in Seq(T), NEW t \in Seq(T), NEW u \in Seq(T)
    PROVE  s \o t \o u \in Seq(T) /\ ARow(s \o t \o u, s, t, u)
<1>1. PICK st : st = s \o t
  OBVIOUS
<1>2. /\ st \in Seq(T) /\ Len(st) = Len(s) + Len(t)
      /\ \A i \in 1..Len(s) : st[i] = s[i]
      /\ \A i \in 1..Len(t) : st[Len(s) + i] = t[i]
  BY <1>1, TwoInARow
<1>3. PICK row : row = st \o u
  OBVIOUS
<1>4. /\ row \in Seq(T) /\ Len(row) = Len(st) + Len(u)
      /\ \A i \in 1..Len(st) : row[i] = st[i]
      /\ \A i \in 1..Len(u) : row[Len(st) + i] = u[i]
  <2>1. st \in Seq(T) /\ u \in Seq(T)
    BY <1>2
  <2>2. /\ st \o u \in Seq(T) /\ Len(st \o u) = Len(st) + Len(u)
        /\ \A i \in 1..Len(st) : (st \o u)[i] = st[i]
        /\ \A i \in 1..Len(u) : (st \o u)[Len(st) + i] = u[i]
    BY <2>1, TwoInARow
  <2> QED
    BY <1>3, <2>2
<1>5. PICK a \in Nat, b \in Nat, c \in Nat : a = Len(s) /\ b = Len(t) /\ c = Len(u)
  OBVIOUS
<1>6. /\ Len(st) = a + b
      /\ \A i \in 1..a : st[i] = s[i]
      /\ \A i \in 1..b : st[a + i] = t[i]
  BY <1>2, <1>5
<1>7. /\ Len(row) = a + b + c
      /\ \A i \in 1..(a + b) : row[i] = st[i]
      /\ \A i \in 1..c : row[a + b + i] = u[i]
  BY <1>4, <1>5, <1>6
<1>8. \A i \in 1..a : row[i] = s[i]
  BY <1>6, <1>7
<1>9. \A i \in 1..b : row[a + i] = t[i]
  BY <1>6, <1>7
<1>10. ARow(row, s, t, u)
  BY <1>5, <1>7, <1>8, <1>9 DEF ARow
<1> QED
  BY <1>1, <1>3, <1>4, <1>10

(* What is kept of the notes: their ids differ, an agent's remembers leave  *)
(* one live note of a kind, and while a remember is under way the note of   *)
(* its kind, if there is one, is the one that it overwrites.                *)
Note == [ns : Seq(STRING), key : Int, fact : Facts, expires : Nat]
Turns == [at : {"idle", "putting"}, fact : Facts, key : Int, ttl : Nat]

MemoryTypeOK ==
  /\ notes \in Seq(Note) /\ now \in Nat /\ written \in Nat
  /\ turn \in [Agents -> Turns]

NotesDiffer == Distinct(notes) /\ \A n, m \in Range(notes) : IdOf(n) = IdOf(m) => n = m

Kindred(n, ns, fact) == n.ns = ns /\ n.key > 0 /\ ~IsExpired(n) /\ KindOf[n.fact] = KindOf[fact]

KindsAreOne ==
  ~crowded => \A n, m \in Range(notes) :
                m.key > 0 /\ ~IsExpired(m) /\ Kindred(n, m.ns, m.fact) => n = m

Writes(a) == turn[a].at = "putting" /\ turn[a].key > 0

OneRemembers == ~crowded => \A a, b \in Agents : Writes(a) /\ Writes(b) => a = b

TheKindIsKnown ==
  ~crowded => \A a \in Agents, n \in Range(notes) :
                Writes(a) /\ Kindred(n, NamespaceOf[a], turn[a].fact) => n.key = turn[a].key

MemoryInv == MemoryTypeOK /\ NotesDiffer /\ KindsAreOne /\ OneRemembers /\ TheKindIsKnown

LEMMA MemoryParts ==
    ASSUME MemoryInv
    PROVE  /\ notes \in Seq(Note) /\ now \in Nat /\ written \in Nat /\ turn \in [Agents -> Turns]
           /\ NotesDiffer /\ KindsAreOne /\ OneRemembers /\ TheKindIsKnown
  BY DEF MemoryInv, MemoryTypeOK

LEMMA SimilarIsOfAKind ==
    ASSUME NEW f, NEW g
    PROVE  Similar(f, g) <=> KindOf[f] = KindOf[g]
  BY DEF Similar, Closeness

LEMMA MembersOfNotes ==
    ASSUME notes \in Seq(Note)
    PROVE  /\ Range(notes) \subseteq Note
           /\ \A n \in Range(notes) : \E i \in 1..Len(notes) : notes[i] = n
           /\ \A i \in 1..Len(notes) : notes[i] \in Range(notes)
  BY DEF Range

(* Selecting leaves out, and nothing else.                                  *)
LEMMA SelectedNotes ==
    ASSUME notes \in Seq(Note), NEW S
    PROVE  /\ Selected(notes, S) \in Seq(Note)
           /\ Range(Selected(notes, S)) = Range(notes) \cap S
           /\ Distinct(notes) => Distinct(Selected(notes, S))
<1>1. PICK T : T = Note
  OBVIOUS
<1>2. PICK s \in Seq(T) : s = notes
  BY <1>1
<1>3. PICK t : t = Selected(s, S)
  OBVIOUS
<1>4. t \in Seq(T \cap S) /\ PickedFrom(t, s, S, Len(s))
  BY <1>3, SelectionIsPicked
<1>5. t \in Seq(T)
  BY <1>4
<1>6. Range(t) = Range(s) \cap S
  <2>1. Range(t) = {t[p] : p \in 1..Len(t)} /\ Range(s) = {s[q] : q \in 1..Len(s)}
    BY <1>5 DEF Range
  <2>2. /\ \A p \in 1..Len(t) : \E q \in 1..Len(s) : s[q] \in S /\ t[p] = s[q]
        /\ \A q \in 1..Len(s) : s[q] \in S => \E p \in 1..Len(t) : t[p] = s[q]
    BY <1>4 DEF PickedFrom
  <2>3. ASSUME NEW n \in Range(t) PROVE n \in Range(s) /\ n \in S
    BY <2>1, <2>2
  <2>4. ASSUME NEW n \in Range(s), n \in S PROVE n \in Range(t)
    <3>1. PICK q \in 1..Len(s) : n = s[q]
      BY <2>1
    <3>2. PICK p \in 1..Len(t) : t[p] = n
      BY <2>2, <2>4, <3>1
    <3> QED
      BY <2>1, <3>2
  <2> QED
    BY <2>3, <2>4
<1>7. Distinct(s) => Distinct(t)
  BY <1>4 DEF PickedFrom
<1> QED
  BY <1>1, <1>2, <1>3, <1>5, <1>6, <1>7

Holding(ns, query, c) == {n \in Range(notes) : Under(ns, n) /\ Closeness(n.fact, query) = c}

(* A row of notes in the order of their closeness to a query.               *)
RanksNotes(row, ns, query) ==
  /\ row \in Seq(Note)
  /\ \A p \in 1..Len(row) : row[p] \in Range(notes) /\ Under(ns, row[p])
  /\ \A n \in Range(notes) : Under(ns, n) => \E p \in 1..Len(row) : row[p] = n
  /\ Distinct(notes) => Distinct(row)
  /\ \A p, r \in 1..Len(row) : p <= r => Closeness(row[r].fact, query) <= Closeness(row[p].fact, query)

LEMMA OneCloseness ==
    ASSUME notes \in Seq(Note), NEW ns, NEW query, NEW c
    PROVE  \E held \in Seq(Note) :
             /\ held = Selected(notes, Holding(ns, query, c))
             /\ \A i \in 1..Len(held) : held[i] \in Holding(ns, query, c)
             /\ \A n \in Holding(ns, query, c) : \E i \in 1..Len(held) : held[i] = n
             /\ Distinct(notes) => Distinct(held)
<1>1. PICK S : S = Holding(ns, query, c)
  OBVIOUS
<1>2. S \subseteq Range(notes)
  BY <1>1 DEF Holding
<1>3. PICK held : held = Selected(notes, S)
  OBVIOUS
<1>4. held \in Seq(Note) /\ Range(held) = S /\ (Distinct(notes) => Distinct(held))
  BY <1>2, <1>3, SelectedNotes
<1>5. /\ \A i \in 1..Len(held) : held[i] \in S
      /\ \A n \in S : \E i \in 1..Len(held) : held[i] = n
  <2>1. PICK T : T = Note
    OBVIOUS
  <2>2. held \in Seq(T)
    BY <1>4, <2>1
  <2> QED
    BY <1>4, <2>2 DEF Range
<1> QED
  BY <1>1, <1>3, <1>4, <1>5

LEMMA RankedNotes ==
    ASSUME notes \in Seq(Note), NEW ns, NEW query
    PROVE  RanksNotes(Ranked(ns, query), ns, query)
<1>1. PICK A \in Seq(Note) :
        /\ A = Selected(notes, Holding(ns, query, 3))
        /\ \A i \in 1..Len(A) : A[i] \in Holding(ns, query, 3)
        /\ \A n \in Holding(ns, query, 3) : \E i \in 1..Len(A) : A[i] = n
        /\ Distinct(notes) => Distinct(A)
  BY OneCloseness
<1>2. PICK B \in Seq(Note) :
        /\ B = Selected(notes, Holding(ns, query, 2))
        /\ \A i \in 1..Len(B) : B[i] \in Holding(ns, query, 2)
        /\ \A n \in Holding(ns, query, 2) : \E i \in 1..Len(B) : B[i] = n
        /\ Distinct(notes) => Distinct(B)
  BY OneCloseness
<1>3. PICK C \in Seq(Note) :
        /\ C = Selected(notes, Holding(ns, query, 0))
        /\ \A i \in 1..Len(C) : C[i] \in Holding(ns, query, 0)
        /\ \A n \in Holding(ns, query, 0) : \E i \in 1..Len(C) : C[i] = n
        /\ Distinct(notes) => Distinct(C)
  BY OneCloseness
<1>4. PICK T : T = Note
  OBVIOUS
<1>5. PICK row \in Seq(T) : row = Ranked(ns, query) /\ ARow(row, A, B, C)
  <2>1. Ranked(ns, query) = A \o B \o C
    BY <1>1, <1>2, <1>3 DEF Ranked, Holding
  <2>2. A \in Seq(T) /\ B \in Seq(T) /\ C \in Seq(T)
    BY <1>4
  <2>3. A \o B \o C \in Seq(T) /\ ARow(A \o B \o C, A, B, C)
    BY <2>2, ThreeInARow
  <2> QED
    BY <2>1, <2>3
<1>6. PICK a \in Nat, b \in Nat, c \in Nat : a = Len(A) /\ b = Len(B) /\ c = Len(C)
  OBVIOUS
<1>7. /\ Len(row) = a + b + c
      /\ \A i \in 1..a : row[i] = A[i]
      /\ \A i \in 1..b : row[a + i] = B[i]
      /\ \A i \in 1..c : row[a + b + i] = C[i]
  BY <1>5, <1>6 DEF ARow
<1> DEFINE At(p, c_) == row[p] \in Range(notes) /\ Under(ns, row[p]) /\ Closeness(row[p].fact, query) = c_
<1>8. ASSUME NEW p \in 1..Len(row)
      PROVE  \/ p \in 1..a /\ row[p] = A[p] /\ At(p, 3)
             \/ p - a \in 1..b /\ row[p] = B[p - a] /\ At(p, 2)
             \/ p - (a + b) \in 1..c /\ row[p] = C[p - (a + b)] /\ At(p, 0)
  <2>1. CASE p <= a
    <3>1. p \in 1..a /\ row[p] = A[p]
      BY <1>7, <2>1
    <3> QED
      BY <1>1, <1>6, <3>1 DEF Holding
  <2>2. CASE a < p /\ p <= a + b
    <3>1. PICK i \in 1..b : i = p - a /\ a + i = p
      BY <2>2
    <3>2. row[p] = B[i]
      BY <1>7, <3>1
    <3> QED
      BY <1>2, <1>6, <3>1, <3>2 DEF Holding
  <2>3. CASE a + b < p
    <3>1. PICK i \in 1..c : i = p - (a + b) /\ a + b + i = p
      BY <1>7, <2>3
    <3>2. row[p] = C[i]
      BY <1>7, <3>1
    <3> QED
      BY <1>3, <1>6, <3>1, <3>2 DEF Holding
  <2> QED
    BY <2>1, <2>2, <2>3
<1>9. \A p \in 1..Len(row) : row[p] \in Range(notes) /\ Under(ns, row[p])
  BY <1>8
<1>10. ASSUME NEW p \in 1..Len(row)
       PROVE  /\ Closeness(row[p].fact, query) = 3 <=> p <= a
              /\ Closeness(row[p].fact, query) = 2 <=> a < p /\ p <= a + b
              /\ Closeness(row[p].fact, query) = 0 <=> a + b < p
  BY <1>8
<1>11. ASSUME NEW p \in 1..Len(row), NEW r \in 1..Len(row), p <= r
       PROVE  Closeness(row[r].fact, query) <= Closeness(row[p].fact, query)
  <2>1. PICK x : x = Closeness(row[p].fact, query)
    OBVIOUS
  <2>2. PICK y : y = Closeness(row[r].fact, query)
    OBVIOUS
  <2>3. /\ x \in {3, 2, 0} /\ (x = 3 <=> p <= a) /\ (x = 0 <=> a + b < p)
        /\ y \in {3, 2, 0} /\ (y = 3 <=> r <= a) /\ (y = 0 <=> a + b < r)
    BY <1>8, <1>10, <2>1, <2>2
  <2>4. y <= x
    BY <1>11, <2>3
  <2> QED
    BY <2>1, <2>2, <2>4
<1>12. ASSUME NEW n \in Range(notes), Under(ns, n)
       PROVE  \E p \in 1..Len(row) : row[p] = n
  <2>1. Closeness(n.fact, query) \in {3, 2, 0}
    BY DEF Closeness
  <2>2. CASE n \in Holding(ns, query, 3)
    <3>1. PICK i \in 1..a : A[i] = n
      BY <1>1, <1>6, <2>2
    <3> QED
      BY <1>7, <3>1
  <2>3. CASE n \in Holding(ns, query, 2)
    <3>1. PICK i \in 1..b : B[i] = n
      BY <1>2, <1>6, <2>3
    <3>2. a + i \in 1..Len(row) /\ row[a + i] = n
      BY <1>7, <3>1
    <3> QED
      BY <3>2
  <2>4. CASE n \in Holding(ns, query, 0)
    <3>1. PICK i \in 1..c : C[i] = n
      BY <1>3, <1>6, <2>4
    <3>2. a + b + i \in 1..Len(row) /\ row[a + b + i] = n
      BY <1>7, <3>1
    <3> QED
      BY <3>2
  <2> QED
    BY <1>12, <2>1, <2>2, <2>3, <2>4 DEF Holding
<1>13. ASSUME Distinct(notes), NEW p \in 1..Len(row), NEW r \in 1..Len(row), row[p] = row[r]
       PROVE  p = r
  <2>1. PICK x : x = Closeness(row[p].fact, query) /\ x = Closeness(row[r].fact, query)
    BY <1>13
  <2>2. /\ x = 3 => p <= a /\ r <= a
        /\ x = 2 => a < p /\ p <= a + b /\ a < r /\ r <= a + b
        /\ x = 0 => a + b < p /\ a + b < r
    BY <1>10, <2>1
  <2>3. p \in Nat /\ r \in Nat /\ 1 <= p /\ 1 <= r /\ p <= a + b + c /\ r <= a + b + c
    BY <1>7
  <2>4. CASE x = 3
    <3>1. p \in 1..a /\ r \in 1..a
      BY <2>4, <2>2, <2>3
    <3>2. A[p] = A[r]
      BY <1>7, <1>13, <3>1
    <3> QED
      BY <1>1, <1>6, <1>13, <3>1, <3>2 DEF Distinct
  <2>5. CASE x = 2
    <3>1. PICK i \in 1..b, j \in 1..b : a + i = p /\ a + j = r
      <4>1. p - a \in 1..b /\ r - a \in 1..b /\ a + (p - a) = p /\ a + (r - a) = r
        BY <2>5, <2>2, <2>3
      <4> QED
        BY <4>1
    <3>2. B[i] = B[j]
      BY <1>7, <1>13, <3>1
    <3>3. i = j
      BY <1>2, <1>6, <1>13, <3>2 DEF Distinct
    <3> QED
      BY <3>1, <3>3
  <2>6. CASE x = 0
    <3>1. PICK i \in 1..c, j \in 1..c : a + b + i = p /\ a + b + j = r
      <4>1. /\ p - (a + b) \in 1..c /\ r - (a + b) \in 1..c
            /\ a + b + (p - (a + b)) = p /\ a + b + (r - (a + b)) = r
        BY <2>6, <2>2, <2>3
      <4> QED
        BY <4>1
    <3>2. C[i] = C[j]
      BY <1>7, <1>13, <3>1
    <3>3. i = j
      BY <1>3, <1>6, <1>13, <3>2 DEF Distinct
    <3> QED
      BY <3>1, <3>3
  <2> QED
    BY <1>8, <2>1, <2>4, <2>5, <2>6
<1>14. RanksNotes(row, ns, query)
  BY <1>4, <1>9, <1>11, <1>12, <1>13 DEF RanksNotes, Distinct
<1> QED
  BY <1>5, <1>14

LEMMA RecallsAreTheBest ==
    ASSUME notes \in Seq(Note)
    PROVE  RecallFindsTheBest
<1> SUFFICES ASSUME NEW ns \in {NamespaceOf[a] : a \in Agents}, NEW f \in Facts, NEW k \in RecallSizes,
                    Len(Ranked(ns, f)) - Len(Selected(Ranked(ns, f), Live)) <= k
             PROVE  Recall(ns, f, k) = FirstN(Selected(Ranked(ns, f), Live), k)
  BY DEF RecallFindsTheBest
<1>1. k \in Nat
  BY MemoryAssumption DEF MemoryAssumption
<1>2. PICK all : all = Ranked(ns, f)
  OBVIOUS
<1>3. PICK S : S = Live
  OBVIOUS
<1>4. all \in Seq(Note)
  BY <1>2, RankedNotes DEF RanksNotes
<1>5. Len(all) - Len(Selected(all, S)) <= k
  BY <1>2, <1>3
<1>6. FirstN(Selected(FirstN(all, 2 * k), S), k) = FirstN(Selected(all, S), k)
  BY <1>1, <1>4, <1>5, TwiceAsManyAreEnough
<1> QED
  BY <1>2, <1>3, <1>6 DEF Recall

LEMMA NoTwo ==
    ASSUME NEW E, IsFiniteSet(E), ~(2 <= Cardinality(E)), NEW i \in E, NEW j \in E
    PROVE  i = j
<1> SUFFICES ASSUME i # j PROVE FALSE
  OBVIOUS
<1>1. PICK one : one = {i}
  OBVIOUS
<1>2. IsFiniteSet(one) /\ Cardinality(one) = 1
  BY <1>1, FS_Singleton
<1>3. PICK two : two = one \cup {j} /\ IsFiniteSet(two) /\ Cardinality(two) = 2
  <2>1. j \notin one
    BY <1>1
  <2>2. IsFiniteSet(one \cup {j}) /\ Cardinality(one \cup {j}) = Cardinality(one) + 1
    BY <1>2, <2>1, FS_AddElement
  <2> QED
    BY <1>2, <2>2
<1>4. 2 <= Cardinality(E)
  <2>1. two \in SUBSET E
    BY <1>1, <1>3
  <2> QED
    BY <1>3, <2>1, FS_Subset
<1> QED
  BY <1>4

LEMMA ExpiredOnce ==
    ASSUME NEW ns, ~(2 <= Cardinality(ExpiredUnder(ns))), notes \in Seq(Note),
           NEW i \in ExpiredUnder(ns), NEW j \in ExpiredUnder(ns)
    PROVE  i = j
<1>1. 1 \in Int /\ Len(notes) \in Int
  OBVIOUS
<1>2. IsFiniteSet(1..Len(notes))
  BY <1>1, FS_Interval
<1>3. ExpiredUnder(ns) \subseteq 1..Len(notes)
  BY DEF ExpiredUnder
<1>4. IsFiniteSet(ExpiredUnder(ns))
  BY <1>2, <1>3, FS_Subset
<1> QED
  BY <1>4, NoTwo

(* What a search for one note gives is live and under the namespace ...     *)
LEMMA FoundIsLive ==
    ASSUME notes \in Seq(Note), NEW ns, NEW f, Recall(ns, f, 1) # <<>>
    PROVE  LET n == Recall(ns, f, 1)[1] IN n \in Range(notes) /\ ~IsExpired(n) /\ Under(ns, n)
<1>1. PICK all \in Seq(Note) :
        all = Ranked(ns, f) /\ \A p \in 1..Len(all) : all[p] \in Range(notes) /\ Under(ns, all[p])
  BY RankedNotes DEF RanksNotes
<1>2. PICK S : S = Live
  OBVIOUS
<1>3. PICK T : T = Note
  OBVIOUS
<1>4. PICK first \in Seq(T) :
        /\ first = FirstN(all, 2 * 1)
        /\ \A p \in 1..Len(first) : \E r \in 1..Len(all) : first[p] = all[r]
  <2>1. PICK m \in Nat : m = (IF 2 < Len(all) THEN 2 ELSE Len(all)) /\ m <= Len(all)
    OBVIOUS
  <2>2. PICK row \in Seq(T) : row = all
    BY <1>3
  <2>3. PICK first : first = SubSeq(row, 1, m)
    OBVIOUS
  <2>4. first \in Seq(T) /\ Len(first) = m /\ \A i \in 1..m : first[i] = row[i]
    BY <2>1, <2>2, <2>3
  <2>5. FirstN(all, 2 * 1) = first
    BY <2>1, <2>2, <2>3 DEF FirstN
  <2> QED
    BY <2>1, <2>2, <2>4, <2>5
<1>5. PICK t \in Seq(T \cap S) :
        t = Selected(first, S) /\ \A p \in 1..Len(t) : \E q \in 1..Len(first) : first[q] \in S /\ t[p] = first[q]
  <2>1. PICK t : t = Selected(first, S)
    OBVIOUS
  <2>2. t \in Seq(T \cap S) /\ PickedFrom(t, first, S, Len(first))
    BY <2>1, SelectionIsPicked
  <2>3. \A p \in 1..Len(t) : \E q \in 1..Len(first) : first[q] \in S /\ t[p] = first[q]
    BY <2>2 DEF PickedFrom
  <2> QED
    BY <2>1, <2>2, <2>3
<1>6. Recall(ns, f, 1) = FirstN(t, 1)
  BY <1>1, <1>2, <1>4, <1>5 DEF Recall
<1>7. Len(t) >= 1 /\ Recall(ns, f, 1)[1] = t[1]
  <2>1. PICK l \in Nat : l = Len(t)
    OBVIOUS
  <2>2. l # 0
    <3>1. SUFFICES ASSUME l = 0 PROVE FALSE
      OBVIOUS
    <3>2. FirstN(t, 1) = SubSeq(t, 1, 0)
      BY <2>1, <3>1 DEF FirstN
    <3>3. SubSeq(t, 1, 0) = <<>>
      OBVIOUS
    <3> QED
      BY <1>6, <3>2, <3>3
  <2>3. FirstN(t, 1) = SubSeq(t, 1, 1)
    <3>1. (IF 1 < l THEN 1 ELSE l) = 1
      BY <2>2
    <3> QED
      BY <2>1, <3>1 DEF FirstN
  <2>4. SubSeq(t, 1, 1)[1] = t[1]
    BY <2>1, <2>2
  <2> QED
    BY <1>6, <2>1, <2>2, <2>3, <2>4
<1>8. PICK q \in 1..Len(first) : first[q] \in S /\ t[1] = first[q]
  <2>1. 1 \in 1..Len(t)
    BY <1>7
  <2> QED
    BY <1>5, <2>1
<1>9. PICK r \in 1..Len(all) : first[q] = all[r]
  BY <1>4
<1> QED
  BY <1>1, <1>2, <1>7, <1>8, <1>9 DEF Live

(* ... and of the kind that was asked for, if there is a live note of it    *)
(* there and no more than one has expired.                                  *)
LEMMA TheKindIsFound ==
    ASSUME notes \in Seq(Note), Distinct(notes), NEW ns, NEW f,
           ~(2 <= Cardinality(ExpiredUnder(ns))),
           NEW n \in Range(notes), Under(ns, n), ~IsExpired(n), Similar(n.fact, f)
    PROVE  Recall(ns, f, 1) # <<>> /\ Similar(Recall(ns, f, 1)[1].fact, f)
<1>1. PICK all \in Seq(Note) : all = Ranked(ns, f) /\ RanksNotes(all, ns, f)
  BY RankedNotes DEF RanksNotes
<1>2. PICK S : S = Live
  OBVIOUS
<1>3. PICK q \in 1..Len(all) : all[q] = n
  BY <1>1 DEF RanksNotes
<1>4. all[q] \in S
  BY <1>2, <1>3 DEF Live
<1>5. ASSUME NEW p \in 1..Len(all), all[p] \notin S
      PROVE  \E i \in ExpiredUnder(ns) : notes[i] = all[p]
  <2>1. all[p] \in Range(notes) /\ Under(ns, all[p])
    BY <1>1 DEF RanksNotes
  <2>2. IsExpired(all[p])
    BY <1>2, <1>5, <2>1 DEF Live
  <2>3. PICK i \in 1..Len(notes) : notes[i] = all[p]
    BY <2>1, MembersOfNotes
  <2> QED
    BY <2>1, <2>2, <2>3 DEF ExpiredUnder
<1>6. ASSUME NEW i \in 1..Len(all), NEW j \in 1..Len(all), all[i] \notin S /\ all[j] \notin S
      PROVE  i = j
  <2>1. PICK a \in ExpiredUnder(ns), b \in ExpiredUnder(ns) : notes[a] = all[i] /\ notes[b] = all[j]
    BY <1>5, <1>6
  <2>2. a = b
    BY ExpiredOnce
  <2>3. all[i] = all[j]
    BY <2>1, <2>2
  <2> QED
    BY <1>1, <2>3 DEF RanksNotes, Distinct
<1>7. PICK near : near = FirstN(Selected(FirstN(all, 2 * 1), S), 1)
  OBVIOUS
<1>8. near # <<>> /\ \E j \in 1..q : near[1] = all[j]
  BY <1>4, <1>6, <1>7, TheFirstIsFound
<1>9. PICK j \in 1..q : near[1] = all[j]
  BY <1>8
<1>10. Closeness(all[q].fact, f) <= Closeness(all[j].fact, f)
  <2>1. j \in 1..Len(all) /\ j <= q
    OBVIOUS
  <2> QED
    BY <1>1, <2>1 DEF RanksNotes
<1>11. Similar(near[1].fact, f)
  <2>1. PICK x : x = Closeness(all[q].fact, f)
    OBVIOUS
  <2>2. PICK y : y = Closeness(all[j].fact, f)
    OBVIOUS
  <2>3. x \in {3, 2, 0} /\ y \in {3, 2, 0}
    BY <2>1, <2>2 DEF Closeness
  <2>4. x >= 2 /\ x <= y
    BY <1>3, <1>10, <2>1, <2>2 DEF Similar
  <2>5. y >= 2
    BY <2>3, <2>4
  <2> QED
    BY <1>9, <2>2, <2>5 DEF Similar
<1>12. Recall(ns, f, 1) = near
  BY <1>1, <1>2, <1>7 DEF Recall
<1> QED
  BY <1>8, <1>11, <1>12

LEMMA MemoryInitInv == MemoryInit => MemoryInv
<1> SUFFICES ASSUME MemoryInit PROVE MemoryInv
  OBVIOUS
<1>1. /\ notes = <<>> /\ now = 0 /\ written = 0
      /\ turn = [a \in Agents |-> NoTurn]
  BY DEF MemoryInit
<1>2. NoTurn \in Turns /\ NoTurn.at = "idle"
  BY MemoryAssumption DEF MemoryAssumption, NoTurn, Turns
<1>3. MemoryTypeOK
  BY <1>1, <1>2 DEF MemoryTypeOK
<1>4. Range(notes) = {} /\ Distinct(notes)
  BY <1>1 DEF Range, Distinct
<1>5. \A a \in Agents : ~Writes(a)
  BY <1>1, <1>2 DEF Writes
<1> QED
  BY <1>3, <1>4, <1>5 DEF MemoryInv, NotesDiffer, KindsAreOne, OneRemembers, TheKindIsKnown

(* Forgetting, cleaning up and growing old take notes away, or their life.  *)
LEMMA FewerNotes ==
    ASSUME MemoryInv, notes' \in Seq(Note), Distinct(notes'), Range(notes') \subseteq Range(notes),
           now' \in Nat, now <= now', UNCHANGED <<turn, written, crowded>>
    PROVE  MemoryInv'
<1>1. MemoryTypeOK'
  BY MemoryParts DEF MemoryTypeOK
<1>2. ASSUME NEW n \in Range(notes'), NEW ns, NEW f, Kindred(n, ns, f)'
      PROVE  Kindred(n, ns, f)
  <2>1. n \in Note
    BY MemoryParts, MembersOfNotes
  <2>2. n.expires \in Nat /\ now \in Nat
    BY <2>1, MemoryParts DEF Note
  <2>3. n.ns = ns /\ n.key > 0 /\ KindOf[n.fact] = KindOf[f] /\ ~(n.expires <= now')
    BY <1>2 DEF Kindred, IsExpired
  <2>4. ~(n.expires <= now)
    BY <2>2, <2>3
  <2> QED
    BY <2>3, <2>4 DEF Kindred, IsExpired
<1>3. NotesDiffer'
  BY MemoryParts DEF NotesDiffer, IdOf
<1>4. KindsAreOne'
  <2> SUFFICES ASSUME ~crowded, NEW n \in Range(notes'), NEW m \in Range(notes'),
                      m.key > 0, ~IsExpired(m)', Kindred(n, m.ns, m.fact)'
               PROVE  n = m
    BY DEF KindsAreOne
  <2>1. Kindred(m, m.ns, m.fact)'
    BY DEF Kindred, IsExpired
  <2>2. Kindred(n, m.ns, m.fact) /\ Kindred(m, m.ns, m.fact)
    BY <1>2, <2>1
  <2>3. ~IsExpired(m)
    BY <2>2 DEF Kindred
  <2> QED
    BY <2>2, <2>3, MemoryParts DEF KindsAreOne
<1>5. OneRemembers'
  BY MemoryParts DEF OneRemembers, Writes
<1>6. TheKindIsKnown'
  <2> SUFFICES ASSUME ~crowded, NEW a \in Agents, NEW n \in Range(notes'), Writes(a),
                      Kindred(n, NamespaceOf[a], turn[a].fact)'
               PROVE  n.key = turn[a].key
    BY DEF TheKindIsKnown, Writes
  <2>1. Kindred(n, NamespaceOf[a], turn[a].fact)
    <3>1. PICK f : f = turn[a].fact
      OBVIOUS
    <3>2. Kindred(n, NamespaceOf[a], f)'
      BY <3>1 DEF Kindred, IsExpired
    <3> QED
      BY <1>2, <3>1, <3>2
  <2> QED
    BY <2>1, MemoryParts DEF TheKindIsKnown
<1> QED
  BY <1>1, <1>3, <1>4, <1>5, <1>6 DEF MemoryInv

LEMMA SelectingKeeps ==
    ASSUME MemoryInv, NEW S, notes' = Selected(notes, S), UNCHANGED <<now, turn, written, crowded>>
    PROVE  MemoryInv'
<1>1. /\ notes' \in Seq(Note) /\ Distinct(notes') /\ Range(notes') \subseteq Range(notes)
  BY MemoryParts, SelectedNotes DEF NotesDiffer
<1>2. now' \in Nat /\ now <= now'
  BY MemoryParts
<1> QED
  BY <1>1, <1>2, FewerNotes

LEMMA ForgetInv ==
    ASSUME MemoryInv, NEW a, NEW key, Forget(a, key)
    PROVE  MemoryInv'
<1>1. PICK S : notes' = Selected(notes, S)
  BY DEF Forget
<1>2. UNCHANGED <<now, turn, written, crowded>>
  BY DEF Forget
<1> QED
  BY <1>1, <1>2, SelectingKeeps

LEMMA CleanupDeletesInv ==
    ASSUME MemoryInv, CleanupDeletes
    PROVE  MemoryInv'
<1>1. PICK S : notes' = Selected(notes, S)
  BY DEF CleanupDeletes
<1>2. UNCHANGED <<now, turn, written, crowded>>
  BY DEF CleanupDeletes
<1> QED
  BY <1>1, <1>2, SelectingKeeps

LEMMA TimeInv ==
    ASSUME MemoryInv, Tick \/ CleanupLists \/ UNCHANGED memoryVars
    PROVE  MemoryInv'
<1>1. notes' = notes /\ UNCHANGED <<turn, written, crowded>> /\ (now' = now \/ now' = now + 1)
  BY DEF Tick, CleanupLists, memoryVars
<1>2. now' \in Nat /\ now <= now'
  BY <1>1, MemoryParts
<1>3. notes' \in Seq(Note) /\ Distinct(notes') /\ Range(notes') \subseteq Range(notes)
  BY <1>1, MemoryParts DEF NotesDiffer
<1> QED
  BY <1>1, <1>2, <1>3, FewerNotes

(* A turn that begins writes under a key of its own or of the note that it  *)
(* found; the other turns and the notes stay as they were.                  *)
LEMMA TurnBegins ==
    ASSUME MemoryInv, NEW a \in Agents, NEW fact \in Facts, NEW key \in Int, NEW ttl \in Nat,
           turn' = [turn EXCEPT ![a] = Putting(fact, key, ttl)],
           UNCHANGED <<notes, now, written>>,
           ~crowded' => ~crowded,
           ~crowded' /\ key > 0 =>
             /\ \A b \in Agents \ {a} : ~Writes(b)
             /\ \A n \in Range(notes) : Kindred(n, NamespaceOf[a], fact) => n.key = key
    PROVE  MemoryInv'
<1>1. turn \in [Agents -> Turns] /\ turn' \in [Agents -> Turns]
  BY MemoryParts DEF Putting, Turns
<1>2. /\ turn'[a].at = "putting" /\ turn'[a].fact = fact /\ turn'[a].key = key
      /\ \A b \in Agents : b # a => turn'[b] = turn[b]
  BY <1>1 DEF Putting
<1>3. MemoryTypeOK'
  BY <1>1, MemoryParts DEF MemoryTypeOK
<1>4. NotesDiffer' /\ KindsAreOne'
  BY MemoryParts DEF NotesDiffer, KindsAreOne, Kindred, IsExpired, IdOf
<1>5. /\ Writes(a)' <=> key > 0
      /\ \A b \in Agents : b # a => (Writes(b)' <=> Writes(b))
  BY <1>2 DEF Writes
<1>6. OneRemembers'
  <2> SUFFICES ASSUME ~crowded', NEW b \in Agents, NEW c \in Agents, Writes(b)', Writes(c)'
               PROVE  b = c
    BY DEF OneRemembers
  <2>1. CASE key > 0
    BY <1>5, <2>1
  <2>2. CASE ~(key > 0)
    BY <1>5, <2>2, MemoryParts DEF OneRemembers
  <2> QED
    BY <2>1, <2>2
<1>7. TheKindIsKnown'
  <2> SUFFICES ASSUME ~crowded', NEW b \in Agents, NEW n \in Range(notes), Writes(b)',
                      Kindred(n, NamespaceOf[b], turn'[b].fact)
               PROVE  n.key = turn'[b].key
    BY DEF TheKindIsKnown, Kindred, IsExpired
  <2>1. CASE b = a
    BY <1>2, <1>5, <2>1
  <2>2. CASE b # a
    BY <1>2, <1>5, <2>2, MemoryParts DEF TheKindIsKnown
  <2> QED
    BY <2>1, <2>2
<1> QED
  BY <1>3, <1>4, <1>6, <1>7 DEF MemoryInv

LEMMA ExtractInv ==
    ASSUME MemoryInv, NEW a \in Agents, NEW f \in Facts, Extract(a, f)
    PROVE  MemoryInv'
<1>1. PICK key \in Int : key = FactKey(f) /\ ~(key > 0)
  BY MemoryAssumption DEF MemoryAssumption, FactKey
<1>2. ExtractTtl \in Nat
  BY MemoryAssumption DEF MemoryAssumption
<1>3. turn' = [turn EXCEPT ![a] = Putting(f, key, ExtractTtl)] /\ UNCHANGED <<notes, now, written, crowded>>
  BY <1>1 DEF Extract
<1> QED
  BY <1>1, <1>2, <1>3, TurnBegins

LEMMA LookForSimilarInv ==
    ASSUME MemoryInv, NEW a \in Agents, NEW f \in Facts, NEW given \in KnownKeys(a) \cup {0},
           LookForSimilar(a, f, given)
    PROVE  MemoryInv'
<1>1. PICK ns : ns = NamespaceOf[a]
  OBVIOUS
<1>2. PICK near : near = Recall(ns, f, 1)
  OBVIOUS
<1>3. PICK fresh : fresh = IF given # 0 THEN given ELSE written + Cardinality(Remembering) + 1
  OBVIOUS
<1> DEFINE found == near # <<>> /\ Similar(near[1].fact, f)
<1>4. PICK key : /\ key = IF found THEN near[1].key ELSE fresh
                 /\ turn' = [turn EXCEPT ![a] = Putting(f, key, Ttl)]
  BY <1>1, <1>2, <1>3 DEF LookForSimilar
<1>5. /\ UNCHANGED <<notes, now, written>>
      /\ ~crowded' => /\ ~crowded /\ Remembering = {}
                      /\ ~(2 <= Cardinality(ExpiredUnder(ns)))
                      /\ ~(found /\ near[1].ns # ns)
  BY <1>1, <1>2 DEF LookForSimilar
<1>6. near # <<>> => near[1] \in Range(notes) /\ ~IsExpired(near[1]) /\ Under(ns, near[1])
  BY <1>2, MemoryParts, FoundIsLive
<1>7. \A n \in Range(notes) : n \in Note
  BY MemoryParts, MembersOfNotes
<1>8. fresh \in Int
  <2>1. \A n \in Range(notes) : n.key \in Int
    BY <1>7 DEF Note
  <2>2. given \in Int
    BY <2>1 DEF KnownKeys
  <2>3. Cardinality(Remembering) \in Nat
    <3>1. IsFiniteSet(Agents)
      BY MemoryAssumption DEF MemoryAssumption
    <3>2. Remembering \in SUBSET Agents
      BY DEF Remembering
    <3> QED
      BY <3>1, <3>2, FS_Subset, FS_CardinalityType
  <2>4. written \in Nat
    BY MemoryParts
  <2> QED
    BY <1>3, <2>2, <2>3, <2>4
<1>9. key \in Int /\ Ttl \in Nat
  <2>1. near # <<>> => near[1].key \in Int
    BY <1>6, <1>7 DEF Note
  <2>2. Ttl \in Nat
    BY MemoryAssumption DEF MemoryAssumption
  <2> QED
    BY <1>4, <1>8, <2>1, <2>2
<1>10. ASSUME ~crowded', NEW b \in Agents PROVE ~Writes(b)
  <2>1. b \notin Remembering
    BY <1>5, <1>10
  <2> QED
    BY <2>1 DEF Remembering, Writes
<1>11. ASSUME ~crowded', key > 0, NEW n \in Range(notes), Kindred(n, ns, f)
       PROVE  n.key = key
  <2>1. n.ns = ns /\ n.key > 0 /\ ~IsExpired(n) /\ KindOf[n.fact] = KindOf[f]
    BY <1>11 DEF Kindred
  <2>2. Under(ns, n)
    <3>1. ns \in Seq(STRING)
      BY <1>1, MemoryAssumption DEF MemoryAssumption
    <3>2. SubSeq(ns, 1, Len(ns)) = ns
      BY <3>1
    <3> QED
      BY <2>1, <3>1, <3>2 DEF Under
  <2>3. Similar(n.fact, f)
    BY <2>1, SimilarIsOfAKind
  <2>4. found
    BY <1>2, <1>5, <1>11, <2>1, <2>2, <2>3, MemoryParts, TheKindIsFound DEF NotesDiffer
  <2>5. PICK m \in Range(notes) : m = near[1] /\ ~IsExpired(m) /\ m.ns = ns /\ m.key = key
    BY <1>4, <1>5, <1>6, <1>11, <2>4
  <2>6. KindOf[m.fact] = KindOf[f]
    BY <2>4, <2>5, SimilarIsOfAKind
  <2>7. Kindred(n, m.ns, m.fact)
    BY <2>1, <2>5, <2>6 DEF Kindred
  <2>8. n = m
    BY <1>5, <1>11, <2>5, <2>7, MemoryParts DEF KindsAreOne
  <2> QED
    BY <2>5, <2>8
<1>12. ~crowded' => ~crowded
  BY <1>5
<1> HIDE DEF found
<1>13. /\ turn' = [turn EXCEPT ![a] = Putting(f, key, Ttl)] /\ UNCHANGED <<notes, now, written>>
       /\ ~crowded' /\ key > 0 =>
             /\ \A b \in Agents \ {a} : ~Writes(b)
             /\ \A n \in Range(notes) : Kindred(n, NamespaceOf[a], f) => n.key = key
  BY <1>1, <1>4, <1>5, <1>10, <1>11
<1> QED
  BY <1>9, <1>12, <1>13, TurnBegins

(* put: one note is written, in the place of the one that has its id or     *)
(* after all others.                                                        *)
Upserts(t, s, x, same) ==
  /\ same \subseteq 1..Len(s) /\ \A i, j \in same : i = j
  /\ \A i \in 1..Len(s) : s[i] = x => i \in same
  /\ t = IF same = {} THEN Append(s, x) ELSE [i \in 1..Len(s) |-> IF i \in same THEN x ELSE s[i]]

LEMMA NoteIsWritten ==
    ASSUME NEW T, NEW s \in Seq(T), NEW x \in T, NEW same, NEW t, Upserts(t, s, x, same), Distinct(s)
    PROVE  /\ t \in Seq(T) /\ Distinct(t)
           /\ \A p \in 1..Len(t) : t[p] = x \/ \E i \in (1..Len(s)) \ same : t[p] = s[i]
<1>0. PICK n \in Nat : n = Len(s)
  OBVIOUS
<1>1. /\ same \subseteq 1..n /\ \A i, j \in same : i = j
      /\ \A i \in 1..n : s[i] = x => i \in same
      /\ t = IF same = {} THEN Append(s, x) ELSE [i \in 1..n |-> IF i \in same THEN x ELSE s[i]]
  BY <1>0 DEF Upserts
<1>2. CASE same = {}
  <2>1. PICK longer \in Seq(T) : Longer(longer, s, x)
    BY Appending
  <2>2. t = longer
    BY <1>1, <1>2, <2>1 DEF Longer
  <2>3. Len(t) = n + 1 /\ t[n + 1] = x /\ \A k \in 1..n : t[k] = s[k]
    BY <1>0, <2>1, <2>2 DEF Longer
  <2>4. \A k \in 1..n : s[k] # x
    BY <1>1, <1>2
  <2>5. \A k \in 1..(n + 1) : k = n + 1 \/ k \in 1..n
    OBVIOUS
  <2>6. Distinct(t)
    <3> SUFFICES ASSUME NEW p \in 1..(n + 1), NEW r \in 1..(n + 1), t[p] = t[r] PROVE p = r
      BY <2>3 DEF Distinct
    <3>1. CASE p \in 1..n /\ r \in 1..n
      BY <1>0, <2>3, <3>1 DEF Distinct
    <3>2. CASE ~(p \in 1..n) \/ ~(r \in 1..n)
      BY <2>3, <2>4, <2>5, <3>2
    <3> QED
      BY <3>1, <3>2
  <2> QED
    BY <1>0, <1>2, <2>2, <2>3, <2>5, <2>6
<1>3. CASE same # {}
  <2>1. t = [i \in 1..n |-> IF i \in same THEN x ELSE s[i]]
    BY <1>1, <1>3
  <2>2. t \in Seq(T) /\ Len(t) = n
    BY <1>0, <2>1
  <2>3. \A p \in 1..n : t[p] = IF p \in same THEN x ELSE s[p]
    BY <2>1
  <2>4. Distinct(t)
    <3> SUFFICES ASSUME NEW p \in 1..n, NEW r \in 1..n, t[p] = t[r] PROVE p = r
      BY <2>2 DEF Distinct
    <3>1. CASE p \notin same /\ r \notin same
      BY <1>0, <2>3, <3>1 DEF Distinct
    <3>2. CASE p \in same /\ r \in same
      BY <1>1, <3>2
    <3>3. CASE p \in same /\ r \notin same
      BY <1>1, <2>3, <3>3
    <3>4. CASE p \notin same /\ r \in same
      BY <1>1, <2>3, <3>4
    <3> QED
      BY <3>1, <3>2, <3>3, <3>4
  <2> QED
    BY <1>0, <2>2, <2>3, <2>4
<1> QED
  BY <1>2, <1>3

LEMMA PutInv ==
    ASSUME MemoryInv, NEW a \in Agents, Put(a)
    PROVE  MemoryInv'
<1>1. PICK note : note = [ns |-> NamespaceOf[a], key |-> turn[a].key, fact |-> turn[a].fact,
                          expires |-> now + turn[a].ttl]
  OBVIOUS
<1>2. turn[a] \in Turns /\ turn[a].at = "putting"
  BY MemoryParts DEF Put
<1>3. /\ note \in Note /\ note.ns = NamespaceOf[a] /\ note.key = turn[a].key
      /\ note.fact = turn[a].fact
  <2>1. turn[a].key \in Int /\ turn[a].fact \in Facts /\ turn[a].ttl \in Nat /\ now \in Nat
    BY <1>2, MemoryParts DEF Turns
  <2>2. NamespaceOf[a] \in Seq(STRING)
    BY MemoryAssumption DEF MemoryAssumption
  <2>3. now + turn[a].ttl \in Nat
    BY <2>1
  <2> QED
    BY <1>1, <2>1, <2>2, <2>3 DEF Note
<1>4. PICK same \in SUBSET (1..Len(notes)) : same = {i \in 1..Len(notes) : IdOf(notes[i]) = IdOf(note)}
  OBVIOUS
<1>5. /\ notes' = IF same = {} THEN Append(notes, note)
                  ELSE [i \in 1..Len(notes) |-> IF i \in same THEN note ELSE notes[i]]
      /\ turn' = [turn EXCEPT ![a] = NoTurn] /\ written' = written + 1
      /\ UNCHANGED <<now, sweep, crowded>>
  BY <1>1, <1>4 DEF Put
<1>6. \A i, j \in same : i = j
  <2> SUFFICES ASSUME NEW i \in same, NEW j \in same PROVE i = j
    OBVIOUS
  <2>1. notes[i] \in Range(notes) /\ notes[j] \in Range(notes) /\ IdOf(notes[i]) = IdOf(notes[j])
    BY <1>4, MemoryParts, MembersOfNotes
  <2>2. notes[i] = notes[j]
    BY <2>1, MemoryParts DEF NotesDiffer
  <2> QED
    BY <1>4, <2>2, MemoryParts DEF NotesDiffer, Distinct
<1>7. \A i \in 1..Len(notes) : notes[i] = note => i \in same
  BY <1>4
<1>8. /\ notes' \in Seq(Note) /\ Distinct(notes')
      /\ \A p \in 1..Len(notes') : notes'[p] = note \/ \E i \in (1..Len(notes)) \ same : notes'[p] = notes[i]
  <2>1. PICK T : T = Note
    OBVIOUS
  <2>2. PICK s \in Seq(T) : s = notes
    BY <2>1, MemoryParts
  <2>3. PICK t : t = notes'
    OBVIOUS
  <2>4. Distinct(s)
    BY <2>2, MemoryParts DEF NotesDiffer
  <2>5. note \in T /\ Upserts(t, s, note, same)
    BY <1>3, <1>5, <1>6, <1>7, <2>1, <2>2, <2>3 DEF Upserts
  <2>6. /\ t \in Seq(T) /\ Distinct(t)
        /\ \A p \in 1..Len(t) : t[p] = note \/ \E i \in (1..Len(s)) \ same : t[p] = s[i]
    BY <2>4, <2>5, NoteIsWritten
  <2> QED
    BY <2>1, <2>2, <2>3, <2>6
<1>9. ASSUME NEW n \in Range(notes')
      PROVE  n = note \/ (n \in Range(notes) /\ IdOf(n) # IdOf(note))
  <2>1. PICK p \in 1..Len(notes') : n = notes'[p]
    <3>1. PICK T : T = Note
      OBVIOUS
    <3>2. notes' \in Seq(T)
      BY <1>8, <3>1
    <3> QED
      BY <3>2 DEF Range
  <2>2. CASE notes'[p] = note
    BY <2>1, <2>2
  <2>3. CASE \E i \in (1..Len(notes)) \ same : notes'[p] = notes[i]
    <3>1. PICK i \in 1..Len(notes) : i \notin same /\ notes'[p] = notes[i]
      BY <2>3
    <3> QED
      BY <1>4, <2>1, <3>1, MemoryParts, MembersOfNotes
  <2> QED
    BY <1>8, <2>2, <2>3
<1>10. /\ turn' \in [Agents -> Turns] /\ turn'[a].at = "idle"
       /\ \A b \in Agents : b # a => turn'[b] = turn[b]
  <2>1. NoTurn \in Turns /\ NoTurn.at = "idle"
    BY MemoryAssumption DEF MemoryAssumption, NoTurn, Turns
  <2> QED
    BY <1>5, <2>1, MemoryParts
<1>11. ~Writes(a)' /\ \A b \in Agents : b # a => (Writes(b)' <=> Writes(b))
  BY <1>10 DEF Writes
<1>12. MemoryTypeOK'
  BY <1>5, <1>8, <1>10, MemoryParts DEF MemoryTypeOK
<1>13. NotesDiffer'
  <2> SUFFICES ASSUME NEW n \in Range(notes'), NEW m \in Range(notes'), IdOf(n) = IdOf(m) PROVE n = m
    BY <1>8 DEF NotesDiffer, IdOf
  <2> QED
    BY <1>9, MemoryParts DEF NotesDiffer
<1>14. \A n, m : IdOf(n) # IdOf(m) => n.ns # m.ns \/ n.key # m.key
  BY DEF IdOf
<1>15. ASSUME ~crowded, NEW n \in Range(notes), IdOf(n) # IdOf(note), note.key > 0
       PROVE  ~Kindred(n, note.ns, note.fact)
  <2> SUFFICES ASSUME Kindred(n, note.ns, note.fact) PROVE FALSE
    OBVIOUS
  <2>1. Writes(a)
    BY <1>2, <1>3, <1>15 DEF Writes
  <2>2. n.key = note.key
    BY <1>3, <1>15, <2>1, MemoryParts DEF TheKindIsKnown
  <2>3. n.ns = note.ns
    BY DEF Kindred
  <2> QED
    BY <1>14, <1>15, <2>2, <2>3
<1>16. KindsAreOne'
  <2> SUFFICES ASSUME ~crowded, NEW n \in Range(notes'), NEW m \in Range(notes'),
                      m.key > 0, ~IsExpired(m), Kindred(n, m.ns, m.fact)
               PROVE  n = m
    BY <1>5 DEF KindsAreOne, Kindred, IsExpired
  <2>1. n.key > 0 /\ ~IsExpired(n) /\ Kindred(m, n.ns, n.fact)
    BY DEF Kindred
  <2>2. CASE n = note /\ m = note
    BY <2>2
  <2>3. CASE n = note /\ m # note
    BY <1>9, <1>15, <2>1, <2>3
  <2>4. CASE n # note /\ m = note
    BY <1>9, <1>15, <2>4
  <2>5. CASE n # note /\ m # note
    BY <1>9, <2>5, MemoryParts DEF KindsAreOne
  <2> QED
    BY <2>2, <2>3, <2>4, <2>5
<1>17. OneRemembers'
  BY <1>5, <1>11, MemoryParts DEF OneRemembers
<1>18. TheKindIsKnown'
  <2> SUFFICES ASSUME ~crowded, NEW b \in Agents, NEW n \in Range(notes'), Writes(b)',
                      Kindred(n, NamespaceOf[b], turn'[b].fact)
               PROVE  n.key = turn'[b].key
    BY <1>5 DEF TheKindIsKnown, Kindred, IsExpired
  <2>1. b # a /\ Writes(b) /\ turn'[b] = turn[b]
    BY <1>10, <1>11
  <2>2. ~Writes(a)
    BY <2>1, MemoryParts DEF OneRemembers
  <2>3. ~(note.key > 0)
    BY <1>2, <1>3, <2>2 DEF Writes
  <2>4. n # note
    BY <2>3 DEF Kindred
  <2> QED
    BY <1>9, <2>1, <2>4, MemoryParts DEF TheKindIsKnown
<1> QED
  BY <1>12, <1>13, <1>16, <1>17, <1>18 DEF MemoryInv

LEMMA MemoryNextInv == MemoryInv /\ [MemoryNext]_memoryVars => MemoryInv'
<1> SUFFICES ASSUME MemoryInv, [MemoryNext]_memoryVars PROVE MemoryInv'
  OBVIOUS
<1>1. CASE Tick \/ CleanupLists \/ UNCHANGED memoryVars
  BY <1>1, TimeInv
<1>2. CASE CleanupDeletes
  BY <1>2, CleanupDeletesInv
<1>3. ASSUME NEW a \in Agents, NEW f \in Facts, NEW key \in KnownKeys(a) \cup {0},
             LookForSimilar(a, f, key)
      PROVE  MemoryInv'
  BY <1>3, LookForSimilarInv
<1>4. ASSUME NEW a \in Agents, NEW f \in Facts, Extract(a, f)
      PROVE  MemoryInv'
  BY <1>4, ExtractInv
<1>5. ASSUME NEW a \in Agents, Put(a)
      PROVE  MemoryInv'
  BY <1>5, PutInv
<1>6. ASSUME NEW a \in Agents, NEW key \in KnownKeys(a), Forget(a, key)
      PROVE  MemoryInv'
  BY <1>6, ForgetInv
<1> QED
  BY <1>1, <1>2, <1>3, <1>4, <1>5, <1>6 DEF MemoryNext

MemorySpec == MemoryInit /\ [][MemoryNext]_memoryVars

(* What an agent remembers is there once, and found.  Its remembers leave   *)
(* one live note of a kind, whatever the extractor, forget, expiry and      *)
(* cleanup do in between, unless another remember was between a search and  *)
(* its put, or two expired notes or one of a deeper namespace crowded the   *)
(* search; and a recall of k gives the k best live notes as long as no more *)
(* than k have expired.                                                     *)
THEOREM NotesStayOneAndFound == MemorySpec => []NotesAreOneAndFound
<1>1. MemoryInv => NotesAreOneAndFound
  <2> SUFFICES ASSUME MemoryInv PROVE NotesAreOneAndFound
    OBVIOUS
  <2>1. RecallFindsTheBest
    BY MemoryParts, RecallsAreTheBest
  <2>2. ASSUME ~crowded, NEW i \in 1..Len(notes), NEW j \in 1..Len(notes),
               notes[i].ns = notes[j].ns, notes[i].key > 0, notes[j].key > 0,
               ~IsExpired(notes[i]), ~IsExpired(notes[j]), Similar(notes[i].fact, notes[j].fact)
        PROVE  i = j
    <3>1. notes[i] \in Range(notes) /\ notes[j] \in Range(notes)
      BY MemoryParts, MembersOfNotes
    <3>2. KindOf[notes[i].fact] = KindOf[notes[j].fact]
      BY <2>2, SimilarIsOfAKind
    <3>3. Kindred(notes[i], notes[j].ns, notes[j].fact)
      BY <2>2, <3>2 DEF Kindred
    <3>4. notes[i] = notes[j]
      BY <2>2, <3>1, <3>3, MemoryParts DEF KindsAreOne
    <3> QED
      BY <3>4, MemoryParts DEF NotesDiffer, Distinct
  <2> QED
    BY <2>1, <2>2 DEF NotesAreOneAndFound, OneLiveNoteOfAKind
<1> QED
  BY <1>1, MemoryInitInv, MemoryNextInv, PTL DEF MemorySpec
=============================================================================
