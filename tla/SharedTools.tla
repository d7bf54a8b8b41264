------------------------------ MODULE SharedTools ------------------------------
(***************************************************************************)
(* The tools the ticks of several processes share a store with             *)
(* (tool/builtin/lock.py, redis.py and wait_for.py).  A tick, as           *)
(* docs/recipes/ops-daemon.md has it, acquires the lock, waits for a       *)
(* condition, alerts unless a key says it was done, and releases the lock. *)
(* The store runs one command at a time and lets leases expire; it is      *)
(* external, and modelled from the commands the tools send it.             *)
(***************************************************************************)
EXTENDS Naturals, Integers, FiniteSets

CONSTANTS
  Ticks,         \* ticks that may run at once
  TokenOf,       \* the tool instance, so the token, a tick uses
  Conditions,    \* what wait_for polls: "url", "redis_key"
  MaxPolls,      \* bound: timeout / poll_interval
  MaxTicks,      \* bound: ticks begun
  MaxTurmoil     \* bound: leases that expire, and changes of the site

None == "none"

\* A token is a fresh uuid.
ASSUME SharedAssumption ==
  /\ \A t \in Ticks : TokenOf[t] # None
  /\ Conditions \subseteq {"url", "redis_key"}
  /\ {MaxPolls, MaxTicks, MaxTurmoil} \subseteq Nat

VARIABLES
  store,    \* the keys: the lock's holder, the alert's mark, the flag awaited
  site,     \* the URL answers with success
  tick,     \* each tick and its locals
  begun,
  turmoil,
  alerts,   \* history: alerts sent
  overrun   \* history: a lease ran out under a tick

sharedVars == <<store, site, tick, begun, turmoil, alerts, overrun>>

NewTick == [pc |-> "idle", condition |-> "url", async |-> FALSE, polls |-> 0,
            saw |-> FALSE, leased |-> FALSE]

SharedInit ==
  /\ store = [holder |-> None, alerted |-> FALSE, flag |-> FALSE]
  /\ site = FALSE
  /\ tick = [t \in Ticks |-> NewTick]
  /\ begun = 0 /\ turmoil = 0 /\ alerts = 0 /\ overrun = FALSE

To(t, pc) == tick' = [tick EXCEPT ![t].pc = pc]
Holds(t) == store.holder = TokenOf[t]
\* Who believes the lock is theirs.
Inside == {"waiting", "renewing", "checking", "alerting", "releasing"}

-----------------------------------------------------------------------------
(* The store.                                                              *)

\* EX: a lease runs out.
LeaseExpires ==
  /\ store.holder # None /\ turmoil < MaxTurmoil
  /\ turmoil' = turmoil + 1
  /\ store' = [store EXCEPT !.holder = None]
  /\ tick' = [t \in Ticks |-> IF Holds(t) THEN [tick[t] EXCEPT !.leased = FALSE]
                              ELSE tick[t]]
  /\ overrun' = TRUE
  /\ UNCHANGED <<site, begun, alerts>>

\* What the ticks wait for comes and goes.
SiteChanges ==
  /\ turmoil < MaxTurmoil /\ turmoil' = turmoil + 1
  /\ \/ site' = ~site /\ UNCHANGED store
     \/ store' = [store EXCEPT !.flag = ~@] /\ UNCHANGED site
  /\ UNCHANGED <<tick, begun, alerts, overrun>>

-----------------------------------------------------------------------------
(* The lock tool.                                                          *)

\* acquire: SET NX EX; a held lock ends the tick, whoever holds it.
Acquire(t) ==
  /\ tick[t].pc = "idle" /\ begun < MaxTicks
  /\ begun' = begun + 1
  /\ IF store.holder = None
     THEN \E condition \in Conditions, async \in BOOLEAN :
            /\ store' = [store EXCEPT !.holder = TokenOf[t]]
            /\ tick' = [tick EXCEPT ![t] = [NewTick EXCEPT !.pc = "waiting",
                          !.condition = condition, !.async = async, !.leased = TRUE]]
     ELSE UNCHANGED <<store, tick>>
  /\ UNCHANGED <<site, turmoil, alerts, overrun>>

\* release: compare and delete, in one script.
Release(t) ==
  /\ tick[t].pc = "releasing"
  /\ store' = IF Holds(t) THEN [store EXCEPT !.holder = None] ELSE store
  /\ tick' = [u \in Ticks |-> IF u = t THEN NewTick
                              ELSE IF Holds(t) /\ Holds(u)
                              THEN [tick[u] EXCEPT !.leased = FALSE] ELSE tick[u]]
  /\ UNCHANGED <<site, begun, turmoil, alerts, overrun>>

\* renew: compare and expire; a lock that is lost ends the tick.
Renew(t) ==
  /\ tick[t].pc = "renewing"
  /\ IF Holds(t) THEN To(t, "checking") ELSE tick' = [tick EXCEPT ![t] = NewTick]
  /\ UNCHANGED <<store, site, begun, turmoil, alerts, overrun>>

-----------------------------------------------------------------------------
(* wait_for.                                                               *)

ConditionHolds(t) == IF tick[t].condition = "url" THEN site ELSE store.flag

(* _poll and _poll_async: what `if check():` sees.  _poll_url_async passes  *)
(* a coroutine function, and the coroutine it returns is not awaited: it is *)
(* true whatever the URL answers.                                           *)
SeenByPoll(t) == (tick[t].condition = "url" /\ tick[t].async) \/ ConditionHolds(t)

PollMeets(t) ==
  /\ tick[t].pc = "waiting" /\ SeenByPoll(t)
  /\ tick' = [tick EXCEPT ![t].pc = "renewing", ![t].saw = ConditionHolds(t),
                          ![t].polls = 0]
  /\ UNCHANGED <<store, site, begun, turmoil, alerts, overrun>>

PollAgain(t) ==
  /\ tick[t].pc = "waiting" /\ ~SeenByPoll(t) /\ tick[t].polls < MaxPolls
  /\ tick' = [tick EXCEPT ![t].polls = @ + 1]
  /\ UNCHANGED <<store, site, begun, turmoil, alerts, overrun>>

\* The deadline: an error, and the agent ends the tick with a release.
PollTimesOut(t) ==
  /\ tick[t].pc = "waiting" /\ ~SeenByPoll(t) /\ tick[t].polls = MaxPolls
  /\ To(t, "releasing")
  /\ UNCHANGED <<store, site, begun, turmoil, alerts, overrun>>

-----------------------------------------------------------------------------
(* The redis tool: exists and set are two calls of the agent.              *)

\* Mutant: the mark is not looked for.
ExistsNever(t) ==
  /\ tick[t].pc = "checking"
  /\ To(t, "alerting")
  /\ UNCHANGED <<store, site, begun, turmoil, alerts, overrun>>

Exists(t) ==
  /\ tick[t].pc = "checking"
  /\ To(t, IF store.alerted THEN "releasing" ELSE "alerting")
  /\ UNCHANGED <<store, site, begun, turmoil, alerts, overrun>>

Set(t) ==
  /\ tick[t].pc = "alerting"
  /\ store' = [store EXCEPT !.alerted = TRUE]
  /\ alerts' = alerts + 1
  /\ To(t, "releasing")
  /\ UNCHANGED <<site, begun, turmoil, overrun>>

SharedNext ==
  \/ LeaseExpires \/ SiteChanges
  \/ \E t \in Ticks :
       \/ Acquire(t) \/ PollMeets(t) \/ PollAgain(t) \/ PollTimesOut(t) \/ Renew(t)
       \/ Exists(t) \/ Set(t) \/ Release(t)
SharedSpec == SharedInit /\ [][SharedNext]_sharedVars

-----------------------------------------------------------------------------
(* Properties.                                                             *)

(* While the lease of a tick lasts nobody else is inside: "an instance that *)
(* acquired a lock" is alone, and a tick that lost its lease cannot end the *)
(* lease of the one that came after ("a stale instance can never clobber a  *)
(* lock it does not own", lock.py).  Ticks that share the tool share its    *)
(* token and are not told apart.                                            *)
LeasedTickIsAlone ==
  \A t \in Ticks :
    tick[t].pc \in Inside /\ tick[t].leased => Holds(t)

(* Nothing is alerted twice while leases last: the lock makes one step of   *)
(* exists and set ("a queueing clone can never double-run",                 *)
(* docs/recipes/ops-daemon.md).  The default lease is 30 s and the wait     *)
(* 120 s, so leases do run out under a tick; then it may be.                *)
AlertedOnceUnderLease == ~overrun => alerts <= 1

(* "condition met" is said of a condition that some poll saw to hold:       *)
(* wait_for polls "until it responds".                                      *)
MetMeansSeen == \A t \in Ticks : tick[t].pc = "renewing" => tick[t].saw

(* It is so of the sync tool and of keys.                                   *)
MetMeansSeenInSync ==
  \A t \in Ticks :
    tick[t].pc = "renewing" /\ ~(tick[t].condition = "url" /\ tick[t].async) => tick[t].saw

\* So while leases last a tick acts as if it were the only one, and on what
\* was seen.
TicksActAlone == LeasedTickIsAlone /\ AlertedOnceUnderLease /\ MetMeansSeenInSync
=============================================================================
