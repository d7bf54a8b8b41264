------------------------- MODULE ProviderConcurrency -------------------------
(***************************************************************************)
(* The calls of one model provider (harness/loop.py) and the process-wide  *)
(* guard they share (provider/concurrency.py): a semaphore that            *)
(* set_provider_concurrency replaces, that the harnesses grow to their     *)
(* largest max_parallel while nobody uses it, and that a call holds for    *)
(* its whole cycle of retries, backoffs and fallbacks.                     *)
(*                                                                         *)
(* Everything between two awaits is atomic, as in the event loop.  The     *)
(* semaphore is asyncio's: a release hands the slot to a waiter, here to   *)
(* any of them.                                                            *)
(***************************************************************************)
EXTENDS Naturals, Sequences, FiniteSets

CONSTANTS
    Call,               \* model calls, each of a harness of its own
    MaxParallel,        \* call -> max_parallel of its harness, 0: None
    Limits,             \* what set_provider_concurrency is called with
    ReconfigureInUse,   \* it may be called while calls are in flight
    MaxReconfigurations,\* bound: calls of set_provider_concurrency
    MaxRetries,         \* max_retries
    Fallbacks           \* the number of fallback models

ASSUME ConcurrencyAssumption ==
    /\ IsFiniteSet(Call)
    /\ MaxParallel \in [Call -> Nat]
    /\ Limits \subseteq Nat
    /\ ReconfigureInUse \in BOOLEAN
    /\ MaxReconfigurations \in Nat
    /\ MaxRetries \in Nat
    /\ Fallbacks \in Nat

VARIABLES
    sems,           \* the capacity of every semaphore created so far
    current,        \* index of the provider's in _PROVIDER_SEMAPHORES, 0: none
    explicit,       \* the provider is in _EXPLICIT_LIMITS
    active,         \* _PROVIDER_ACTIVE
    call,           \* the locals of every call
    posts,          \* history: requests each call has sent
    reconfigured    \* calls of set_provider_concurrency so far

vars == <<sems, current, explicit, active, call, posts, reconfigured>>

(* transport 0 is the primary model's, then come the fallbacks'.            *)
Locals == [pc : {"new", "ready", "waiting", "posting", "backoff", "done", "failed"},
           sem : Nat, attempt : Nat, transport : Nat]

TypeOK ==
    /\ sems \in Seq(Nat \ {0})
    /\ current \in 0..Len(sems)
    /\ explicit \in BOOLEAN
    /\ active \in Nat
    /\ call \in [Call -> Locals]
    /\ \A c \in Call : call[c].sem \in 0..Len(sems)
    /\ posts \in [Call -> Nat]
    /\ reconfigured \in 0..MaxReconfigurations

Init ==
    /\ sems = <<>>
    /\ current = 0
    /\ explicit = FALSE
    /\ active = 0
    /\ call = [c \in Call |-> [pc |-> "new", sem |-> 0, attempt |-> 0, transport |-> 0]]
    /\ posts = [c \in Call |-> 0]
    /\ reconfigured = 0

InFlight(c) == call[c].pc \in {"posting", "backoff"}

Holders(sem) == {c \in Call : InFlight(c) /\ call[c].sem = sem}

Waiters(sem) == {c \in Call : call[c].pc = "waiting" /\ call[c].sem = sem}

Users == {c \in Call : call[c].sem # 0 /\ (InFlight(c) \/ call[c].pc = "waiting")}

-----------------------------------------------------------------------------
(* _concurrency_semaphore, which a harness calls when it is built and for   *)
(* every request.                                                           *)

Capacity == IF current = 0 THEN 0 ELSE sems[current]

(* Mutant: the guard grows while calls hold or await its slots. *)
MayGrowInUse(c) == ~explicit /\ Capacity < MaxParallel[c]

MayGrow(c) ==
    /\ ~explicit
    /\ Capacity < MaxParallel[c]
    /\ current = 0 \/ active = 0

ConcurrencySemaphore(c) ==
    IF MayGrow(c)
      THEN /\ sems' = Append(sems, MaxParallel[c])
           /\ current' = Len(sems) + 1
      ELSE UNCHANGED <<sems, current>>

ActiveAfterGuard(c) == IF MayGrow(c) THEN 0 ELSE active

BuildHarness(c) ==
    /\ call[c].pc = "new"
    /\ ConcurrencySemaphore(c)
    /\ active' = ActiveAfterGuard(c)
    /\ call' = [call EXCEPT ![c].pc = "ready"]
    /\ UNCHANGED <<explicit, posts, reconfigured>>

(* A request without a cap goes out at once. *)
IssueUncapped(c) ==
    /\ call[c].pc = "ready"
    /\ ~explicit
    /\ MaxParallel[c] = 0
    /\ call' = [call EXCEPT ![c].pc = "posting"]
    /\ posts' = [posts EXCEPT ![c] = @ + 1]
    /\ UNCHANGED <<sems, current, explicit, active, reconfigured>>

(* Any other counts itself as active, then takes a slot or waits for one.   *)
Issue(c) ==
    /\ call[c].pc = "ready"
    /\ explicit \/ MaxParallel[c] > 0
    /\ ConcurrencySemaphore(c)
    /\ active' = ActiveAfterGuard(c) + 1
    /\ IF Cardinality(Holders(current')) < sems'[current']
         THEN /\ call' = [call EXCEPT ![c].pc = "posting", ![c].sem = current']
              /\ posts' = [posts EXCEPT ![c] = @ + 1]
         ELSE /\ call' = [call EXCEPT ![c].pc = "waiting", ![c].sem = current']
              /\ UNCHANGED posts
    /\ UNCHANGED <<explicit, reconfigured>>

-----------------------------------------------------------------------------
(* The cycle of a call, in _post_with_retries_impl and its streaming twin.  *)

(* Mutant: the slot of a call that ends goes to nobody. *)
LeaveAsleep(c, outcome) ==
    /\ active' = IF call[c].sem = 0 \/ active = 0 THEN active ELSE active - 1
    /\ call' = [call EXCEPT ![c].pc = outcome]
    /\ UNCHANGED posts

(* The call gives its slot back: to a waiter of its semaphore if there is   *)
(* one, which then sends its request.                                       *)
Leave(c, outcome) ==
    /\ active' = IF call[c].sem = 0 \/ active = 0 THEN active ELSE active - 1
    /\ IF call[c].sem = 0 \/ Waiters(call[c].sem) = {}
         THEN /\ call' = [call EXCEPT ![c].pc = outcome]
              /\ UNCHANGED posts
         ELSE \E w \in Waiters(call[c].sem) :
                /\ call' = [call EXCEPT ![c].pc = outcome, ![w].pc = "posting"]
                /\ posts' = [posts EXCEPT ![w] = @ + 1]

PostSucceeds(c) ==
    /\ call[c].pc = "posting"
    /\ Leave(c, "done")
    /\ UNCHANGED <<sems, current, explicit, reconfigured>>

(* A transport error or a status in retry_on, with attempts left. *)
PostFailsForNow(c) ==
    /\ call[c].pc = "posting"
    /\ call[c].attempt < MaxRetries
    /\ call' = [call EXCEPT ![c].pc = "backoff"]
    /\ UNCHANGED <<sems, current, explicit, active, posts, reconfigured>>

Retry(c) ==
    /\ call[c].pc = "backoff"
    /\ call' = [call EXCEPT ![c].pc = "posting", ![c].attempt = @ + 1]
    /\ posts' = [posts EXCEPT ![c] = @ + 1]
    /\ UNCHANGED <<sems, current, explicit, active, reconfigured>>

(* Any other failure, or the last attempt: the next model, from its first   *)
(* attempt, in the slot the call holds.                                     *)
FallBack(c) ==
    /\ call[c].pc = "posting"
    /\ call[c].transport < Fallbacks
    /\ call' = [call EXCEPT ![c].transport = @ + 1, ![c].attempt = 0]
    /\ posts' = [posts EXCEPT ![c] = @ + 1]
    /\ UNCHANGED <<sems, current, explicit, active, reconfigured>>

PostFails(c) ==
    /\ call[c].pc = "posting"
    /\ call[c].transport = Fallbacks
    /\ Leave(c, "failed")
    /\ UNCHANGED <<sems, current, explicit, reconfigured>>

(* The task is cancelled: in the queue, in a request, or asleep.            *)
Cancel(c) ==
    /\ \/ /\ InFlight(c)
          /\ Leave(c, "failed")
       \/ /\ call[c].pc = "waiting"
          /\ active' = IF active = 0 THEN 0 ELSE active - 1
          /\ call' = [call EXCEPT ![c].pc = "failed"]
          /\ UNCHANGED posts
    /\ UNCHANGED <<sems, current, explicit, reconfigured>>

-----------------------------------------------------------------------------
SetProviderConcurrency(limit) ==
    /\ reconfigured < MaxReconfigurations
    /\ ReconfigureInUse \/ \A c \in Call : call[c].pc # "waiting" /\ ~InFlight(c)
    /\ reconfigured' = reconfigured + 1
    /\ active' = 0
    /\ explicit' = (limit > 0)
    /\ IF limit > 0
         THEN /\ sems' = Append(sems, limit)
              /\ current' = Len(sems) + 1
         ELSE /\ current' = 0
              /\ UNCHANGED sems
    /\ UNCHANGED <<call, posts>>

Advance(c) ==
    \/ BuildHarness(c) \/ IssueUncapped(c) \/ Issue(c) \/ PostSucceeds(c)
    \/ PostFailsForNow(c) \/ Retry(c) \/ FallBack(c) \/ PostFails(c)

Next ==
    \/ \E c \in Call : Advance(c) \/ Cancel(c)
    \/ \E limit \in Limits : SetProviderConcurrency(limit)

Spec == Init /\ [][Next]_vars

(* A request answers or fails within the timeout of its client, and a sleep *)
(* ends.                                                                    *)
FairSpec == Spec /\ \A c \in Call : WF_vars(Advance(c))

-----------------------------------------------------------------------------
(* Properties. *)

(* docs/reference/providers.md:168: set_provider_concurrency "caps          *)
(* concurrent model calls globally per provider".  Under an explicit cap it *)
(* is a bound on all the calls in flight, retries and fallbacks included;   *)
(* under max_parallel on those of the harnesses that have one, which is     *)
(* what _concurrency_semaphore says: "in-flight requests never exceed the   *)
(* new cap".                                                                *)
CapIsRespected ==
    current # 0 =>
        Cardinality({c \in Call : InFlight(c) /\ (explicit \/ call[c].sem # 0)})
            <= sems[current]

(* A call that is counted as active, waiting or not, is one of the current  *)
(* semaphore's: the guard is never replaced under a call, which is what     *)
(* "idle" in _concurrency_semaphore relies on.                              *)
GuardIsReplacedOnlyIdle ==
    /\ active = Cardinality(Users)
    /\ \A c \in Users : call[c].sem = current

(* A call sends max_retries + 1 requests to every model at most, whatever   *)
(* mixture of failures it meets.                                            *)
RequestsAreBounded ==
    \A c \in Call : posts[c] <= (MaxRetries + 1) * (Fallbacks + 1)

(* No call waits for ever: a slot is held for a bounded cycle and is handed *)
(* on however the cycle ends, also when the guard has grown in between.     *)
CallEnds(c) == <>(call[c].pc \in {"done", "failed"})
===============================================================================
