---------------------------- MODULE MemoryNotes ----------------------------
(***************************************************************************)
(* Long-term memory (teff/memory): notes under hierarchical namespaces in  *)
(* a vector store, the agent's memory tool, the extractor and cleanup.     *)
(* remember looks for a similar note, then embeds and writes: two awaits   *)
(* between which other agents run.  A note is [ns, key, fact, expires];    *)
(* its id is the namespace joined with the key.                            *)
(***************************************************************************)
EXTENDS Integers, Sequences, FiniteSets, SequencesExt

CONSTANTS Agents, NamespaceOf,    \* agent -> its fixed namespace
          Facts, KindOf,          \* facts of one kind are similar
          Ttl, ExtractTtl,        \* seconds; more than MaxClock: no expiry
          RecallSizes, MaxClock, MaxNotes

ASSUME MemoryAssumption ==
  /\ IsFiniteSet(Agents) /\ \A a \in Agents : NamespaceOf[a] \in Seq(STRING)
  /\ Facts # {} /\ Facts \subseteq Nat \ {0}
  /\ RecallSizes \subseteq Nat /\ {Ttl, ExtractTtl, MaxClock, MaxNotes} \subseteq Nat

VARIABLES notes,      \* the store, in insertion order
          now,        \* time.time()
          turn,       \* agent -> [at, fact, key, ttl]
          sweep,      \* the ids a cleanup has listed and will delete
          written,    \* notes written so far
          crowded     \* a remember met two or more expired notes or a note of
                      \* a deeper namespace, or another write was under way

memoryVars == <<notes, now, turn, sweep, written, crowded>>

NoTurn == [at |-> "idle", fact |-> CHOOSE f \in Facts : TRUE, key |-> 0, ttl |-> 0]
IdOf(n) == Append(n.ns, n.key)
IsExpired(n) == n.expires <= now
Under(ns, n) == Len(ns) <= Len(n.ns) /\ SubSeq(n.ns, 1, Len(ns)) = ns

(* The similarity of two texts: the same, of one kind, or unrelated.       *)
Closeness(f, g) == IF f = g THEN 3 ELSE IF KindOf[f] = KindOf[g] THEN 2 ELSE 0
Similar(f, g) == Closeness(f, g) >= 2

(* The members of S among those of s, in their order.                      *)
Selected(s, S) ==
  LET kept[i \in 0..Len(s)] ==
        IF i = 0 THEN <<>>
        ELSE IF s[i] \in S THEN Append(kept[i - 1], s[i]) ELSE kept[i - 1]
  IN kept[Len(s)]

Live == {n \in Range(notes) : ~IsExpired(n)}

(* The notes under ns in the order of a sort by similarity.                *)
Ranked(ns, query) ==
  LET Of(c) == Selected(notes, {n \in Range(notes) : Under(ns, n) /\ Closeness(n.fact, query) = c})
  IN Of(3) \o Of(2) \o Of(0)

FirstN(s, n) == SubSeq(s, 1, IF n < Len(s) THEN n ELSE Len(s))

Recall(ns, query, k) ==
  FirstN(Selected(FirstN(Ranked(ns, query), 2 * k), Live), k)

MemoryInit ==
  /\ notes = <<>> /\ now = 0 /\ turn = [a \in Agents |-> NoTurn]
  /\ sweep = {} /\ written = 0 /\ crowded = FALSE

Remembering == {a \in Agents : turn[a].at = "putting"}

(* remember, first half: the key of the most similar note, or the one that *)
(* the agent gives (a note's, as list or a reply told it), or a fresh one. *)
Looking(a) == turn[a].at = "idle" /\ written + Cardinality(Remembering) < MaxNotes
Putting(fact, key, ttl) == [at |-> "putting", fact |-> fact, key |-> key, ttl |-> ttl]
KnownKeys(a) == {n.key : n \in {n \in Range(notes) : Under(NamespaceOf[a], n)}}
ExpiredUnder(ns) == {i \in 1..Len(notes) : Under(ns, notes[i]) /\ IsExpired(notes[i])}

LookForTheSame(a, fact, given) ==
  LET near == Recall(NamespaceOf[a], fact, 1)
      found == near # <<>> /\ near[1].fact = fact
      key == IF given # 0 THEN given ELSE written + Cardinality(Remembering) + 1
  IN /\ Looking(a)
     /\ turn' = [turn EXCEPT ![a] = Putting(fact, IF found THEN near[1].key ELSE key, Ttl)]
     /\ crowded' = \/ crowded \/ Remembering # {}
                   \/ 2 <= Cardinality(ExpiredUnder(NamespaceOf[a]))
                   \/ found /\ near[1].ns # NamespaceOf[a]
     /\ UNCHANGED <<notes, now, sweep, written>>
LookForSimilar(a, fact, given) ==
  LET near == Recall(NamespaceOf[a], fact, 1)
      found == near # <<>> /\ Similar(near[1].fact, fact)
      key == IF given # 0 THEN given ELSE written + Cardinality(Remembering) + 1
  IN /\ Looking(a)
     /\ turn' = [turn EXCEPT ![a] = Putting(fact, IF found THEN near[1].key ELSE key, Ttl)]
     /\ crowded' = \/ crowded \/ Remembering # {}
                   \/ 2 <= Cardinality(ExpiredUnder(NamespaceOf[a]))
                   \/ found /\ near[1].ns # NamespaceOf[a]
     /\ UNCHANGED <<notes, now, sweep, written>>

(* The extractor's key is the hash of the fact, and it has a time to live  *)
(* of its own: unless one is given its notes do not expire.                *)
FactKey(fact) == -fact
Extract(a, fact) ==
  /\ Looking(a)
  /\ turn' = [turn EXCEPT ![a] = Putting(fact, FactKey(fact), ExtractTtl)]
  /\ UNCHANGED <<notes, now, sweep, written, crowded>>

(* put: an upsert under namespace::key with a new expiry.                  *)
Put(a) ==
  /\ turn[a].at = "putting"
  /\ LET note == [ns |-> NamespaceOf[a], key |-> turn[a].key, fact |-> turn[a].fact,
                 expires |-> now + turn[a].ttl]
         same == {i \in 1..Len(notes) : IdOf(notes[i]) = IdOf(note)}
     IN notes' = IF same = {} THEN Append(notes, note)
                 ELSE [i \in 1..Len(notes) |-> IF i \in same THEN note ELSE notes[i]]
  /\ turn' = [turn EXCEPT ![a] = NoTurn]
  /\ written' = written + 1
  /\ UNCHANGED <<now, sweep, crowded>>

Forget(a, key) ==
  /\ turn[a].at = "idle"
  /\ notes' = Selected(notes, {n \in Range(notes) : IdOf(n) # Append(NamespaceOf[a], key)})
  /\ notes' # notes
  /\ UNCHANGED <<now, turn, sweep, written, crowded>>

Tick ==
  /\ now < MaxClock /\ now' = now + 1
  /\ UNCHANGED <<notes, turn, sweep, written, crowded>>

(* cleanup lists the expired notes, then deletes them by id.               *)
CleanupLists ==
  /\ sweep = {}
  /\ sweep' = {IdOf(n) : n \in Range(notes) \ Live}
  /\ sweep' # {}
  /\ UNCHANGED <<notes, now, turn, written, crowded>>

CleanupDeletes ==
  /\ sweep # {} /\ sweep' = {}
  /\ notes' = Selected(notes, {n \in Range(notes) : IdOf(n) \notin sweep})
  /\ UNCHANGED <<now, turn, written, crowded>>

MemoryNext ==
  \/ \E a \in Agents :
       \/ \E f \in Facts, key \in KnownKeys(a) \cup {0} : LookForSimilar(a, f, key)
       \/ \E f \in Facts : Extract(a, f)
       \/ Put(a)
       \/ \E key \in KnownKeys(a) : Forget(a, key)
  \/ Tick \/ CleanupLists \/ CleanupDeletes

(***************************************************************************)
(* Properties.                                                             *)
(***************************************************************************)

(* Recall is not thinned out by what has expired: as long as no more than  *)
(* k notes under the namespace have expired, a recall of k gives the k     *)
(* best live ones, deeper namespaces included, fewer only when there are   *)
(* no more.                                                                *)
RecallFindsTheBest ==
  \A ns \in {NamespaceOf[a] : a \in Agents}, f \in Facts :
    LET all  == Ranked(ns, f)
        live == Selected(all, Live)
    IN \A k \in RecallSizes :
         Len(all) - Len(live) <= k => Recall(ns, f, k) = FirstN(live, k)

(* "the new text overwrites that item instead of creating a duplicate":    *)
(* an agent's remembers leave one live note of a kind under the key they   *)
(* made, whatever the extractor, forget, expiry and cleanup do in between, *)
(* unless another write was under way when it searched, or two expired     *)
(* notes or one of a deeper namespace crowded the search.                  *)
OneLiveNoteOfAKind ==
  ~crowded =>
    \A i, j \in 1..Len(notes) :
      /\ notes[i].ns = notes[j].ns /\ notes[i].key > 0 /\ notes[j].key > 0
      /\ ~IsExpired(notes[i]) /\ ~IsExpired(notes[j])
      /\ Similar(notes[i].fact, notes[j].fact)
      => i = j

\* So what was remembered is there once, and found.
NotesAreOneAndFound == OneLiveNoteOfAKind /\ RecallFindsTheBest
=============================================================================
