--------------------------- MODULE VectorStores ---------------------------
(***************************************************************************)
(* The ten vector stores of teff/rag/stores behind the one interface of    *)
(* rag/base.py.  A store is a profile: what add does to an id it already   *)
(* holds, how many rows a search looks at, who applies the filter, whether *)
(* a hybrid score is blended in and which searches it refuses.  The        *)
(* similarity of an id's vector to the query is a constant; its metadata   *)
(* is the value of one field.                                              *)
(* FAISS keeps the vectors (index) apart from their names (rows) and       *)
(* writes them to two files.                                               *)
(***************************************************************************)
EXTENDS Integers, Sequences, FiniteSets, SequencesExt

CONSTANTS VectorIds, Cosine, Lexical, Values, Filters, Ks,
          ScanFactor, MaxOperations, MaxDeaths

VARIABLES engine,      \* the profile of the store
          rows,        \* what the store holds: <<[id, value], ...>>
          index,       \* the ids whose vectors the similarity index holds
          disk,        \* [rows, index]: what a fresh process would load
          opened,      \* FALSE: the sidecar cannot be parsed
          created,     \* an add has made the collection
          truth,       \* history: id -> the value last acknowledged for it
          again,       \* history: the ids that were added while they were held
          torn,        \* the two files were written by different operations
          operations, deaths

storeVars == <<engine, rows, index, disk, opened, created, truth, again, torn,
               operations, deaths>>

(* A stored value is a scalar or a list of atoms [kind, text]; a missing   *)
(* field is the empty list of no atoms.                                    *)
Missing == [list |-> FALSE, items |-> {}]

Profile(name, adds, reach, filters, refines, blends, lives, refuses) ==
  [name |-> name, adds |-> adds, reach |-> reach, filters |-> filters,
   refines |-> refines, blends |-> blends, lives |-> lives, refuses |-> refuses]

Memory   == Profile("memory", "replaces", "all", "none", TRUE, TRUE, "process", "nothing")
Sqlite   == Profile("sqlite", "replaces", "all", "none", TRUE, TRUE, "disk", "nothing")
Lance    == Profile("lance", "appends", "wide if narrowed", "none", TRUE, TRUE, "disk", "nothing")
Weaviate == Profile("weaviate", "replaces", "wide if narrowed", "none", TRUE, TRUE, "disk", "nothing")
Faiss    == Profile("faiss", "replaces", "wide if narrowed", "none", TRUE, TRUE, "two files", "nothing")
Pgvector == Profile("pgvector", "replaces", "k", "none", FALSE, FALSE, "disk", "every search")
Qdrant   == Profile("qdrant", "replaces", "k", "element", FALSE, FALSE, "disk", "no collection")
Chroma   == Profile("chroma", "keeps", "k", "typed", FALSE, FALSE, "disk", "lone or mixed parts")
Milvus   == Profile("milvus", "inserts", "wide if hybrid", "typed", FALSE, TRUE, "disk", "nothing")
Pinecone == Profile("pinecone", "replaces", "wide if narrowed", "element", FALSE, TRUE, "disk", "empty parts")
Stores == {Memory, Sqlite, Lance, Weaviate, Faiss, Pgvector, Qdrant, Chroma, Milvus, Pinecone}

(***************************************************************************)
(* The filter language: a set of clauses, each an equality, a membership,  *)
(* or a conjunction or disjunction of sub-filters.                         *)
(***************************************************************************)
Agrees(value, clause) ==
  IF clause.op = "in" THEN value.items \cap clause.atoms # {}
  ELSE ~value.list /\ value.items = clause.atoms

AllAgree(value, clauses) == \A clause \in clauses : Agrees(value, clause)

MatchFilter(value, filter) ==
  \A clause \in filter :
    CASE clause.op = "and" -> \A sub \in clause.subs : AllAgree(value, sub)
      [] clause.op = "or"  -> \E sub \in clause.subs : AllAgree(value, sub)
      [] OTHER             -> Agrees(value, clause)

(* In Qdrant and Pinecone a list agrees by any of its elements, in Chroma   *)
(* and Milvus by none.                                                     *)
NativeAgrees(way, value, clause) ==
  /\ value.items \cap clause.atoms # {}
  /\ way = "typed" => ~value.list

NativeMatch(way, value, filter) ==
  \A clause \in filter :
    LET subs == clause.subs \ {{}}
        All(sub) == \A c \in sub : NativeAgrees(way, value, c)
    IN CASE clause.op = "and" -> \A sub \in subs : All(sub)
         [] clause.op = "or"  -> subs = {} \/ \E sub \in subs : All(sub)
         [] OTHER             -> NativeAgrees(way, value, clause)

(* Whether a search runs at all.  PostgreSQL refuses each of pgvector's:    *)
(* LIMIT names the parameter of the query vector, or of the last condition. *)
(* Qdrant has no collection before the first add.  Chroma wants one         *)
(* operator at every level and two parts in a conjunction or disjunction;   *)
(* Pinecone, no part that is None.                                         *)
Answers(store, filter) ==
  CASE store.refuses = "every search"  -> FALSE
    [] store.refuses = "no collection" -> created
    [] store.refuses = "empty parts"   -> \A clause \in filter : {} \notin clause.subs
    [] store.refuses = "lone or mixed parts" ->
         /\ Cardinality(filter) <= 1
         /\ \A clause \in filter :
              clause.op \in {"and", "or"} =>
                LET subs == clause.subs \ {{}}
                IN  Cardinality(subs) > 1 /\ \A sub \in subs : Cardinality(sub) = 1
    [] OTHER -> TRUE

(***************************************************************************)
(* Search.  A candidate is a row with the similarity the index gave it; in *)
(* FAISS the row is the one at the vector's position.                      *)
(***************************************************************************)
Candidates(store, held, vectors) ==
  IF store.lives # "two files"
  THEN [i \in 1..Len(held) |-> [row |-> held[i], score |-> Cosine[held[i].id]]]
  ELSE LET known == {i \in 1..Len(vectors) : i <= Len(held)}
       IN [i \in 1..Cardinality(known) |-> [row |-> held[i], score |-> Cosine[vectors[i]]]]

ByScore(a, b) == a.score > b.score
(* (1 - alpha) * cosine + alpha * lexical with alpha = 0.4, in fifths      *)
Blend(c) == [c EXCEPT !.score = 3 * @ + 2 * Lexical[c.row.id]]
FirstOf(s, n) == SubSeq(s, 1, IF n < Len(s) THEN n ELSE Len(s))

FinalizeResults(candidates, k, filter, hybrid) ==
  LET kept   == SelectSeq(candidates, LAMBDA c : MatchFilter(c.row.value, filter))
      scored == IF hybrid THEN [i \in 1..Len(kept) |-> Blend(kept[i])] ELSE kept
  IN FirstOf(SortSeq(scored, ByScore), k)

ScanWindow(store, k, filter, hybrid, total) ==
  CASE store.reach = "all" -> total
    [] store.reach = "wide if narrowed" -> IF filter # {} \/ hybrid THEN ScanFactor * k ELSE k
    [] store.reach = "wide if hybrid" -> IF hybrid THEN ScanFactor * k ELSE k
    [] OTHER -> k

Search(store, held, vectors, k, filter, hybrid) ==
  LET all      == Candidates(store, held, vectors)
      eligible == IF store.filters = "none" THEN all
                  ELSE SelectSeq(all, LAMBDA c : NativeMatch(store.filters, c.row.value, filter))
      seen     == FirstOf(SortSeq(eligible, ByScore), ScanWindow(store, k, filter, hybrid, Len(all)))
  IN FinalizeResults(seen, k, IF store.refines THEN filter ELSE {}, hybrid /\ store.blends)

(***************************************************************************)
(* The operations.                                                         *)
(***************************************************************************)
Without(held, ids) == SelectSeq(held, LAMBDA r : r.id \notin ids)
Holds(held, id) == \E i \in 1..Len(held) : held[i].id = id

Add(store, held, row) ==
  CASE store.adds \in {"appends", "inserts"} -> Append(held, row)
    [] store.adds = "keeps" /\ Holds(held, row.id) -> held
    [] Holds(held, row.id) -> [i \in 1..Len(held) |-> IF held[i].id = row.id THEN row ELSE held[i]]
    [] OTHER -> Append(held, row)

(* Milvus upserts the merged row: of rows under one id it leaves one.       *)
UpdateMetadata(store, held, row) ==
  IF store.adds = "inserts" /\ Holds(held, row.id)
  THEN Append(Without(held, {row.id}), row)
  ELSE [i \in 1..Len(held) |-> IF held[i].id = row.id THEN row ELSE held[i]]

Operations ==
  [op : {"add", "update"}, id : VectorIds, value : Values]
    \cup [op : {"delete"}, id : VectorIds, value : {Missing}]
    \cup {[op |-> "clear", id |-> id, value |-> Missing] : id \in {CHOOSE id \in VectorIds : TRUE}}

RowsAfter(store, held, o) ==
  CASE o.op = "add"    -> Add(store, held, [id |-> o.id, value |-> o.value])
    [] o.op = "update" -> UpdateMetadata(store, held, [id |-> o.id, value |-> o.value])
    [] o.op = "delete" -> Without(held, {o.id})
    [] OTHER           -> <<>>

(* Without a collection Qdrant raises on whatever is not an add. *)
Accepts(store, o) == store.refuses = "no collection" /\ o.op # "add" => created

(* What the caller was promised: the last value added or merged under an   *)
(* id is the one it holds.                                                 *)
TruthAfter(known, o) ==
  CASE o.op = "add"    -> [id \in DOMAIN known \cup {o.id} |-> IF id = o.id THEN o.value ELSE known[id]]
    [] o.op = "update" -> [id \in DOMAIN known |-> IF id = o.id THEN o.value ELSE known[id]]
    [] o.op = "delete" -> [id \in DOMAIN known \ {o.id} |-> known[id]]
    [] OTHER           -> [id \in {} |-> Missing]

AgainAfter(known, o) ==
  CASE o.op = "add"    -> again \cup ({o.id} \cap DOMAIN known)
    [] o.op = "delete" -> again \ {o.id}
    [] o.op = "clear"  -> {}
    [] OTHER           -> again

Names(held) == [i \in 1..Len(held) |-> held[i].id]

(* _rebuild re-indexes every vector; update_metadata does not call it.     *)
RebuildOnAdd(o, held) == IF o.op = "add" THEN Names(held) ELSE index
Rebuild(o, held) == IF o.op = "update" THEN index ELSE Names(held)

StoreInit ==
  /\ engine \in Stores
  /\ rows = <<>> /\ index = <<>> /\ disk = [rows |-> <<>>, index |-> <<>>]
  /\ opened = TRUE /\ created = FALSE
  /\ truth = [id \in {} |-> Missing] /\ again = {} /\ torn = FALSE
  /\ operations = 0 /\ deaths = 0

Operate(o) ==
  /\ opened /\ operations < MaxOperations
  /\ Accepts(engine, o)
  /\ rows' = RowsAfter(engine, rows, o)
  /\ index' = Rebuild(o, rows')
  /\ disk' = [rows |-> rows', index |-> index']
  /\ created' = (created \/ o.op = "add")
  /\ truth' = TruthAfter(truth, o) /\ again' = AgainAfter(truth, o)
  /\ torn' = (torn /\ o.op = "update")
  /\ operations' = operations + 1
  /\ UNCHANGED <<engine, opened, deaths>>

(* A process that ends between operations: an in-memory store is gone, the *)
(* others are opened again from what they persisted.                       *)
Reopen ==
  /\ deaths < MaxDeaths /\ opened
  /\ deaths' = deaths + 1
  /\ IF engine.lives = "process"
     THEN rows' = <<>> /\ index' = <<>> /\ disk' = [rows |-> <<>>, index |-> <<>>]
          /\ truth' = [id \in {} |-> Missing] /\ again' = {}
     ELSE rows' = disk.rows /\ index' = disk.index /\ UNCHANGED <<disk, truth, again>>
  /\ UNCHANGED <<engine, opened, created, torn, operations>>

(* FAISS: write_index is done and the process ends before the sidecar is   *)
(* replaced, or after open() truncated it.                                 *)
DiePersisting(o) ==
  /\ engine.lives = "two files" /\ opened
  /\ operations < MaxOperations /\ deaths < MaxDeaths
  /\ index' = Rebuild(o, RowsAfter(engine, rows, o))
  /\ rows' = disk.rows
  /\ disk' = [disk EXCEPT !.index = index']
  /\ opened' \in BOOLEAN
  /\ torn' = TRUE
  /\ operations' = operations + 1 /\ deaths' = deaths + 1
  /\ UNCHANGED <<engine, created, truth, again>>

StoreNext ==
  \/ \E o \in Operations : Operate(o) \/ DiePersisting(o)
  \/ Reopen

(***************************************************************************)
(* Properties.                                                             *)
(***************************************************************************)
(* Every acknowledged document that satisfies the filter, best first.      *)
Ranking(filter, hybrid) ==
  LET ids == SetToSeq(DOMAIN truth)
      known == [i \in 1..Len(ids) |->
                  [row |-> [id |-> ids[i], value |-> truth[ids[i]]], score |-> Cosine[ids[i]]]]
  IN FinalizeResults(known, Len(known), filter, hybrid)

IsScalar(value) == ~value.list
IsPlain(filter) ==
  \A clause \in filter : /\ clause.op = "in" => \A a \in clause.atoms : a.kind = "str"
                         /\ {} \notin clause.subs
                         /\ clause.op = "or" => clause.subs # {}

(* An id that was added twice is two rows, or the older one, in a store     *)
(* that does not replace.                                                  *)
HoldsWhatItWasTold == opened /\ (engine.adds = "replaces" \/ again = {})

(* What a store lists (entries(), and in Pinecone get()) is what was        *)
(* acknowledged, once each, also after a restart and when FAISS's files     *)
(* were torn apart, of which the sidecar is the one that is listed.        *)
EntriesAreTrue ==
  HoldsWhatItWasTold =>
    /\ Len(rows) = Cardinality(DOMAIN truth)
    /\ \A i \in 1..Len(rows) : rows[i].id \in DOMAIN truth /\ rows[i].value = truth[rows[i].id]

(* The window of a search that filters or blends afterwards is cut by the  *)
(* similarity alone: a document is behind it when ScanFactor * k others     *)
(* that the store looks at are nearer.                                     *)
BehindWindow(id, k, filter, hybrid) ==
  /\ \/ engine.reach = "wide if narrowed" /\ (filter # {} \/ hybrid)
     \/ engine.reach = "wide if hybrid" /\ hybrid
  /\ LET looked == {other \in DOMAIN truth : engine.refines \/ MatchFilter(truth[other], filter)}
     IN  Cardinality({other \in looked : Cosine[other] > Cosine[id]}) >= ScanFactor * k

(* Whatever store a workflow names, the same documents and the same        *)
(* question give the same ranked answer: the store's own search, with its  *)
(* translated filter and its scan window, returns the k best of what       *)
(* match_filter, blend_scores and a sort over the last acknowledged values *)
(* would, less only the documents that lie behind the window.  That is so   *)
(* of every search that the store answers, also after a restart, unless    *)
(* FAISS's two files were torn apart by a death and no rebuild followed;    *)
(* with scalar values, a filter of non-empty parts, and no blending asked   *)
(* of a store that documents none.                                         *)
StoresAnswerAlike ==
  HoldsWhatItWasTold /\ ~torn /\ (\A id \in DOMAIN truth : IsScalar(truth[id])) =>
    \A k \in Ks, filter \in {f \in Filters : IsPlain(f) /\ Answers(engine, f)},
       hybrid \in {h \in BOOLEAN : h => engine.blends} :
      LET inWindow == SelectSeq(Ranking(filter, hybrid),
                                LAMBDA c : ~BehindWindow(c.row.id, k, filter, hybrid))
      IN  Search(engine, rows, index, k, filter, hybrid) = FirstOf(inWindow, k)

(* A search never returns a document its filter excludes, in any store,    *)
(* however narrow the window and however often an id was added: each hit    *)
(* with a scalar value satisfies match_filter by the metadata it carries.   *)
HitsSatisfyTheFilter ==
  \A k \in Ks, filter \in {f \in Filters : IsPlain(f) /\ Answers(engine, f)}, hybrid \in BOOLEAN :
    LET hits == Search(engine, rows, index, k, filter, hybrid)
    IN \A i \in 1..Len(hits) : IsScalar(hits[i].row.value) => MatchFilter(hits[i].row.value, filter)

\* So a search finds what it should, and nothing else, whatever the store.
SearchesAreRight == EntriesAreTrue /\ StoresAnswerAlike /\ HitsSatisfyTheFilter
=============================================================================
