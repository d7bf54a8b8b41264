---------------------------- MODULE MCKnowledge ----------------------------
(* The knowledge stores side by side: each behaviour is one of them, the   *)
(* others stay as they were.                                               *)
EXTENDS VectorStores, DocumentCatalog, MemoryNotes, TLC

\* Two agents of one user, and one of all users; two requests; two calls.
CONSTANTS u1, u2, everyone, r1, r2, c1, c2

VARIABLE carrier
vars == <<carrier, storeVars, catalogVars, ragVars, memoryVars>>

\* The words of the question turn the order of the vectors round, so that the
\* best document of a hybrid search may lie behind the window.
MCCosine == [i \in {1, 2, 3} |-> 7 - i]
MCLexical == [i \in {1, 2, 3} |-> 3 * (i - 1)]
Str(t) == [kind |-> "str", text |-> t]
MCValues == {Missing,
             [list |-> FALSE, items |-> {Str("news")}],
             [list |-> FALSE, items |-> {Str("tech")}],
             [list |-> TRUE, items |-> {Str("news"), Str("tech")}],
             [list |-> FALSE, items |-> {[kind |-> "bool", text |-> "true"]}]}
Clause(op, atoms, subs) == [op |-> op, atoms |-> atoms, subs |-> subs]
News == Clause("eq", {Str("news")}, {})
Either == Clause("in", {Str("news"), Str("tech")}, {})
Tech == Clause("eq", {Str("tech")}, {})
MCFilters == {{}, {News}, {Either}, {Clause("and", {}, {{Either}, {Tech}})},
              {Clause("or", {}, {{News}, {Tech}})}, {Clause("or", {}, {{}, {Tech}})},
              {Either, Clause("or", {}, {{News}})},
              {Clause("eq", {[kind |-> "bool", text |-> "true"]}, {})}}

Doc(id, length, text) == [id |-> id, length |-> length, text |-> text]
MCCorpus == <<Doc("a", 4, 1), Doc("b", 3, 2), Doc("e", 1, 6)>>
MCArrivals == {<<Doc("c", 3, 3)>>, <<Doc("e", 2, 4), Doc("d", 1, 5)>>}
MCNamespaces == [a \in {u1, u2, everyone} |-> IF a = everyone THEN <<"users">> ELSE <<"users", "u1">>]
MCAlike == Permutations({u1, u2}) \cup Permutations({r1, r2}) \cup Permutations({c1, c2})
MCKinds == <<1, 1, 2>>

Init ==
  /\ carrier \in {"store", "catalog", "rag", "memory"}
  /\ StoreInit /\ CatalogInit /\ RagInit /\ MemoryInit
  /\ carrier # "store" => engine = Memory
  /\ files = <<1>>
  /\ carrier # "rag" => chunker = [strategy |-> "token", size |-> 2, overlap |-> 0]

Next ==
  /\ UNCHANGED carrier
  /\ \/ carrier = "store" /\ StoreNext /\ UNCHANGED <<catalogVars, ragVars, memoryVars>>
     \/ carrier = "catalog" /\ CatalogNext /\ UNCHANGED <<storeVars, ragVars, memoryVars>>
     \/ carrier = "rag" /\ RagNext /\ UNCHANGED <<storeVars, catalogVars, memoryVars>>
     \/ carrier = "memory" /\ MemoryNext /\ UNCHANGED <<storeVars, catalogVars, ragVars>>

Spec == Init /\ [][Next]_vars
=============================================================================
