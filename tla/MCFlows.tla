-------------------------------- MODULE MCFlows --------------------------------
(***************************************************************************)
(* What an author writes and what it becomes: a flow built by calls and    *)
(* written as a document, a session of a team or of the review loops, a    *)
(* document that is validated and loaded, a provider that is looked up.    *)
(* Init chooses which; the others stay at rest.                            *)
(***************************************************************************)
EXTENDS WorkflowDocument, SupervisedTeam, ReviewLoop, DocumentValidation

Pipeline == <<"planner", "writer", "editor">>

VARIABLE carrier
vars == <<carrier, authoringVars, teamVars, reviewVars, paperVars, lookupVars>>

\* Teams that differ in what the guards do.
MCTeams ==
  {t \in Teams : /\ t.done \in {{}, {"planner"}, {"writer", "editor"}}
                 /\ t.mode = "any" => Cardinality(t.done) > 1
                 /\ t.fallback \in {NoAgent, "planner", "advisor"}
                 /\ t.ordered => t.heard}

TeamRests ==
  TeamInit /\ turns = 0
    /\ team = [fallback |-> NoAgent, done |-> {}, mode |-> "all", ordered |-> FALSE,
               heard |-> FALSE, transient |-> TRUE]
ReviewRests ==
  ReviewInit /\ review = [on |-> FALSE, classified |-> FALSE, clarifies |-> FALSE,
                          shared |-> FALSE]
PaperRests ==
  /\ paper = [step |-> GoodStep, tool |-> GoodTool, state |-> GoodState]
  /\ reported = "unread" /\ loading = "unread"
LookupRests ==
  /\ lookup = [layer |-> "python", block |-> <<>>, default |-> "", node |-> "",
               nested |-> FALSE]
  /\ registry = <<>> /\ progress = "written"

Init ==
  /\ DocumentInit
  /\ carrier \in {"document", "team", "review", "paper", "lookup"}
  /\ IF carrier = "team" THEN TeamInit /\ team \in MCTeams /\ turns = MaxTurns ELSE TeamRests
  /\ IF carrier = "review" THEN ReviewInit /\ review.on ELSE ReviewRests
  /\ IF carrier = "paper" THEN PaperInit ELSE PaperRests
  /\ IF carrier = "lookup" THEN LookupInit ELSE LookupRests

Next ==
  /\ UNCHANGED carrier
  /\ \/ /\ carrier = "document" /\ DocumentNext
        /\ UNCHANGED <<teamVars, reviewVars, paperVars, lookupVars>>
     \/ /\ carrier = "team" /\ TeamNext
        /\ UNCHANGED <<authoringVars, reviewVars, paperVars, lookupVars>>
     \/ /\ carrier = "review" /\ ReviewNext
        /\ UNCHANGED <<authoringVars, teamVars, paperVars, lookupVars>>
     \/ /\ carrier = "paper" /\ PaperNext
        /\ UNCHANGED <<authoringVars, teamVars, reviewVars, lookupVars>>
     \/ /\ carrier = "lookup" /\ LookupNext
        /\ UNCHANGED <<authoringVars, teamVars, reviewVars, paperVars>>

\* Fairness of the carriers that loop, whose steps are disabled at rest.
Spec ==
  /\ Init /\ [][Next]_vars
  /\ TeamFairness /\ ReviewFairness
=============================================================================
