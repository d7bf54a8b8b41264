------------------------------ MODULE ReviewLoop ------------------------------
(***************************************************************************)
(* Loops that a counter bounds (teff/node/gate.py, ask.py, interrupt.py):  *)
(* a draft goes round a reviewer and a Gate until the gate passes it, then *)
(* the operator is asked until Validate passes the answer; an answer that  *)
(* is refused has the draft written, and reviewed, again, and an answer    *)
(* that is unclear is asked for again.                                     *)
(***************************************************************************)
EXTENDS Naturals

CONSTANTS
  GateRounds,   \* max_rounds of the gate
  AskRounds,    \* max_rounds of the Ask
  MaxCount      \* bound: the counters stop there

ASSUME ReviewAssumption ==
  /\ {GateRounds, AskRounds} \subseteq Nat \ {0}
  /\ MaxCount \in Nat /\ GateRounds < MaxCount /\ AskRounds < MaxCount

VARIABLES
  review,     \* the configuration of the loops
  at,         \* the node that is next
  counts,     \* the counters in the state, by rounds_key
  verdict,    \* the reviewer's verdict
  answer,     \* the operator's answer, as the strategy or classifier reads it
  decision,   \* the key that the loop's edges read
  asked       \* history: answers heard

reviewVars == <<review, at, counts, verdict, answer, decision, asked>>

Reviews ==
  [on         : BOOLEAN,     \* whether these loops run
   classified : BOOLEAN,     \* an llm strategy: a classifier reads the answer
   clarifies  : BOOLEAN,     \* clear_field and clarify_value are set
   shared     : BOOLEAN]     \* both nodes keep the default rounds_key

GateKey == "rounds"
AskKey == IF review.shared THEN "rounds" ELSE "ask_rounds"

-----------------------------------------------------------------------------
ReviewInit ==
  /\ review \in Reviews
  /\ at = IF review.on THEN "draft" ELSE "off"
  /\ counts = [key \in {"rounds", "ask_rounds"} |-> 0]
  /\ verdict = "missing" /\ answer = "none" /\ decision = "none"
  /\ asked = 0

Counted(key) == [counts EXCEPT ![key] = IF @ < MaxCount THEN @ + 1 ELSE @]

WriteDraft ==
  /\ at = "draft"
  /\ at' = "review"
  /\ UNCHANGED <<review, counts, verdict, answer, decision, asked>>

\* The verdict is an object with the pass flag, or something else.
ReviewDraft ==
  /\ at = "review"
  /\ verdict' \in {"ok", "bad", "missing"}
  /\ at' = "gate"
  /\ UNCHANGED <<review, counts, answer, decision, asked>>

\* Gate.execute: a missing verdict passes, and so does the last round.
GatePasses(count) == verdict \in {"ok", "missing"} \/ count >= GateRounds

Gate ==
  /\ at = "gate"
  /\ counts' = Counted(GateKey)
  /\ at' = IF GatePasses(counts'[GateKey]) THEN "ask" ELSE "draft"
  /\ UNCHANGED <<review, verdict, answer, decision, asked>>

\* Interrupt.execute raises; the run is saved and ends.
Ask ==
  /\ at = "ask"
  /\ at' = "waiting"
  /\ UNCHANGED <<review, counts, verdict, answer, decision, asked>>

OperatorReplies ==
  /\ at = "waiting"
  /\ answer' \in {"yes", "no", "unclear"}
  /\ asked' = IF asked < MaxCount THEN asked + 1 ELSE asked
  /\ at' = IF review.classified THEN "classify" ELSE "validate"
  /\ UNCHANGED <<review, counts, verdict, decision>>

\* The classifier turns the answer into a verdict, or drops it.
Classify ==
  /\ at = "classify"
  /\ answer' \in {answer, "dropped"}
  /\ at' = "validate"
  /\ UNCHANGED <<review, counts, verdict, decision, asked>>

\* Only a verdict object can say that the answer is not clear; the strategies
\* match what they know and refuse the rest.
Clear == ~(review.classified /\ review.clarifies /\ answer = "unclear")

\* Mutant of Verdict: a dropped verdict passes, as it does at a gate.
VerdictLenient(count) ==
  IF count < AskRounds /\ ~Clear THEN "clarify"
  ELSE IF answer \in {"yes", "dropped"} \/ count >= AskRounds THEN "pass" ELSE "fail"

\* Validate.execute: what it writes as the decision.
Verdict(count) ==
  IF count < AskRounds /\ ~Clear THEN "clarify"
  ELSE IF answer = "yes" \/ count >= AskRounds THEN "pass" ELSE "fail"

Validate ==
  /\ at = "validate"
  /\ counts' = Counted(AskKey)
  /\ decision' = Verdict(counts'[AskKey])
  /\ at' = "decide"
  /\ UNCHANGED <<review, verdict, answer, asked>>

\* The edges of interrupt_loop: clarify, done, body.
ReviewBranch ==
  /\ at = "decide"
  /\ at' = CASE decision = "clarify" -> "ask"
             [] decision = "pass"    -> "done"
             [] decision = "fail"    -> "draft"
  /\ UNCHANGED <<review, counts, verdict, answer, decision, asked>>

NodeRuns ==
  WriteDraft \/ ReviewDraft \/ Gate \/ Ask \/ Classify \/ Validate \/ ReviewBranch
ReviewNext == NodeRuns \/ OperatorReplies

\* The executor goes on; the operator need not.
ReviewFairness == WF_reviewVars(NodeRuns)

-----------------------------------------------------------------------------
(* Properties.                                                              *)

\* The loops end whatever the reviewer, the classifier and the operator say, if
\* only the operator keeps answering: the counters are in the state and grow on
\* every path through the deciders.
LoopsEnd == []<>(at # "waiting") => (review.on ~> at = "done")

\* An answer that nobody can read does not have the draft written again: with
\* a clear field, the draft is reworked only after an answer that was read.
UnclearAsksAgain ==
  [][at = "decide" /\ at' = "draft" /\ review.clarifies /\ review.classified
       => answer # "unclear"]_reviewVars

\* The flow goes on only with a yes, or when the operator has been asked as
\* often as the Ask allows; that is true only if no other decider counts
\* under the same key.
DoneNeedsAYes ==
  [][at # "done" /\ at' = "done"
       => answer = "yes" \/ asked >= AskRounds \/ review.shared]_reviewVars

\* So it is the operator's answer that decides, and it does in the end
\* (node/ask.py, node/gate.py).
AnswersDecide == DoneNeedsAYes /\ UnclearAsksAgain /\ LoopsEnd
=============================================================================
