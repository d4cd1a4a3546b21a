-------------------------- MODULE EscalationRules --------------------------
(***************************************************************************)
(* How urgent a text is by the rules that label the training set, what a   *)
(* trained bundle makes of it, and when the escalation agent flags a       *)
(* ticket.                                                                 *)
(*                                                                         *)
(* A text is the set of patterns it matches and its tone. Probabilities    *)
(* are in percent. A text is written, then the models are asked about all  *)
(* of it: nothing is known of how their answer depends on the text.        *)
(***************************************************************************)
EXTENDS Integers, FiniteSets, Sequences

CONSTANTS
  Phrase,          (* the patterns that texts may match                    *)
  Percent,         (* the probabilities a pipeline may give                *)
  Weight,          (* the class weights of a bundle, in percent            *)
  MinConfidence    (* settings.escalation_min_confidence                   *)

StrongHigh == {"time_pressure", "escalation_threat", "repeat_contact", "safety", "hardship",
               "fraud_or_privacy", "money_lost", "profanity"}
WeakHigh == {"strong_anger", "patience_lost", "shouting", "exclamation_burst", "very_negative"}
MediumRule == {"problem_reported", "frustration", "money_back", "stalled", "billing_issue",
               "action_request", "negative_sentiment"}
LowRule == {"calm_language"}

(* The rules about the tone; the others match patterns.                    *)
ToneRule == {"very_negative", "negative_sentiment"}
Pattern == (StrongHigh \cup WeakHigh \cup MediumRule \cup LowRule) \ ToneRule

ASSUME PhraseAssumption == Phrase \subseteq Pattern
ASSUME PercentAssumption == Percent \subseteq 0 .. 100 /\ 100 \in Weight /\ Weight \subseteq Nat /\ MinConfidence \in 0 .. 100

(* The compound score: above -0.4, at most that, at most -0.75.            *)
Tone == {"neutral", "negative", "very negative"}

Urgency == <<"low", "medium", "high">>
Class == 1 .. Len(Urgency)

VARIABLES
  words,      (* the patterns the text matches                             *)
  tone,
  model       (* what the models say of the ticket, and its order          *)

ticketVars == <<words, tone, model>>

Proba == {p \in [Class -> Percent] : p[1] + p[2] + p[3] = 100}
(* The first class has weight 1.                                           *)
Weights == {m \in [Class -> Weight] : m[1] = 100}

(* sure: the category's confidence is not below the minimum. refund: a     *)
(* request for one, on an order over the threshold.                        *)
ModelRow == [proba : Proba, weights : Weights, sure : BOOLEAN, refund : BOOLEAN]

Unasked == [proba |-> <<>>, weights |-> <<>>, sure |-> FALSE, refund |-> FALSE]

Asked == model # Unasked

TicketTypeOK == words \subseteq Phrase /\ tone \in Tone /\ model \in ModelRow \cup {Unasked}

TicketInit == words = {} /\ tone = "neutral" /\ model = Unasked

-----------------------------------------------------------------------------
(* Weak labels *)

Fired ==
  words \cup (CASE tone = "neutral" -> {}
                [] tone = "negative" -> {"negative_sentiment"}
                [] OTHER -> {"very_negative"})

CancelledByCalm == {"time_pressure", "negative_sentiment", "very_negative"}

MutantVotes == IF LowRule \subseteq Fired THEN {} ELSE Fired

(* _effective_votes: the rules that still vote after calm language.        *)
Votes == IF LowRule \subseteq Fired THEN Fired \ CancelledByCalm ELSE Fired

StrongSignals == Votes \cap StrongHigh

Weak == Cardinality(Votes \cap WeakHigh)
Medium == Votes \cap MediumRule # {}

MutantWeakLabel == IF StrongSignals # {} \/ (Weak >= 1 /\ Medium) THEN 3 ELSE IF Weak >= 1 \/ Medium THEN 2 ELSE 1

(* The label, as its class.                                                *)
WeakLabel ==
  IF StrongSignals # {} \/ Weak >= 2 \/ (Weak >= 1 /\ Medium) THEN 3
  ELSE IF Weak >= 1 \/ Medium THEN 2
  ELSE 1

-----------------------------------------------------------------------------
(* A trained bundle *)

(* argmax: the first of the largest.                                       *)
ArgMax(scores) ==
  CHOOSE c \in Class : /\ \A d \in Class : scores[d] <= scores[c]
                       /\ \A d \in 1 .. c - 1 : scores[d] < scores[c]

Scores == [c \in Class |-> model.proba[c] * model.weights[c]]
Predicted == ArgMax(Scores)

(* Of the label chosen, without its weight.                                *)
Confidence == model.proba[Predicted]

-----------------------------------------------------------------------------
(* Escalation *)

(* escalation_rules: the rules that apply.                                 *)
Reasons ==
  {reason \in {"urgency", "category confidence", "urgency confidence", "refund", "signal"} :
     CASE reason = "urgency" -> Urgency[Predicted] = "high"
       [] reason = "category confidence" -> ~model.sure
       [] reason = "urgency confidence" -> Confidence < MinConfidence
       [] reason = "refund" -> model.refund
       [] reason = "signal" -> Urgency[Predicted] # "high" /\ StrongSignals # {}}

NeedsEscalation == Reasons # {}

-----------------------------------------------------------------------------
(* A message is written, and the models are asked *)

(* What a text matches it still matches when more follows. But shouting is *)
(* a share of its words, and the compound score is one of the whole text.  *)
Write(phrase) ==
  /\ ~Asked
  /\ \/ words' = words \cup {phrase}
     \/ words' = (words \ {"shouting"}) \cup {phrase}
  /\ tone' \in Tone
  /\ UNCHANGED model

Predict ==
  /\ ~Asked
  /\ model' \in ModelRow
  /\ UNCHANGED <<words, tone>>

TicketNext == Predict \/ \E phrase \in Phrase : Write(phrase)

TicketSpec == TicketInit /\ [][TicketNext]_ticketVars

-----------------------------------------------------------------------------
(* Properties *)

StaysAsCalm == LowRule \subseteq Fired <=> LowRule \subseteq Fired'

NoMilder ==
  /\ tone = "negative" => tone' # "neutral"
  /\ tone = "very negative" => tone' = "very negative"

(* A text that matches more, in a tone as bad or worse, and no calmer, is  *)
(* never labelled less urgent for the training set: not even where one     *)
(* vote takes the place of another.                                        *)
MoreIsNoLess ==
  [][words \subseteq words' /\ NoMilder /\ StaysAsCalm => WeakLabel' >= WeakLabel]_ticketVars

(* Calm words take back what hedged wording triggers and nothing else: no  *)
(* safety risk, fraud or loss goes unlabelled, or unflagged whatever the   *)
(* models say, however politely it is told.                                *)
CalmKeepsStakes ==
  Fired \cap (StrongHigh \ {"time_pressure"}) # {} =>
    Urgency[WeakLabel] = "high" /\ (Asked => NeedsEscalation)

(* "a label picked only thanks to its weight reports a low confidence":    *)
(* low enough that the ticket is flagged.                                  *)
OverruledIsFlagged == Asked /\ Predicted # ArgMax(model.proba) => NeedsEscalation

(* A ticket with a lot at stake, or an urgency nobody is sure of, comes    *)
(* to a person.                                                            *)
StakesAreFlagged == CalmKeepsStakes /\ OverruledIsFlagged
=============================================================================
