------------------------- MODULE TriageCorrections -------------------------
(***************************************************************************)
(* A ticket's labels and a reviewer's correction of them. Each agent run   *)
(* labels the ticket anew (a rerun may use newer models); a reviewer sets, *)
(* changes or clears a correction from the page he has open, also after    *)
(* the ticket is resolved; the corrections are exported as training rows.  *)
(*                                                                         *)
(* One ticket: nothing here reads two. Runs come one at a time             *)
(* (TicketLifecycle has their steps and their overlaps); a run's only step *)
(* of interest here is the commit of its triage node. Requests overlap,    *)
(* each with the row its session loaded, and so does the export's script.  *)
(***************************************************************************)
EXTENDS Naturals, Sequences

CONSTANTS
  Category,        (* TicketCategory                                       *)
  Urgency,         (* TicketUrgency                                        *)
  Null,            (* the null of a label and of a corrected_* column      *)
  Reviewer,        (* signed-in users                                      *)
  Nobody,          (* the null of corrected_by                             *)
  MaxPredictions   (* bound on how often the ticket is labelled            *)

ASSUME NullAssumption == Null \notin Category /\ Null \notin Urgency
ASSUME NobodyAssumption == Nobody \notin Reviewer
ASSUME MaxPredictionsAssumption == MaxPredictions \in Nat

VARIABLES
  status,       (* tickets.status                                          *)
  label,        (* tickets.category and urgency                            *)
  correction,   (* tickets.corrected_category and corrected_urgency        *)
  by,           (* tickets.corrected_by                                    *)
  at,           (* tickets.corrected_at: how many predictions there were;  *)
                (* 0 for null                                              *)
  predictions,  (* table model_predictions by created_at, one entry for    *)
                (* the two rows of a triage; its index is their version    *)
  run,          (* the run that is alive: "triage" until it has labelled   *)
  classified,   (* the newest run's trace has a triage output              *)
  desk,         (* each reviewer's open form or request in flight          *)
  export        (* the training row the export is making, or has made      *)

row == <<label, correction, by, at>>
vars == <<status, label, correction, by, at, predictions, run, classified, desk, export>>

-----------------------------------------------------------------------------
Labels == [category : Category, urgency : Urgency]

MaybeLabels == [category : Category \cup {Null}, urgency : Urgency \cup {Null}]

None == [category |-> Null, urgency |-> Null]

(* What a session holds of the row.                                        *)
Loaded == [label : MaybeLabels, correction : MaybeLabels, by : Reviewer \cup {Nobody}, at : Nat]

(* form: the page shows the form, opened on `view`; commit: the request    *)
(* asks for `view` and has read the row.                                   *)
DeskState == [pc : {"idle", "form", "commit"}, view : MaybeLabels, loaded : Loaded]

Nothing == [label |-> None, correction |-> None, by |-> Nobody, at |-> 0]

Free == [pc |-> "idle", view |-> None, loaded |-> Nothing]

(* tickets, row: after the first and the second SELECT of the export.      *)
(* since: the predictions there were at the first (a record of the model's *)
(* own).                                                                   *)
RowState == [pc : {"idle", "tickets", "row"}, predicted : Labels \cup {None},
             since : Nat, version : Nat]

NoRow == [pc |-> "idle", predicted |-> None, since |-> 0, version |-> 0]

TypeOK ==
  /\ status \in {"new", "in_progress", "awaiting_review", "resolved"}
  /\ label \in Labels \cup {None}
  /\ correction \in MaybeLabels
  /\ by \in Reviewer \cup {Nobody}
  /\ at \in 0 .. Len(predictions)
  /\ predictions \in Seq(Labels)
  /\ Len(predictions) <= MaxPredictions
  /\ run \in {"idle", "triage", "rest"}
  /\ classified \in BOOLEAN
  /\ desk \in [Reviewer -> DeskState]
  /\ export \in RowState
  /\ run # "idle" <=> status = "in_progress"

Init ==
  /\ status = "new"
  /\ label = None
  /\ correction = None
  /\ by = Nobody
  /\ at = 0
  /\ predictions = <<>>
  /\ run = "idle"
  /\ classified = FALSE
  /\ desk = [h \in Reviewer |-> Free]
  /\ export = NoRow

-----------------------------------------------------------------------------
(* Agent runs *)

(* A background task begins: the first run, or one asked for on the page   *)
(* of a ticket that awaits review.                                         *)
StartRun ==
  /\ status \in {"new", "awaiting_review"}
  /\ status' = "in_progress"
  /\ run' = "triage"
  /\ classified' = FALSE
  /\ UNCHANGED <<row, predictions, desk, export>>

MutantTriage ==
  /\ run = "triage"
  /\ Len(predictions) < MaxPredictions
  /\ \E predicted \in Labels :
       /\ label' = IF label = None THEN predicted ELSE label
       /\ predictions' = Append(predictions, predicted)
  /\ run' = "rest"
  /\ classified' = TRUE
  /\ UNCHANGED <<status, correction, by, at, desk, export>>

(* The triage node commits the labels with the rows that record them. What *)
(* the served models predict may differ from an earlier run's.             *)
Triage ==
  /\ run = "triage"
  /\ Len(predictions) < MaxPredictions
  /\ \E predicted \in Labels :
       /\ label' = predicted
       /\ predictions' = Append(predictions, predicted)
  /\ run' = "rest"
  /\ classified' = TRUE
  /\ UNCHANGED <<status, correction, by, at, desk, export>>

(* The run ends, in the queue, whether it came to its end or a node (the   *)
(* triage included) raised.                                                *)
EndRun ==
  /\ run # "idle"
  /\ status' = "awaiting_review"
  /\ run' = "idle"
  /\ UNCHANGED <<row, predictions, classified, desk, export>>

(* The process restarts: requests in flight are gone, the run begins again.*)
Restart ==
  /\ run' = IF run = "idle" THEN run ELSE "triage"
  /\ classified' = (classified /\ run = "idle")
  /\ desk' = [h \in Reviewer |-> IF desk[h].pc = "commit" THEN Free ELSE desk[h]]
  /\ UNCHANGED <<status, row, predictions, export>>

(* A reviewer approves a draft.                                            *)
Resolve ==
  /\ status = "awaiting_review"
  /\ status' = "resolved"
  /\ UNCHANGED <<row, predictions, run, classified, desk, export>>

-----------------------------------------------------------------------------
(* Corrections *)

Or(value, default) == IF value = Null THEN default ELSE value

(* effectiveCategory and effectiveUrgency: what pages show and sort by.    *)
Effective == [category |-> Or(correction.category, label.category),
              urgency  |-> Or(correction.urgency, label.urgency)]

CanCorrect == label # None /\ classified /\ status \notin {"new", "in_progress"}

(* The card's form opens on the effective labels.                          *)
OpenForm(h) ==
  /\ desk[h].pc = "idle"
  /\ CanCorrect
  /\ desk' = [desk EXCEPT ![h] = [pc |-> "form", view |-> Effective, loaded |-> Nothing]]
  /\ UNCHANGED <<status, row, predictions, run, classified, export>>

Cancel(h) ==
  /\ desk[h].pc = "form"
  /\ desk' = [desk EXCEPT ![h] = Free]
  /\ UNCHANGED <<status, row, predictions, run, classified, export>>

(* The form is sent, changed, and the request reads the row; an untriaged  *)
(* ticket is a 409.                                                        *)
Submit(h) ==
  /\ desk[h].pc = "form"
  /\ \E wanted \in Labels \ {desk[h].view} :
       desk' = [desk EXCEPT ![h] =
                  IF label = None
                    THEN Free
                    ELSE [pc |-> "commit", view |-> wanted,
                          loaded |-> [label |-> label, correction |-> correction,
                                      by |-> by, at |-> at]]]
  /\ UNCHANGED <<status, row, predictions, run, classified, export>>

MutantDisagreement(wanted, own) == wanted

(* A value equal to the model's label is stored as null.                   *)
Disagreement(wanted, own) == IF wanted = own THEN Null ELSE wanted

(* What a COMMIT leaves in a column: the session's value if it differs     *)
(* from the value the session loaded, otherwise what the row holds by now. *)
Column(stored, loaded, value) == IF value = loaded THEN stored ELSE value

Corrected(h) ==
  [category |-> Disagreement(desk[h].view.category, desk[h].loaded.label.category),
   urgency  |-> Disagreement(desk[h].view.urgency, desk[h].loaded.label.urgency)]

MutantKeepSigned(h) ==
  LET loaded == desk[h].loaded
      new    == Corrected(h)
  IN  /\ desk[h].pc = "commit"
      /\ correction' = [category |-> Column(correction.category, loaded.correction.category, new.category),
                        urgency  |-> Column(correction.urgency, loaded.correction.urgency, new.urgency)]
      /\ by' = Column(by, loaded.by, h)
      /\ at' = IF new # None THEN Len(predictions) ELSE Column(at, loaded.at, 0)
      /\ desk' = [desk EXCEPT ![h] = Free]
      /\ UNCHANGED <<status, label, predictions, run, classified, export>>

MutantMerge(h) ==
  LET loaded == desk[h].loaded
      new    == Corrected(h)
  IN  /\ desk[h].pc = "commit"
      /\ correction' = [category |-> Or(new.category, correction.category),
                        urgency  |-> Or(new.urgency, correction.urgency)]
      /\ by' = Column(by, loaded.by, IF new # None THEN h ELSE Nobody)
      /\ at' = IF new # None THEN Len(predictions) ELSE Column(at, loaded.at, 0)
      /\ desk' = [desk EXCEPT ![h] = Free]
      /\ UNCHANGED <<status, label, predictions, run, classified, export>>

(* correct_triage assigns the four columns; a new time always differs from *)
(* the one loaded.                                                         *)
CommitCorrection(h) ==
  LET loaded == desk[h].loaded
      new    == Corrected(h)
  IN  /\ desk[h].pc = "commit"
      /\ correction' = [category |-> Column(correction.category, loaded.correction.category, new.category),
                        urgency  |-> Column(correction.urgency, loaded.correction.urgency, new.urgency)]
      /\ by' = Column(by, loaded.by, IF new # None THEN h ELSE Nobody)
      /\ at' = IF new # None THEN Len(predictions) ELSE Column(at, loaded.at, 0)
      /\ desk' = [desk EXCEPT ![h] = Free]
      /\ UNCHANGED <<status, label, predictions, run, classified, export>>

Correcting(h) == OpenForm(h) \/ Cancel(h) \/ Submit(h) \/ CommitCorrection(h)

-----------------------------------------------------------------------------
(* The row of the ticket in an export (collect): two SELECTs, each of what *)
(* is committed by then. The first reads the ticket, if it is corrected;   *)
SelectTickets ==
  /\ export.pc # "tickets" /\ correction # None
  /\ export' = [pc |-> "tickets", predicted |-> label, since |-> Len(predictions), version |-> 0]
  /\ UNCHANGED <<status, row, predictions, run, classified, desk>>

(* the second its predictions, of which the newest gives the version.      *)
SelectPredictions ==
  /\ export.pc = "tickets"
  /\ export' = [export EXCEPT !.pc = "row", !.version = Len(predictions)]
  /\ UNCHANGED <<status, row, predictions, run, classified, desk>>

Exporting == SelectTickets \/ SelectPredictions

-----------------------------------------------------------------------------
Next ==
  \/ StartRun \/ Triage \/ EndRun
  \/ Restart
  \/ Resolve
  \/ Exporting
  \/ \E h \in Reviewer : Correcting(h)

Spec == Init /\ [][Next]_vars

(* Reviewers who take turns: one form or request at a time, and a rerun    *)
(* only when none is open.                                                 *)
Alone(h) == \A g \in Reviewer \ {h} : desk[g].pc = "idle"

TurnNext ==
  \/ StartRun /\ \A h \in Reviewer : desk[h].pc = "idle"
  \/ Triage \/ EndRun
  \/ Restart
  \/ Resolve
  \/ Exporting
  \/ \E h \in Reviewer : Correcting(h) /\ Alone(h)

TurnSpec == Init /\ [][TurnNext]_vars

-----------------------------------------------------------------------------
(* Properties *)

(* A ticket that counts as corrected says by whom and when, and one that   *)
(* does not says neither, through corrections set, changed and cleared by  *)
(* different reviewers.                                                    *)
Signed ==
  /\ (correction # None) <=> (by # Nobody)
  /\ (correction # None) <=> (at # 0)

(* "only disagreements are corrections": one that agrees with the label is *)
(* older than the prediction it agrees with.                               *)
AgreesOnlyIfRelabelled ==
  /\ correction.category # Null /\ correction.category = label.category => at < Len(predictions)
  /\ correction.urgency # Null /\ correction.urgency = label.urgency => at < Len(predictions)

(* A training row names the version that predicted its labels, or that of  *)
(* a rerun's triage that was committed between the two SELECTs; never an   *)
(* older one. ("The model version behind each ticket's current label is    *)
(* its newest prediction": of the label as it is by then, not as read.)    *)
ExportNamesItsModel ==
  export.pc = "row" =>
    /\ export.since \in 1 .. export.version /\ export.version \in DOMAIN predictions
    /\ predictions[export.since] = export.predicted

(* "replaces any earlier correction": after a reviewer's request the       *)
(* ticket shows what he asked for, whatever was corrected before.          *)
TakesEffect == [][\A h \in Reviewer : CommitCorrection(h) => Effective' = desk[h].view]_vars
=============================================================================
