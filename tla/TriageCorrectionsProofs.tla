---------------------- MODULE TriageCorrectionsProofs ----------------------
(***************************************************************************)
(* Proofs about reviewers' corrections: about TriageCorrections, for any   *)
(* labels, reviewers and number of predictions, when reviewers take turns; *)
(* and about TrainingLoop, which learns from them, for any corrections and *)
(* any number of exports and training runs at once.                        *)
(***************************************************************************)
EXTENDS TriageCorrections, TrainingLoop, FiniteSetTheorems, TLAPS

(* The newest prediction is the label.                                     *)
Recorded ==
  /\ label = None <=> predictions = <<>>
  /\ label # None => label = predictions[Len(predictions)]
  /\ correction # None => label # None

(* An open form or a request meets no run and no other reviewer, and what  *)
(* the request has read is still what the row holds.                       *)
Undisturbed ==
  \A h \in Reviewer : desk[h].pc # "idle" =>
    /\ run = "idle"
    /\ label # None
    /\ Alone(h)
    /\ desk[h].pc = "commit" =>
         /\ desk[h].view \in Labels
         /\ desk[h].loaded = [label |-> label, correction |-> correction, by |-> by, at |-> at]

(* What the export has read of the ticket was predicted by then.           *)
ExportFollows ==
  export.pc # "idle" =>
    /\ export.since \in 1 .. Len(predictions)
    /\ predictions[export.since] = export.predicted
    /\ export.pc = "row" => export.version \in export.since .. Len(predictions)

IInv == TypeOK /\ Recorded /\ Undisturbed /\ Signed /\ AgreesOnlyIfRelabelled /\ ExportFollows

LEMMA NullIsNoLabel ==
  /\ None \notin Labels
  /\ \A c \in Category : c # Null
  /\ \A u \in Urgency : u # Null
  BY NullAssumption DEF None, Labels

LEMMA InitOK == Init => IInv
<1> SUFFICES ASSUME Init PROVE IInv
  OBVIOUS
<1>1. TypeOK
  <2>1. predictions \in Seq(Labels) /\ Len(predictions) = 0 /\ at \in 0 .. Len(predictions)
    BY DEF Init
  <2>2. None \in MaybeLabels /\ Free \in DeskState /\ NoRow \in RowState
    BY DEF DeskState, Loaded, MaybeLabels, None, Nothing, Free, NoRow, RowState
  <2>3. desk \in [Reviewer -> DeskState]
    BY <2>2 DEF Init
  <2>4. Len(predictions) <= MaxPredictions
    BY <2>1, MaxPredictionsAssumption
  <2>5. correction \in MaybeLabels /\ export \in RowState
    BY <2>2 DEF Init
  <2> QED BY <2>1, <2>3, <2>4, <2>5 DEF Init, TypeOK
<1>2. Recorded /\ Signed /\ AgreesOnlyIfRelabelled /\ ExportFollows
  BY DEF Init, Recorded, Signed, AgreesOnlyIfRelabelled, None, ExportFollows, NoRow
<1>3. Undisturbed
  BY DEF Init, Undisturbed, Free
<1> QED BY <1>1, <1>2, <1>3 DEF IInv

(* What a request that has read the row as it still is will commit.        *)
LEMMA CommitOf ==
  ASSUME IInv, NEW h \in Reviewer, CommitCorrection(h)
  PROVE  /\ correction' = Corrected(h)
         /\ by' = (IF Corrected(h) # None THEN h ELSE Nobody)
         /\ at' = (IF Corrected(h) # None THEN Len(predictions) ELSE 0)
         /\ desk' = [desk EXCEPT ![h] = Free]
         /\ UNCHANGED <<status, label, predictions, run, classified, export>>
         /\ Corrected(h) = [category |-> Disagreement(desk[h].view.category, label.category),
                            urgency  |-> Disagreement(desk[h].view.urgency, label.urgency)]
         /\ desk[h].view \in Labels
         /\ label \in Labels
         /\ Alone(h)
<1>1. /\ desk[h].pc = "commit"
      /\ desk[h].loaded = [label |-> label, correction |-> correction, by |-> by, at |-> at]
      /\ desk[h].view \in Labels
      /\ label \in Labels
      /\ Alone(h)
  BY DEF IInv, Undisturbed, CommitCorrection, TypeOK
<1>2. correction = [category |-> correction.category, urgency |-> correction.urgency]
  BY DEF IInv, TypeOK, MaybeLabels
<1> QED BY <1>1, <1>2 DEF CommitCorrection, Corrected, Column

(* More predictions change nothing of what has been read.                  *)
LEMMA ExportStays ==
  ASSUME TypeOK, ExportFollows, UNCHANGED export, Len(predictions') \in Nat,
         Len(predictions') >= Len(predictions),
         \A i \in 1 .. Len(predictions) : predictions'[i] = predictions[i]
  PROVE  ExportFollows'
<1>1. Len(predictions) \in Nat /\ export.since \in Nat /\ export.version \in Nat
  BY DEF TypeOK, RowState
<1> QED BY <1>1 DEF ExportFollows

(* A row is read when its ticket is labelled, and its newest prediction is *)
(* the label; its version is none that was there before.                   *)
LEMMA ExportReads ==
  ASSUME TypeOK, Recorded, ExportFollows, Exporting
  PROVE  /\ TypeOK' /\ Recorded' /\ ExportFollows'
         /\ UNCHANGED <<status, label, correction, by, at, predictions, run, classified, desk>>
<1>1. UNCHANGED <<status, label, correction, by, at, predictions, run, classified, desk>>
  BY DEF Exporting, SelectTickets, SelectPredictions, row
<1>2. Len(predictions) \in Nat /\ export \in RowState
  BY DEF TypeOK
<1>3. export' \in RowState /\ ExportFollows'
  <2>1. CASE SelectTickets
    <3>1. label \in Labels /\ label = predictions[Len(predictions)] /\ Len(predictions) # 0
      BY <2>1 DEF SelectTickets, Recorded, TypeOK
    <3>2. export' = [pc |-> "tickets", predicted |-> label, since |-> Len(predictions), version |-> 0]
      BY <2>1 DEF SelectTickets
    <3> QED BY <3>1, <3>2, <1>1, <1>2 DEF ExportFollows, RowState
  <2>2. CASE SelectPredictions
    <3>1. export.pc = "tickets" /\ export' = [export EXCEPT !.pc = "row", !.version = Len(predictions)]
      BY <2>2 DEF SelectPredictions
    <3>2. /\ export'.pc = "row" /\ export'.version = Len(predictions)
          /\ export'.since = export.since /\ export'.predicted = export.predicted
          /\ export' \in RowState
      BY <3>1, <1>2 DEF RowState
    <3> QED BY <3>1, <3>2, <1>1, <1>2 DEF ExportFollows
  <2> QED BY <2>1, <2>2 DEF Exporting
<1> QED BY <1>1, <1>3 DEF TypeOK, Recorded

LEMMA RunKeeps ==
  ASSUME IInv,
         \/ StartRun /\ \A h \in Reviewer : desk[h].pc = "idle"
         \/ EndRun
         \/ Resolve
  PROVE  IInv'
<1>1. UNCHANGED <<label, correction, by, at, predictions, desk, export>>
  BY DEF StartRun, EndRun, Resolve, row
<1>2. TypeOK'
  BY <1>1 DEF IInv, TypeOK, StartRun, EndRun, Resolve
<1>3. Recorded' /\ Signed' /\ AgreesOnlyIfRelabelled' /\ ExportFollows'
  BY <1>1 DEF IInv, Recorded, Signed, AgreesOnlyIfRelabelled, ExportFollows
<1>4. Undisturbed'
  <2> SUFFICES ASSUME NEW h \in Reviewer, desk[h].pc # "idle"
               PROVE  run' = "idle"
    BY <1>1 DEF IInv, Undisturbed, Alone
  <2> QED BY DEF IInv, Undisturbed, StartRun, EndRun, Resolve
<1> QED BY <1>2, <1>3, <1>4 DEF IInv

LEMMA TriageKeeps == ASSUME IInv, Triage PROVE IInv'
<1>1. PICK predicted \in Labels :
        /\ label' = predicted
        /\ predictions' = Append(predictions, predicted)
  BY DEF Triage
<1>2. /\ predictions \in Seq(Labels)
      /\ predictions' \in Seq(Labels)
      /\ Len(predictions) \in Nat
      /\ Len(predictions') = Len(predictions) + 1
      /\ predictions'[Len(predictions')] = predicted
      /\ \A i \in 1 .. Len(predictions) : predictions'[i] = predictions[i]
      /\ predictions' # <<>>
  BY <1>1 DEF IInv, TypeOK
<1>3. UNCHANGED <<correction, by, at, desk, status, export>> /\ run = "triage" /\ run' = "rest"
  BY DEF Triage
<1>4. TypeOK'
  <2>1. at' \in 0 .. Len(predictions') /\ Len(predictions') <= MaxPredictions
    BY <1>2, <1>3, MaxPredictionsAssumption DEF IInv, TypeOK, Triage
  <2> QED BY <2>1, <1>1, <1>2, <1>3 DEF IInv, TypeOK, Triage
<1>5. Recorded'
  BY <1>1, <1>2, <1>3, NullIsNoLabel DEF IInv, Recorded
<1>6. Signed'
  BY <1>3 DEF IInv, Signed
<1>7. AgreesOnlyIfRelabelled'
  <2>1. at < Len(predictions')
    BY <1>2 DEF IInv, TypeOK
  <2> QED BY <2>1, <1>3 DEF AgreesOnlyIfRelabelled
<1>8. Undisturbed'
  BY <1>3 DEF IInv, Undisturbed
<1>9. ExportFollows'
  BY <1>2, <1>3, ExportStays DEF IInv
<1> QED BY <1>4, <1>5, <1>6, <1>7, <1>8, <1>9 DEF IInv

LEMMA RestartKeeps == ASSUME IInv, Restart PROVE IInv'
<1>1. UNCHANGED <<status, label, correction, by, at, predictions, export>>
  BY DEF Restart, row
<1>2. /\ desk' \in [Reviewer -> DeskState]
      /\ \A h \in Reviewer : desk'[h] = desk[h] \/ desk'[h].pc = "idle"
      /\ \A h \in Reviewer : desk[h].pc = "idle" => desk'[h].pc = "idle"
  BY DEF IInv, TypeOK, Restart, Free, DeskState, Loaded, MaybeLabels, None, Nothing
<1>3. /\ run' \in {"idle", "triage"}
      /\ run = "idle" <=> run' = "idle"
      /\ classified' \in BOOLEAN
  BY DEF IInv, TypeOK, Restart
<1>4. TypeOK'
  BY <1>1, <1>2, <1>3 DEF IInv, TypeOK
<1>5. Recorded' /\ Signed' /\ AgreesOnlyIfRelabelled' /\ ExportFollows'
  BY <1>1 DEF IInv, Recorded, Signed, AgreesOnlyIfRelabelled, ExportFollows
<1>6. Undisturbed'
  BY <1>1, <1>2, <1>3 DEF IInv, Undisturbed, Alone
<1> QED BY <1>4, <1>5, <1>6 DEF IInv

LEMMA FormKeeps ==
  ASSUME IInv, NEW h \in Reviewer, OpenForm(h) \/ Cancel(h) \/ Submit(h), Alone(h)
  PROVE  IInv'
<1>1. UNCHANGED <<status, label, correction, by, at, predictions, run, classified, export>>
  BY DEF OpenForm, Cancel, Submit, row
<1>2. /\ desk' = [desk EXCEPT ![h] = desk'[h]]
      /\ desk'[h] \in DeskState
      /\ desk'[h].pc # "idle" => run = "idle" /\ label # None
      /\ desk'[h].pc = "commit" =>
           /\ desk'[h].view \in Labels
           /\ desk'[h].loaded = [label |-> label, correction |-> correction, by |-> by, at |-> at]
  <2>1. CASE OpenForm(h)
    <3>1. Effective \in MaybeLabels
      BY DEF IInv, TypeOK, Effective, Or, MaybeLabels, Labels, None
    <3>2. run = "idle" /\ label # None
      BY <2>1 DEF OpenForm, CanCorrect, IInv, TypeOK
    <3>3. desk' = [desk EXCEPT ![h] = [pc |-> "form", view |-> Effective, loaded |-> Nothing]]
      BY <2>1 DEF OpenForm
    <3> QED BY <3>1, <3>2, <3>3 DEF IInv, TypeOK, DeskState, Loaded, MaybeLabels, None, Nothing
  <2>2. CASE Cancel(h)
    BY <2>2 DEF Cancel, IInv, TypeOK, DeskState, Loaded, MaybeLabels, None, Nothing, Free
  <2>3. CASE Submit(h)
    <3>1. run = "idle" /\ label # None
      BY <2>3 DEF Submit, IInv, Undisturbed
    <3> DEFINE held == [label |-> label, correction |-> correction, by |-> by, at |-> at]
    <3>2. PICK wanted \in Labels :
            desk' = [desk EXCEPT ![h] = [pc |-> "commit", view |-> wanted, loaded |-> held]]
      BY <2>3, <3>1 DEF Submit
    <3>3. held \in Loaded /\ wanted \in MaybeLabels
      BY DEF IInv, TypeOK, Loaded, MaybeLabels, Labels, None
    <3> HIDE DEF held
    <3>4. /\ desk'[h] = [pc |-> "commit", view |-> wanted, loaded |-> held]
          /\ desk'[h] \in DeskState
          /\ desk' = [desk EXCEPT ![h] = desk'[h]]
      BY <3>2, <3>3 DEF IInv, TypeOK, DeskState
    <3> QED BY <3>1, <3>4 DEF held
  <2> QED BY <2>1, <2>2, <2>3
<1>3. TypeOK'
  BY <1>1, <1>2 DEF IInv, TypeOK
<1>4. Recorded' /\ Signed' /\ AgreesOnlyIfRelabelled' /\ ExportFollows'
  BY <1>1 DEF IInv, Recorded, Signed, AgreesOnlyIfRelabelled, ExportFollows
<1>5. Undisturbed'
  <2>1. \A g \in Reviewer : g # h => desk'[g] = desk[g] /\ desk[g].pc = "idle"
    BY <1>2 DEF Alone, IInv, TypeOK
  <2> QED BY <2>1, <1>1, <1>2 DEF Undisturbed, Alone
<1> QED BY <1>3, <1>4, <1>5 DEF IInv

LEMMA CommitKeeps ==
  ASSUME IInv, NEW h \in Reviewer, CommitCorrection(h)
  PROVE  IInv'
<1> DEFINE view == desk[h].view
<1>1. /\ view \in Labels /\ label \in Labels /\ label # None
      /\ view.category \in Category /\ view.urgency \in Urgency
  BY CommitOf, NullIsNoLabel DEF Labels
<1> HIDE DEF view
<1>2. /\ Corrected(h) = [category |-> Disagreement(view.category, label.category),
                         urgency  |-> Disagreement(view.urgency, label.urgency)]
      /\ correction' = Corrected(h)
      /\ UNCHANGED <<status, label, predictions, run, classified, export>>
      /\ desk' = [desk EXCEPT ![h] = Free]
  BY CommitOf DEF view
<1>3. /\ correction' \in MaybeLabels
      /\ correction'.category # label.category
      /\ correction'.urgency # label.urgency
  BY <1>1, <1>2, NullIsNoLabel DEF Disagreement, MaybeLabels, Labels
<1>4. Len(predictions) \in Nat /\ Len(predictions) # 0
  BY <1>1 DEF IInv, TypeOK, Recorded
<1>5. /\ by' = (IF correction' # None THEN h ELSE Nobody)
      /\ at' = (IF correction' # None THEN Len(predictions) ELSE 0)
  BY CommitOf, <1>2
<1>6. TypeOK'
  <2>1. at' \in 0 .. Len(predictions')
    BY <1>2, <1>4, <1>5
  <2>2. Free \in DeskState
    BY DEF Free, DeskState, Loaded, MaybeLabels, None, Nothing
  <2> QED BY <2>1, <2>2, <1>2, <1>3, <1>5 DEF IInv, TypeOK
<1>7. Recorded'
  BY <1>1, <1>2 DEF IInv, Recorded
<1>8. Signed'
  BY <1>4, <1>5, NobodyAssumption DEF Signed
<1>9. AgreesOnlyIfRelabelled'
  BY <1>2, <1>3 DEF AgreesOnlyIfRelabelled
<1>10. Undisturbed'
  <2>1. \A g \in Reviewer : desk'[g].pc = "idle"
    BY CommitOf, <1>2 DEF Alone, Free, IInv, TypeOK
  <2> QED BY <2>1 DEF Undisturbed
<1>11. ExportFollows'
  BY <1>2 DEF IInv, ExportFollows
<1> QED BY <1>6, <1>7, <1>8, <1>9, <1>10, <1>11 DEF IInv

LEMMA ExportKeeps == ASSUME IInv, Exporting PROVE IInv'
  BY ExportReads DEF IInv, Undisturbed, Alone, Signed, AgreesOnlyIfRelabelled

LEMMA NextOK == IInv /\ [TurnNext]_vars => IInv'
<1> SUFFICES ASSUME IInv, [TurnNext]_vars PROVE IInv'
  OBVIOUS
<1>1. CASE StartRun /\ \A h \in Reviewer : desk[h].pc = "idle"
  BY <1>1, RunKeeps
<1>2. CASE Triage
  BY <1>2, TriageKeeps
<1>3. CASE EndRun \/ Resolve
  BY <1>3, RunKeeps
<1>4. CASE Restart
  BY <1>4, RestartKeeps
<1>5. CASE \E h \in Reviewer : Correcting(h) /\ Alone(h)
  BY <1>5, FormKeeps, CommitKeeps DEF Correcting
<1>6. CASE UNCHANGED vars
  BY <1>6 DEF vars, row, IInv, TypeOK, Recorded, Undisturbed, Alone, Signed, AgreesOnlyIfRelabelled,
              ExportFollows
<1>7. CASE Exporting
  BY <1>7, ExportKeeps
<1> QED BY <1>1, <1>2, <1>3, <1>4, <1>5, <1>6, <1>7 DEF TurnNext

LEMMA Invariance == TurnSpec => []IInv
BY InitOK, NextOK, PTL DEF TurnSpec

(* Every column, form and request has its type (correct_triage, the card). *)
THEOREM CorrectionsTyped == TurnSpec => []TypeOK
<1>1. IInv => TypeOK
  BY DEF IInv
<1> QED BY <1>1, Invariance, PTL

(* corrected_by and corrected_at are set exactly when a correction is      *)
(* (services/reviews.py correct_triage), if reviewers take turns.          *)
THEOREM CorrectionIsSigned == TurnSpec => []Signed
<1>1. IInv => Signed
  BY DEF IInv
<1> QED BY <1>1, Invariance, PTL

(* Only disagreements are corrections: one that agrees with the label was  *)
(* overtaken by a newer prediction.                                        *)
THEOREM OnlyDisagreements == TurnSpec => []AgreesOnlyIfRelabelled
<1>1. IInv => AgreesOnlyIfRelabelled
  BY DEF IInv
<1> QED BY <1>1, Invariance, PTL

(* A training row names the version that predicted its labels, or a newer  *)
(* one that came between the export's two SELECTs (export_feedback.py      *)
(* collect).                                                               *)
THEOREM ExportIsConsistent == TurnSpec => []ExportNamesItsModel
<1>1. TypeOK /\ ExportFollows => ExportNamesItsModel
  BY DEF TypeOK, RowState, ExportFollows, ExportNamesItsModel
<1>2. IInv => ExportNamesItsModel
  BY <1>1 DEF IInv
<1> QED BY <1>2, Invariance, PTL

(* A reviewer's request replaces whatever was corrected before.            *)
THEOREM LastWord == TurnSpec => TakesEffect
<1>1. ASSUME IInv, NEW h \in Reviewer, CommitCorrection(h)
      PROVE  Effective' = desk[h].view
  <2> DEFINE view == desk[h].view
  <2>1. view \in Labels /\ label \in Labels
    BY <1>1, CommitOf
  <2>2. view = [category |-> view.category, urgency |-> view.urgency]
        /\ view.category # Null /\ view.urgency # Null
    BY <2>1, NullIsNoLabel DEF Labels
  <2>3. /\ correction' = [category |-> Disagreement(view.category, label.category),
                          urgency  |-> Disagreement(view.urgency, label.urgency)]
        /\ label' = label
    BY <1>1, CommitOf
  <2> HIDE DEF view
  <2>4. Effective' = view
    BY <2>2, <2>3 DEF Effective, Or, Disagreement
  <2> QED BY <2>4 DEF view
<1>2. IInv => \A h \in Reviewer : CommitCorrection(h) => Effective' = desk[h].view
  BY <1>1
<1>3. IInv => [\A h \in Reviewer : CommitCorrection(h) => Effective' = desk[h].view]_vars
  BY <1>2
<1> QED BY <1>3, Invariance, PTL DEF TakesEffect

-----------------------------------------------------------------------------
(* TriageCorrections, when reviewers and reruns overlap *)

(* A request was let in because the ticket had a label, and asks for one.  *)
Asked ==
  \A h \in Reviewer : desk[h].pc = "commit" => label # None /\ desk[h].view \in Labels

OverlapInv == TypeOK /\ Recorded /\ Asked /\ ExportFollows

LEMMA TriageOverlaps == ASSUME OverlapInv, Triage PROVE OverlapInv'
<1>1. PICK predicted \in Labels :
        /\ label' = predicted
        /\ predictions' = Append(predictions, predicted)
  BY DEF Triage
<1>2. /\ predictions' \in Seq(Labels)
      /\ Len(predictions) \in Nat
      /\ Len(predictions') = Len(predictions) + 1
      /\ predictions'[Len(predictions')] = predicted
      /\ \A i \in 1 .. Len(predictions) : predictions'[i] = predictions[i]
      /\ predictions' # <<>>
  BY <1>1 DEF OverlapInv, TypeOK
<1>3. UNCHANGED <<correction, by, at, desk, status, export>> /\ run = "triage" /\ run' = "rest"
  BY DEF Triage
<1>4. at' \in 0 .. Len(predictions') /\ Len(predictions') <= MaxPredictions
  BY <1>2, <1>3, MaxPredictionsAssumption DEF OverlapInv, TypeOK, Triage
<1>5. TypeOK'
  BY <1>1, <1>2, <1>3, <1>4 DEF OverlapInv, TypeOK, Triage
<1>6. Recorded' /\ Asked'
  BY <1>1, <1>2, <1>3, NullIsNoLabel DEF OverlapInv, Recorded, Asked
<1>7. ExportFollows'
  BY <1>2, <1>3, ExportStays DEF OverlapInv
<1> QED BY <1>5, <1>6, <1>7 DEF OverlapInv

LEMMA RunOverlaps ==
  ASSUME OverlapInv, StartRun \/ EndRun \/ Resolve \/ Restart
  PROVE  OverlapInv'
<1>1. UNCHANGED <<label, correction, by, at, predictions, export>>
  BY DEF StartRun, EndRun, Resolve, Restart, row
<1>2. /\ desk' \in [Reviewer -> DeskState]
      /\ \A h \in Reviewer : desk'[h] = desk[h] \/ desk'[h].pc = "idle"
  BY DEF OverlapInv, TypeOK, StartRun, EndRun, Resolve, Restart, Free, DeskState, Loaded,
         MaybeLabels, None, Nothing
<1>3. TypeOK'
  BY <1>1, <1>2 DEF OverlapInv, TypeOK, StartRun, EndRun, Resolve, Restart
<1>4. Recorded' /\ Asked' /\ ExportFollows'
  BY <1>1, <1>2 DEF OverlapInv, Recorded, Asked, ExportFollows
<1> QED BY <1>3, <1>4 DEF OverlapInv

LEMMA FormOverlaps ==
  ASSUME OverlapInv, NEW h \in Reviewer, OpenForm(h) \/ Cancel(h) \/ Submit(h)
  PROVE  OverlapInv'
<1>1. UNCHANGED <<status, label, correction, by, at, predictions, run, classified, export>>
  BY DEF OpenForm, Cancel, Submit, row
<1>2. /\ desk' = [desk EXCEPT ![h] = desk'[h]]
      /\ desk'[h] \in DeskState
      /\ desk'[h].pc = "commit" => label # None /\ desk'[h].view \in Labels
  <2>1. CASE OpenForm(h)
    <3>1. Effective \in MaybeLabels
      BY DEF OverlapInv, TypeOK, Effective, Or, MaybeLabels, Labels, None
    <3> QED BY <2>1, <3>1 DEF OpenForm, OverlapInv, TypeOK, DeskState, Loaded, MaybeLabels, None, Nothing
  <2>2. CASE Cancel(h)
    BY <2>2 DEF Cancel, OverlapInv, TypeOK, DeskState, Loaded, MaybeLabels, None, Nothing, Free
  <2>3. CASE Submit(h) /\ label = None
    BY <2>3 DEF Submit, OverlapInv, TypeOK, DeskState, Loaded, MaybeLabels, None, Nothing, Free
  <2>4. CASE Submit(h) /\ label # None
    <3> DEFINE held == [label |-> label, correction |-> correction, by |-> by, at |-> at]
    <3>1. PICK wanted \in Labels :
            desk' = [desk EXCEPT ![h] = [pc |-> "commit", view |-> wanted, loaded |-> held]]
      BY <2>4 DEF Submit
    <3>2. held \in Loaded /\ wanted \in MaybeLabels
      BY DEF OverlapInv, TypeOK, Loaded, MaybeLabels, Labels, None
    <3> HIDE DEF held
    <3> QED BY <2>4, <3>1, <3>2 DEF OverlapInv, TypeOK, DeskState
  <2> QED BY <2>1, <2>2, <2>3, <2>4
<1>3. TypeOK'
  BY <1>1, <1>2 DEF OverlapInv, TypeOK
<1>4. Recorded' /\ Asked' /\ ExportFollows'
  BY <1>1, <1>2 DEF OverlapInv, Recorded, Asked, TypeOK, ExportFollows
<1> QED BY <1>3, <1>4 DEF OverlapInv

(* Whatever the row has become since the request read it.                  *)
LEMMA CommitOverlaps ==
  ASSUME OverlapInv, NEW h \in Reviewer, CommitCorrection(h)
  PROVE  OverlapInv'
<1> DEFINE loaded == desk[h].loaded
           new    == Corrected(h)
<1>1. /\ desk[h].pc = "commit" /\ label # None /\ desk[h].view \in Labels
      /\ desk' = [desk EXCEPT ![h] = Free]
      /\ UNCHANGED <<status, label, predictions, run, classified, export>>
  BY DEF OverlapInv, Asked, CommitCorrection
<1>2. new \in MaybeLabels
  BY <1>1 DEF Corrected, Disagreement, MaybeLabels, Labels
<1>3. correction' \in MaybeLabels
  <2>1. correction' = [category |-> Column(correction.category, loaded.correction.category, new.category),
                       urgency  |-> Column(correction.urgency, loaded.correction.urgency, new.urgency)]
    BY DEF CommitCorrection
  <2>2. correction \in MaybeLabels
    BY DEF OverlapInv, TypeOK
  <2> HIDE DEF new, loaded
  <2> QED BY <1>2, <2>1, <2>2 DEF Column, MaybeLabels
<1>4. by' \in Reviewer \cup {Nobody}
  BY DEF CommitCorrection, Column, OverlapInv, TypeOK
<1>5. at' \in 0 .. Len(predictions)
  <2>1. Len(predictions) \in Nat /\ at \in 0 .. Len(predictions)
    BY DEF OverlapInv, TypeOK
  <2>2. at' = IF new # None THEN Len(predictions) ELSE Column(at, loaded.at, 0)
    BY DEF CommitCorrection
  <2> HIDE DEF new, loaded
  <2> QED BY <2>1, <2>2 DEF Column
<1>6. TypeOK'
  <2>1. Free \in DeskState
    BY DEF Free, DeskState, Loaded, MaybeLabels, None, Nothing
  <2> QED BY <2>1, <1>1, <1>3, <1>4, <1>5 DEF OverlapInv, TypeOK
<1>7. Recorded' /\ Asked' /\ ExportFollows'
  BY <1>1 DEF OverlapInv, Recorded, Asked, TypeOK, Free, ExportFollows
<1> QED BY <1>6, <1>7 DEF OverlapInv

LEMMA OverlapInvariance == Spec => []OverlapInv
<1>1. Init => OverlapInv
  BY InitOK DEF IInv, OverlapInv, Init, Asked, Free
<1>2. OverlapInv /\ [Next]_vars => OverlapInv'
  <2> SUFFICES ASSUME OverlapInv, [Next]_vars PROVE OverlapInv'
    OBVIOUS
  <2>1. CASE StartRun \/ EndRun \/ Resolve \/ Restart
    BY <2>1, RunOverlaps
  <2>2. CASE Triage
    BY <2>2, TriageOverlaps
  <2>3. CASE \E h \in Reviewer : Correcting(h)
    BY <2>3, FormOverlaps, CommitOverlaps DEF Correcting
  <2>4. CASE UNCHANGED vars
    BY <2>4 DEF vars, row, OverlapInv, TypeOK, Recorded, Asked, ExportFollows
  <2>5. CASE Exporting
    BY <2>5, ExportReads DEF OverlapInv, Asked
  <2> QED BY <2>1, <2>2, <2>3, <2>4, <2>5 DEF Next
<1> QED BY <1>1, <1>2, PTL DEF Spec

(* However forms, requests and reruns overlap with each other and with the *)
(* export, a training row's labels are those the version it names          *)
(* predicted, or an older one's if a triage came between its two reads     *)
(* (export_feedback.py collect): a request that read the row before a      *)
(* rerun (correct_triage) can upset the correction, not what is beside it. *)
THEOREM OverlapsKeepTheExport == Spec => [](TypeOK /\ ExportNamesItsModel)
<1>1. TypeOK /\ ExportFollows => ExportNamesItsModel
  BY DEF TypeOK, RowState, ExportFollows, ExportNamesItsModel
<1>2. OverlapInv => TypeOK /\ ExportNamesItsModel
  BY <1>1 DEF OverlapInv
<1> QED BY <1>2, OverlapInvariance, PTL

-----------------------------------------------------------------------------
(* TrainingLoop *)

(* A run that has begun to save a bundle.                                  *)
Saving == {"dumping", "saved", "done", "killed"}

(* Whose bundles there are: a version's is of a run that trains it, and a  *)
(* run that was not forced trains the new one.                             *)
Authors ==
  /\ bundle[0].by # NoAuthor /\ bundle[1].by # Shipped
  /\ \A t \in Trainer :
       /\ trainer[t].pc \notin {"idle", "stopped"} /\ ~trainer[t].force => trainer[t].version = 1
       /\ trainer[t].pc \in Saving => bundle[trainer[t].version].by \in Trainer
  /\ \A v \in Version : bundle[v].by \in Trainer =>
       trainer[bundle[v].by].pc \in Saving /\ trainer[bundle[v].by].version = v
  /\ cached = Shipped => served = 0

Shared == \E e \in Exporter : exporter[e].shared

(* Exports take turns with the temporary file, or they have shared it.     *)
TakeTurns ==
  /\ file.whole /\ \A t \in Trainer : trainer[t].read.whole
  /\ \A e \in Exporter : exporter[e].at = "tmp" /\ (exporter[e].pc = "written" => tmp.whole)
  /\ \A e, o \in Exporter : Uses(e) /\ Uses(o) => e = o

ExportsApart ==
  /\ \A e \in Exporter : exporter[e].pc \in {"idle", "collected"} => ~exporter[e].shared
  /\ Shared \/ TakeTurns

(* A run whose number says what it was fitted to.                          *)
Exact(t) == model = "category" \/ ~trainer[t].drifted

NumbersMatch ==
  /\ \A t \in Trainer :
       /\ trainer[t].pc = "read" /\ ~trainer[t].drifted => trainer[t].read = file
       /\ trainer[t].pc \in {"fitted", "dumping", "saved"} /\ Exact(t) =>
            trainer[t].noted = Cardinality(trainer[t].used)
  /\ \A v \in Version :
       /\ metrics[v].by = Shipped => metrics[v].rows = 0
       /\ metrics[v].by \in Trainer =>
            /\ trainer[metrics[v].by].pc = "done"
            /\ Exact(metrics[v].by) => metrics[v].rows = Cardinality(trainer[metrics[v].by].used)

LEMMA NoTrainingType ==
  ASSUME NEW pc \in {"idle", "checked", "stopped"}
  PROVE  /\ NoTraining(pc) \in TrainState /\ NoTraining(pc).pc = pc
         /\ NoTraining(pc).version = 0 /\ NoTraining(pc).force = FALSE
         /\ NoTraining(pc).read.whole /\ NoTraining(pc).drifted = FALSE
<1>1. Whole({}) \in Content /\ Whole({}).whole
  BY DEF Whole, Content
<1> QED
  BY <1>1 DEF NoTraining, TrainState, Version

LEMMA RowsAreCounted ==
  ASSUME NEW rows \in SUBSET Correction
  PROVE  IsFiniteSet(rows) /\ Cardinality(rows) \in Nat
  BY CorrectionAssumption, FS_Subset, FS_CardinalityType

(* The file changes: only who has read it is marked.                       *)
LEMMA FileMoves ==
  ASSUME trainer \in [Trainer -> TrainState], NEW content \in Content, FileBecomes(content)
  PROVE  /\ file' = content /\ trainer' \in [Trainer -> TrainState]
         /\ \A t \in Trainer :
              LET p == trainer[t]
                  q == trainer'[t]
              IN  /\ q.pc = p.pc /\ q.version = p.version /\ q.force = p.force
                  /\ q.read = p.read /\ q.used = p.used /\ q.noted = p.noted
                  /\ p.pc # "read" => q = p
                  /\ p.pc = "read" => q.drifted
<1>1. ASSUME NEW t \in Trainer
      PROVE  LET p == trainer[t]
                 q == trainer'[t]
             IN  /\ q \in TrainState
                 /\ q.pc = p.pc /\ q.version = p.version /\ q.force = p.force
                 /\ q.read = p.read /\ q.used = p.used /\ q.noted = p.noted
                 /\ p.pc # "read" => q = p
                 /\ p.pc = "read" => q.drifted
  <2>1. trainer[t] \in TrainState
    OBVIOUS
  <2>2. trainer'[t] = IF trainer[t].pc = "read" THEN [trainer[t] EXCEPT !.drifted = TRUE] ELSE trainer[t]
    BY DEF FileBecomes
  <2>3. LET d == [trainer[t] EXCEPT !.drifted = TRUE]
            p == trainer[t]
        IN  /\ d \in TrainState /\ d.drifted /\ d.pc = p.pc /\ d.version = p.version /\ d.force = p.force
            /\ d.read = p.read /\ d.used = p.used /\ d.noted = p.noted
    BY <2>1 DEF TrainState
  <2> QED
    BY <2>1, <2>2, <2>3
<1>2. DOMAIN trainer' = Trainer /\ file' = content /\ trainer' = [t \in Trainer |-> trainer'[t]]
  BY DEF FileBecomes
<1> QED
  BY <1>1, <1>2

(* One training run moves.                                                 *)
OneRun(t) == trainer' \in [Trainer -> TrainState] /\ \A o \in Trainer \ {t} : trainer'[o] = trainer[o]

(* What a run keeps to its end.                                            *)
SameRun(p, q) ==
  /\ q.version = p.version /\ q.force = p.force
  /\ q.used = p.used /\ q.drifted = p.drifted /\ q.read.whole = p.read.whole

LEMMA OneRunMoves ==
  ASSUME LoopTypeOK, NEW t \in Trainer, NEW q \in TrainState, trainer' = [trainer EXCEPT ![t] = q]
  PROVE  OneRun(t) /\ trainer'[t] = q
  BY DEF OneRun, LoopTypeOK

LEMMA StartMoves ==
  ASSUME LoopTypeOK, NEW t \in Trainer, NEW v \in Version, NEW force \in BOOLEAN, Start(t, v, force)
  PROVE  LET q == trainer'[t]
         IN  /\ OneRun(t) /\ trainer[t].pc = "idle" /\ q.read.whole /\ ~q.drifted
             /\ \/ q.pc = "stopped"
                \/ q.pc = "checked" /\ q.version = v /\ (q.force \/ bundle[v].by = NoAuthor)
<1> DEFINE n == NoTraining("stopped")
           c == NoTraining("checked")
           d == [c EXCEPT !.version = v, !.force = force]
           q == IF bundle[v].by # NoAuthor /\ ~force THEN n ELSE d
<1>1. n \in TrainState /\ n.pc = "stopped" /\ n.read.whole /\ ~n.drifted
  BY NoTrainingType
<1>2. c \in TrainState /\ c.pc = "checked" /\ c.read.whole /\ ~c.drifted
  BY NoTrainingType
<1>3. trainer' = [trainer EXCEPT ![t] = q] /\ trainer[t].pc = "idle"
  BY DEF Start
<1> HIDE DEF n, c
<1>4. d \in TrainState /\ d.pc = "checked" /\ d.read.whole /\ ~d.drifted /\ d.version = v /\ d.force = force
  BY <1>2 DEF TrainState
<1> HIDE DEF d
<1>5. q \in TrainState
  BY <1>1, <1>4
<1>6. OneRun(t) /\ trainer'[t] = q
  BY <1>3, <1>5, OneRunMoves
<1> QED
  BY <1>1, <1>3, <1>4, <1>6

LEMMA ReadMoves ==
  ASSUME LoopTypeOK, NEW t \in Trainer, ReadFeedback(t)
  PROVE  LET p == trainer[t]
             q == trainer'[t]
         IN  /\ OneRun(t) /\ p.pc = "checked" /\ q.pc = "read" /\ q.read = file
             /\ q.version = p.version /\ q.force = p.force /\ q.used = p.used /\ q.drifted = p.drifted
<1> DEFINE p == trainer[t]
           q == [p EXCEPT !.pc = "read", !.read = file]
<1>1. p \in TrainState /\ file \in Content
  BY DEF LoopTypeOK
<1>2. /\ q \in TrainState /\ q.pc = "read" /\ q.read = file
      /\ q.version = p.version /\ q.force = p.force /\ q.used = p.used /\ q.drifted = p.drifted
  BY <1>1 DEF TrainState
<1>3. trainer' = [trainer EXCEPT ![t] = q] /\ p.pc = "checked"
  BY DEF ReadFeedback
<1> HIDE DEF q
<1> QED
  BY <1>2, <1>3, OneRunMoves

LEMMA FitMoves ==
  ASSUME LoopTypeOK, NEW t \in Trainer, Fit(t)
  PROVE  LET p == trainer[t]
             q == trainer'[t]
         IN  /\ OneRun(t) /\ p.pc = "read" /\ q.pc = "fitted" /\ q.read.whole = p.read.whole
             /\ q.version = p.version /\ q.force = p.force
             /\ q.noted = Noted(q.used) /\ (q.drifted \/ (~p.drifted /\ q.used = p.read.rows))
<1> DEFINE p == trainer[t]
<1>1. p \in TrainState /\ p.read \in Content /\ p.read.rows \in SUBSET Correction /\ p.pc = "read"
  BY DEF LoopTypeOK, TrainState, Content, Fit
<1>2. PICK used \in {p.read.rows, {}} :
        trainer' = [trainer EXCEPT ![t].pc = "fitted", ![t].used = used, ![t].noted = Noted(used),
                                   ![t].read.rows = {}, ![t].drifted = @ \/ used # p.read.rows]
  BY DEF Fit
<1> DEFINE q == [p EXCEPT !.pc = "fitted", !.used = used, !.noted = Noted(used),
                          !.read.rows = {}, !.drifted = @ \/ used # p.read.rows]
<1>3. used \in SUBSET Correction
  BY <1>1, <1>2
<1>4. Noted(used) \in Nat
  <2>1. file.rows \in SUBSET Correction
    BY DEF LoopTypeOK, Content
  <2> QED
    BY <1>3, <2>1, RowsAreCounted DEF Noted
<1>5. /\ q.pc = "fitted" /\ q.used = used /\ q.noted = Noted(used)
      /\ q.read.whole = p.read.whole /\ q.version = p.version /\ q.force = p.force
      /\ q.drifted = (p.drifted \/ used # p.read.rows)
  BY <1>1 DEF TrainState, Content
<1>6. [p.read EXCEPT !.rows = {}] \in Content
  BY <1>1 DEF Content
<1>7. q \in TrainState
  BY <1>1, <1>3, <1>4, <1>6 DEF TrainState
<1>8. trainer' = [trainer EXCEPT ![t] = q]
  BY <1>1, <1>2 DEF LoopTypeOK, TrainState, Content
<1>9. q.drifted \/ (~p.drifted /\ used = p.read.rows)
  BY <1>5
<1> HIDE DEF q
<1>10. OneRun(t) /\ trainer'[t] = q
  BY <1>7, <1>8, OneRunMoves
<1> QED
  BY <1>1, <1>5, <1>9, <1>10

(* A run that has been fitted saves, or is killed.                         *)
LEMMA SavingMoves ==
  ASSUME LoopTypeOK, NEW t \in Trainer, OpenBundle(t) \/ CloseBundle(t) \/ WriteMetrics(t)
  PROVE  LET p == trainer[t]
             q == trainer'[t]
         IN  /\ OneRun(t) /\ SameRun(p, q) /\ p.version \in Version
             /\ OpenBundle(t) => p.pc = "fitted" /\ q.pc = "dumping" /\ q.noted = p.noted
             /\ CloseBundle(t) => p.pc = "dumping" /\ q.pc = "saved" /\ q.noted = p.noted
             /\ WriteMetrics(t) => p.pc = "saved" /\ q.pc = "done"
<1> DEFINE p == trainer[t]
           pc == IF OpenBundle(t) THEN "dumping" ELSE IF CloseBundle(t) THEN "saved" ELSE "done"
           noted == IF OpenBundle(t) \/ CloseBundle(t) THEN p.noted ELSE 0
           q == [p EXCEPT !.pc = pc, !.noted = noted]
<1>1. p \in TrainState /\ p.version \in Version
  BY DEF LoopTypeOK, TrainState
<1>2. q \in TrainState /\ q.pc = pc /\ q.noted = noted /\ SameRun(p, q)
  BY <1>1 DEF TrainState, SameRun
<1>3. trainer' = [trainer EXCEPT ![t] = q]
  <2>1. p = [p EXCEPT !.noted = p.noted]
    BY <1>1 DEF TrainState
  <2>2. [p EXCEPT !.pc = pc] = [p EXCEPT !.pc = pc, !.noted = p.noted]
    BY <1>1 DEF TrainState
  <2> QED
    BY <2>2 DEF OpenBundle, CloseBundle, WriteMetrics
<1>4. OneRun(t) /\ trainer'[t] = q
  BY <1>2, <1>3, OneRunMoves
<1> HIDE DEF q
<1> QED
  BY <1>1, <1>2, <1>4 DEF OpenBundle, CloseBundle, WriteMetrics

LEMMA KillMoves ==
  ASSUME LoopTypeOK, NEW t \in Trainer, trainer[t].pc \in {"checked", "read", "fitted", "dumping", "saved"},
         trainer' = [trainer EXCEPT ![t] =
           IF trainer[t].pc \in {"dumping", "saved"} THEN [@ EXCEPT !.pc = "killed"]
           ELSE NoTraining("stopped")]
  PROVE  LET p == trainer[t]
             q == trainer'[t]
         IN  /\ OneRun(t) /\ (q.read.whole \/ SameRun(p, q))
             /\ IF p.pc \in {"dumping", "saved"} THEN q.pc = "killed" /\ SameRun(p, q) ELSE q.pc = "stopped"
<1> DEFINE p == trainer[t]
           k == [p EXCEPT !.pc = "killed"]
           n == NoTraining("stopped")
           q == IF p.pc \in {"dumping", "saved"} THEN k ELSE n
<1>1. p \in TrainState
  BY DEF LoopTypeOK
<1>2. k \in TrainState /\ k.pc = "killed" /\ SameRun(p, k)
  BY <1>1 DEF TrainState, SameRun
<1>3. n \in TrainState /\ n.pc = "stopped" /\ n.read.whole
  BY NoTrainingType
<1>4. trainer' = [trainer EXCEPT ![t] = q]
  OBVIOUS
<1> HIDE DEF k, n
<1>5. OneRun(t) /\ trainer'[t] = q
  BY <1>2, <1>3, <1>4, OneRunMoves
<1> QED
  BY <1>2, <1>3, <1>5

LEMMA LoopTypeInit == LoopInit => LoopTypeOK
<1> SUFFICES ASSUME LoopInit
             PROVE  LoopTypeOK
  OBVIOUS
<1> DEFINE x == [pc |-> "idle", rows |-> {}, at |-> "tmp", shared |-> FALSE]
<1>1. x \in ExportState /\ exporter = [e \in Exporter |-> x]
  BY DEF LoopInit, ExportState
<1>2. exporter \in [Exporter -> ExportState]
  BY <1>1
<1>3. trainer \in [Trainer -> TrainState]
  BY NoTrainingType DEF LoopInit
<1>4. Absent \in Content /\ Whole({}) \in Content
  BY DEF Absent, Whole, Content
<1>5. /\ bundle \in [Version -> [by : Author \cup {NoAuthor}, whole : BOOLEAN]]
      /\ metrics \in [Version -> [by : Author \cup {NoAuthor}, rows : Nat]]
      /\ \A v \in Version : bundle[v].by = NoAuthor => metrics[v].by = NoAuthor
  BY DEF LoopInit, Author
<1>6. model \in {"category", "urgency"} /\ file = Whole({}) /\ tmp = Absent /\ served = 0 /\ cached = NoAuthor
  BY DEF LoopInit
<1> QED
  BY <1>2, <1>3, <1>4, <1>5, <1>6 DEF LoopTypeOK, Version

(* What an export does to its state and the others'.                       *)
LEMMA ExportType ==
  ASSUME LoopTypeOK, NEW e \in Exporter, Collect(e) \/ Open(e) \/ Close(e) \/ Replace(e)
  PROVE  exporter' \in [Exporter -> ExportState]
<1> DEFINE x == exporter[e]
<1>1. \A o \in Exporter : exporter[o] \in ExportState
  BY DEF LoopTypeOK
<1>2. ASSUME NEW o \in Exporter, NEW pc \in {"collected", "writing", "written", "ended"},
             NEW rows \in SUBSET Correction, NEW at1 \in {"tmp", "file"}, NEW shared \in BOOLEAN
      PROVE  /\ [exporter[o] EXCEPT !.pc = pc] \in ExportState
             /\ [exporter[o] EXCEPT !.pc = pc, !.rows = rows] \in ExportState
             /\ [exporter[o] EXCEPT !.pc = pc, !.shared = shared] \in ExportState
             /\ [exporter[o] EXCEPT !.shared = shared] \in ExportState
             /\ [exporter[o] EXCEPT !.at = at1] \in ExportState
  BY <1>1 DEF ExportState
<1>3. CASE Collect(e)
  <2>1. PICK rows \in SUBSET Correction :
          exporter' = [exporter EXCEPT ![e].pc = "collected", ![e].rows = rows]
    BY <1>3 DEF Collect
  <2>2. exporter' = [exporter EXCEPT ![e] = [x EXCEPT !.pc = "collected", !.rows = rows]]
    BY <2>1 DEF LoopTypeOK, ExportState
  <2>3. [x EXCEPT !.pc = "collected", !.rows = rows] \in ExportState
    BY <1>2
  <2> QED
    BY <2>2, <2>3 DEF LoopTypeOK
<1>4. CASE Open(e)
  <2> DEFINE others == {o \in Exporter : Uses(o)}
             f == [o \in Exporter |->
                     IF o = e THEN [x EXCEPT !.pc = "writing", !.shared = others # {}]
                     ELSE IF o \in others THEN [exporter[o] EXCEPT !.shared = TRUE]
                     ELSE exporter[o]]
  <2>1. exporter' = f
    BY <1>4 DEF Open
  <2>2. [x EXCEPT !.pc = "writing", !.shared = others # {}] \in ExportState
    BY <1>2
  <2>3. \A o \in Exporter : f[o] \in ExportState
    BY <1>1, <1>2, <2>2
  <2> QED
    BY <2>1, <2>3
<1>5. CASE Close(e)
  <2>1. exporter' = [exporter EXCEPT ![e] = [x EXCEPT !.pc = "written"]]
    BY <1>5 DEF Close
  <2>2. [x EXCEPT !.pc = "written"] \in ExportState
    BY <1>2
  <2> QED
    BY <2>1, <2>2 DEF LoopTypeOK
<1>6. CASE Replace(e)
  <2>1. CASE ~tmp.there
    <3>1. exporter' = [exporter EXCEPT ![e] = [x EXCEPT !.pc = "ended", !.rows = {}]]
      BY <1>6, <2>1 DEF Replace, LoopTypeOK, ExportState
    <3>2. [x EXCEPT !.pc = "ended", !.rows = {}] \in ExportState
      BY <1>2
    <3> QED
      BY <3>1, <3>2 DEF LoopTypeOK
  <2>2. CASE tmp.there
    <3> DEFINE f == [o \in Exporter |->
                       IF o = e THEN [x EXCEPT !.pc = "ended", !.rows = {}]
                       ELSE IF Uses(o) THEN [exporter[o] EXCEPT !.at = "file"]
                       ELSE exporter[o]]
    <3>1. exporter' = f
      BY <1>6, <2>2 DEF Replace
    <3>2. [x EXCEPT !.pc = "ended", !.rows = {}] \in ExportState
      BY <1>2
    <3>3. \A o \in Exporter : f[o] \in ExportState
      BY <1>1, <1>2, <3>2
    <3> QED
      BY <3>1, <3>3
  <2> QED
    BY <2>1, <2>2
<1> QED
  BY <1>3, <1>4, <1>5, <1>6

Exports(e) == Collect(e) \/ Open(e) \/ Close(e) \/ Replace(e)

(* An export changes no run but for the mark on who has read the file.     *)
LEMMA ExportsMark ==
  ASSUME LoopTypeOK, NEW e \in Exporter, Exports(e)
  PROVE  /\ file' \in Content /\ tmp' \in Content /\ trainer' \in [Trainer -> TrainState]
         /\ UNCHANGED <<model, bundle, metrics, served, cached>>
         /\ \A t \in Trainer :
              LET p == trainer[t]
                  q == trainer'[t]
              IN  /\ q.pc = p.pc /\ q.version = p.version /\ q.force = p.force
                  /\ q.read = p.read /\ q.used = p.used /\ q.noted = p.noted
                  /\ p.pc # "read" => q = p
                  /\ p.pc = "read" => q.drifted \/ (~p.drifted /\ file' = file)
<1>1. /\ UNCHANGED <<model, bundle, metrics, served, cached>>
      /\ trainer \in [Trainer -> TrainState] /\ file \in Content /\ tmp \in Content
      /\ exporter[e] \in ExportState
  BY DEF Exports, Collect, Open, Close, Replace, artifacts, api, LoopTypeOK
<1>2. /\ Half \in Content /\ Absent \in Content
      /\ \A rows \in SUBSET Correction : Whole(rows) \in Content
  BY DEF Half, Absent, Whole, Content
<1>3. tmp' \in Content /\ (UNCHANGED <<file, trainer>> \/ \E content \in Content : FileBecomes(content))
  <2>1. CASE Collect(e) \/ Open(e)
    BY <1>1, <1>2, <2>1 DEF Collect, Open, files
  <2>2. CASE Close(e)
    <3>1. PICK content \in {Whole(exporter[e].rows)} \cup (IF exporter[e].shared THEN {Half} ELSE {}) :
            IF exporter[e].at = "tmp" THEN tmp' = content /\ UNCHANGED <<file, trainer>>
            ELSE FileBecomes(content) /\ UNCHANGED tmp
      BY <2>2 DEF Close
    <3>2. exporter[e].rows \in SUBSET Correction
      BY <1>1 DEF ExportState
    <3>3. content \in Content
      BY <1>2, <3>1, <3>2
    <3> QED
      BY <1>1, <3>1, <3>3
  <2>3. CASE Replace(e)
    <3>1. CASE ~tmp.there
      BY <1>1, <2>3, <3>1 DEF Replace, files
    <3>2. CASE tmp.there
      BY <1>1, <1>2, <2>3, <3>2 DEF Replace
    <3> QED
      BY <3>1, <3>2
  <2> QED
    BY <2>1, <2>2, <2>3 DEF Exports
<1>4. CASE UNCHANGED <<file, trainer>>
  BY <1>1, <1>3, <1>4
<1>5. CASE \E content \in Content : FileBecomes(content)
  BY <1>1, <1>3, <1>5, FileMoves
<1> QED
  BY <1>3, <1>4, <1>5

(* The steps of a run, and its end.                                        *)
Ends(t) ==
  /\ trainer[t].pc \in {"checked", "read", "fitted", "dumping", "saved"}
  /\ trainer' = [trainer EXCEPT ![t] =
       IF trainer[t].pc \in {"dumping", "saved"} THEN [@ EXCEPT !.pc = "killed"]
       ELSE NoTraining("stopped")]
  /\ UNCHANGED exporter
  /\ UNCHANGED <<model, files, artifacts, api>>

Fails(e) ==
  /\ exporter[e].pc \in {"collected", "writing", "written"}
  /\ exporter' = [exporter EXCEPT ![e].pc = "ended", ![e].rows = {}]
  /\ UNCHANGED trainer
  /\ UNCHANGED <<model, files, artifacts, api>>

(* Every step is one of these.                                             *)
LEMMA LoopSteps ==
  ASSUME [LoopNext]_loopVars
  PROVE  \/ \E e \in Exporter : Exports(e) \/ Fails(e)
         \/ \E t \in Trainer, v \in Version, force \in BOOLEAN : Start(t, v, force)
         \/ \E t \in Trainer : ReadFeedback(t) \/ Fit(t) \/ Ends(t)
         \/ \E t \in Trainer : OpenBundle(t) \/ CloseBundle(t) \/ WriteMetrics(t)
         \/ \E v \in Version : Serve(v)
         \/ Load
         \/ UNCHANGED loopVars
<1>1. CASE Kill
  BY <1>1 DEF Kill, Ends, Fails
<1> QED
  BY <1>1 DEF LoopNext, TrainStep, Exports

LEMMA LoopTypeStep == LoopTypeOK /\ Authors /\ [LoopNext]_loopVars => LoopTypeOK'
<1> SUFFICES ASSUME LoopTypeOK, Authors, [LoopNext]_loopVars
             PROVE  LoopTypeOK'
  OBVIOUS
<1> USE DEF files, artifacts, api
<1>1. ASSUME NEW e \in Exporter, Exports(e)
      PROVE  LoopTypeOK'
  BY <1>1, ExportsMark, ExportType DEF Exports, LoopTypeOK
<1>2. ASSUME NEW e \in Exporter, Fails(e)
      PROVE  LoopTypeOK'
  <2> DEFINE x == [exporter[e] EXCEPT !.pc = "ended", !.rows = {}]
  <2>1. x \in ExportState
    <3>1. exporter[e] \in ExportState
      BY DEF LoopTypeOK
    <3> QED BY <3>1, ZenonT(30) DEF ExportState
  <2>2. exporter' = [exporter EXCEPT ![e] = x]
    BY <1>2 DEF Fails, LoopTypeOK, ExportState
  <2> HIDE DEF x
  <2>3. exporter' \in [Exporter -> ExportState]
    BY <2>1, <2>2 DEF LoopTypeOK
  <2> QED
    BY <1>2, <2>3 DEF Fails, LoopTypeOK
<1>3. ASSUME NEW t \in Trainer, NEW v \in Version, NEW force \in BOOLEAN, Start(t, v, force)
      PROVE  LoopTypeOK'
  <2>1. trainer' \in [Trainer -> TrainState]
    BY <1>3, StartMoves DEF OneRun
  <2> QED
    BY <1>3, <2>1 DEF Start, LoopTypeOK
<1>4. ASSUME NEW t \in Trainer, ReadFeedback(t) \/ Fit(t) \/ Ends(t)
      PROVE  LoopTypeOK'
  <2>1. trainer' \in [Trainer -> TrainState]
    BY <1>4, ReadMoves, FitMoves, KillMoves DEF OneRun, Ends
  <2> QED
    BY <1>4, <2>1 DEF ReadFeedback, Fit, Ends, LoopTypeOK
<1>5. ASSUME NEW t \in Trainer, OpenBundle(t) \/ CloseBundle(t) \/ WriteMetrics(t)
      PROVE  LoopTypeOK'
  <2>1. trainer' \in [Trainer -> TrainState] /\ trainer[t].version \in Version
    BY <1>5, SavingMoves DEF OneRun
  <2>2. CASE OpenBundle(t)
    <3>1. bundle' \in [Version -> [by : Author \cup {NoAuthor}, whole : BOOLEAN]]
      BY <2>2 DEF OpenBundle, LoopTypeOK, Author
    <3> QED
      BY <2>1, <2>2, <3>1, AuthorAssumption DEF OpenBundle, LoopTypeOK
  <2>3. CASE CloseBundle(t)
    <3> DEFINE v == trainer[t].version
               b == [bundle[v] EXCEPT !.whole = (bundle[v].whole \/ bundle[v].by = t)]
    <3>1. bundle' = [bundle EXCEPT ![v] = b]
      BY <2>1, <2>3 DEF CloseBundle, LoopTypeOK
    <3>2. b \in [by : Author \cup {NoAuthor}, whole : BOOLEAN] /\ b.by = bundle[v].by
      BY <2>1 DEF LoopTypeOK
    <3> HIDE DEF b
    <3>3. /\ bundle' \in [Version -> [by : Author \cup {NoAuthor}, whole : BOOLEAN]]
          /\ \A w \in Version : bundle'[w].by = bundle[w].by
      BY <2>1, <3>1, <3>2 DEF LoopTypeOK
    <3> QED
      BY <2>1, <2>3, <3>3 DEF CloseBundle, LoopTypeOK
  <2>4. CASE WriteMetrics(t)
    <3> DEFINE v == trainer[t].version
    <3>1. trainer[t].noted \in Nat
      BY DEF LoopTypeOK, TrainState
    <3>3. /\ metrics' \in [Version -> [by : Author \cup {NoAuthor}, rows : Nat]]
          /\ \A w \in Version : metrics'[w].by = IF w = v THEN t ELSE metrics[w].by
      BY <2>1, <2>4, <3>1 DEF WriteMetrics, LoopTypeOK, Author
    <3>2. bundle[v].by # NoAuthor
      BY <2>4, AuthorAssumption DEF WriteMetrics, Authors, Saving
    <3> QED
      BY <2>1, <2>4, <3>2, <3>3 DEF WriteMetrics, LoopTypeOK
  <2> QED
    BY <1>5, <2>2, <2>3, <2>4
<1>6. ASSUME NEW v \in Version, Serve(v)
      PROVE  LoopTypeOK'
  BY <1>6 DEF Serve, LoopTypeOK
<1>7. CASE Load
  BY <1>7 DEF Load, LoopTypeOK
<1>8. CASE UNCHANGED loopVars
  BY <1>8 DEF loopVars, LoopTypeOK
<1> QED
  BY <1>1, <1>2, <1>3, <1>4, <1>5, <1>6, <1>7, <1>8, LoopSteps

-----------------------------------------------------------------------------
(* Whose bundles and metrics there are *)

Described == Authors /\ VersionsStay /\ MetricsDescribeBundle

(* What no step disturbs that changes neither versions nor who saved them, *)
(* and no run that is saving.                                              *)
LEMMA DescribedStays ==
  ASSUME LoopTypeOK, Described,
         \A v \in Version : bundle'[v].by = bundle[v].by /\ metrics'[v].by = metrics[v].by,
         \A t \in Trainer :
           /\ trainer'[t].pc \notin {"idle", "stopped"} /\ ~trainer'[t].force => trainer'[t].version = 1
           /\ trainer'[t].pc \in Saving <=> trainer[t].pc \in Saving
           /\ trainer[t].pc \in Saving =>
                /\ trainer'[t].version = trainer[t].version /\ trainer'[t].force = trainer[t].force
                /\ trainer[t].pc \in {"dumping", "saved", "killed"} => trainer'[t].pc \in {"dumping", "saved", "killed"},
         served' \in Version, (cached' = cached /\ served' = served) \/ cached' = NoAuthor
  PROVE  Described'
<1>1. /\ \A t \in Trainer : trainer[t].version \in Version
      /\ 0 \in Version /\ 1 \in Version /\ served \in Version
  BY DEF LoopTypeOK, TrainState, Version
<1>2. Authors'
  <2>1. bundle'[0].by # NoAuthor /\ bundle'[1].by # Shipped
    BY <1>1 DEF Described, Authors
  <2>2. ASSUME NEW t \in Trainer
        PROVE  /\ trainer'[t].pc \notin {"idle", "stopped"} /\ ~trainer'[t].force => trainer'[t].version = 1
               /\ trainer'[t].pc \in Saving => bundle'[trainer'[t].version].by \in Trainer
    BY <1>1 DEF Described, Authors
  <2>3. ASSUME NEW v \in Version, bundle'[v].by \in Trainer
        PROVE  trainer'[bundle'[v].by].pc \in Saving /\ trainer'[bundle'[v].by].version = v
    BY <2>3 DEF Described, Authors
  <2>4. cached' = Shipped => served' = 0
    BY AuthorAssumption DEF Described, Authors
  <2> QED
    BY <2>1, <2>2, <2>3, <2>4 DEF Authors
<1>3. VersionsStay'
  <2>1. CASE cached' = NoAuthor
    BY <2>1 DEF VersionsStay
  <2>2. CASE cached' = cached /\ served' = served
    <3> DEFINE t == bundle[served].by
    <3>1. bundle'[served'].by = t
      BY <1>1, <2>2
    <3>2. t \in Trainer => trainer'[t].force = trainer[t].force
      BY <1>1 DEF Described, Authors
    <3>3. cached \notin {NoAuthor, t} => (t \in Trainer /\ trainer[t].force) \/ ({t, cached} \subseteq Trainer /\ served = 1)
      BY DEF Described, VersionsStay
    <3> HIDE DEF t
    <3> QED
      BY <2>2, <3>1, <3>2, <3>3 DEF VersionsStay
  <2> QED
    BY <2>1, <2>2
<1>4. MetricsDescribeBundle'
  <2>1. ASSUME NEW v \in Version, metrics'[v].by # bundle'[v].by
        PROVE  \/ bundle'[v].by \in Trainer /\ trainer'[bundle'[v].by].pc \in {"dumping", "saved", "killed"}
               \/ {bundle'[v].by, metrics'[v].by} \subseteq Trainer
    <3>1. metrics[v].by # bundle[v].by
      BY <2>1
    <3>2. \/ bundle[v].by \in Trainer /\ trainer[bundle[v].by].pc \in {"dumping", "saved", "killed"}
          \/ {bundle[v].by, metrics[v].by} \subseteq Trainer
      BY <3>1 DEF Described, MetricsDescribeBundle
    <3> QED
      BY <3>2 DEF Saving
  <2> QED
    BY <2>1 DEF MetricsDescribeBundle
<1> QED
  BY <1>2, <1>3, <1>4 DEF Described

(* A run opens its version's bundle: the version is the new one, or it was *)
(* forced.                                                                 *)
LEMMA OpenDescribes ==
  ASSUME LoopTypeOK, Described, NEW t \in Trainer, OpenBundle(t)
  PROVE  Described'
<1> DEFINE v == trainer[t].version
<1>1. /\ OneRun(t) /\ SameRun(trainer[t], trainer'[t]) /\ v \in Version
      /\ trainer[t].pc = "fitted" /\ trainer'[t].pc = "dumping"
  BY SavingMoves
<1>2. /\ \A w \in Version : bundle'[w].by = IF w = v THEN t ELSE bundle[w].by
      /\ UNCHANGED <<metrics, served, cached>>
  BY <1>1 DEF OpenBundle, api, LoopTypeOK
<1>3. trainer'[t].version = v /\ trainer'[t].force = trainer[t].force /\ (trainer[t].force \/ v = 1)
  BY <1>1 DEF SameRun, Described, Authors
<1>4. t # Shipped /\ t # NoAuthor
  BY AuthorAssumption
<1>5. \A w \in Version : bundle[w].by # t
  BY <1>1 DEF Described, Authors, Saving
<1>6. Authors'
  <2>1. bundle'[0].by # NoAuthor /\ bundle'[1].by # Shipped
    BY <1>2, <1>4 DEF Described, Authors, Version
  <2>2. ASSUME NEW o \in Trainer
        PROVE  /\ trainer'[o].pc \notin {"idle", "stopped"} /\ ~trainer'[o].force => trainer'[o].version = 1
               /\ trainer'[o].pc \in Saving => bundle'[trainer'[o].version].by \in Trainer
    <3>1. trainer[o].version \in Version
      BY DEF LoopTypeOK, TrainState
    <3>2. CASE o = t
      BY <1>1, <1>2, <1>3, <3>2
    <3>3. CASE o # t
      BY <1>1, <1>2, <3>1, <3>3 DEF OneRun, Described, Authors
    <3> QED
      BY <3>2, <3>3
  <2>3. ASSUME NEW w \in Version, bundle'[w].by \in Trainer
        PROVE  trainer'[bundle'[w].by].pc \in Saving /\ trainer'[bundle'[w].by].version = w
    <3>1. CASE w = v
      BY <1>1, <1>2, <1>3, <3>1 DEF Saving
    <3>2. CASE w # v
      BY <1>1, <1>2, <1>5, <2>3, <3>2 DEF OneRun, Described, Authors
    <3> QED
      BY <3>1, <3>2
  <2> QED
    BY <1>2, <2>1, <2>2, <2>3 DEF Described, Authors
<1>7. VersionsStay'
  <2>1. served \in Version /\ cached \in Author \cup {NoAuthor}
    BY DEF LoopTypeOK
  <2>2. CASE served = v
    <3>1. cached \notin {NoAuthor, t} => trainer[t].force \/ ({t, cached} \subseteq Trainer /\ served = 1)
      BY <1>3, <2>1, <2>2 DEF Described, Authors, Author
    <3> QED
      BY <1>2, <1>3, <2>1, <2>2, <3>1 DEF VersionsStay
  <2>3. CASE served # v
    <3> DEFINE u == bundle[served].by
    <3>1. bundle'[served].by = u /\ u # t
      BY <1>2, <1>5, <2>1, <2>3
    <3>2. u \in Trainer => trainer'[u] = trainer[u]
      BY <1>1, <3>1 DEF OneRun
    <3>3. cached \notin {NoAuthor, u} => (u \in Trainer /\ trainer[u].force) \/ ({u, cached} \subseteq Trainer /\ served = 1)
      BY DEF Described, VersionsStay
    <3> HIDE DEF u
    <3> QED
      BY <1>2, <3>1, <3>2, <3>3 DEF VersionsStay
  <2> QED
    BY <2>2, <2>3
<1>8. MetricsDescribeBundle'
  <2>1. ASSUME NEW w \in Version, metrics'[w].by # bundle'[w].by
        PROVE  \/ bundle'[w].by \in Trainer /\ trainer'[bundle'[w].by].pc \in {"dumping", "saved", "killed"}
               \/ {bundle'[w].by, metrics'[w].by} \subseteq Trainer
    <3>1. CASE w = v
      BY <1>1, <1>2, <3>1
    <3>2. CASE w # v
      <4> DEFINE u == bundle[w].by
      <4>1. bundle'[w].by = u /\ u # t /\ metrics'[w].by = metrics[w].by
        BY <1>2, <1>5, <3>2
      <4>2. u \in Trainer => trainer'[u] = trainer[u]
        BY <1>1, <4>1 DEF OneRun
      <4>3. \/ u \in Trainer /\ trainer[u].pc \in {"dumping", "saved", "killed"}
            \/ {u, metrics[w].by} \subseteq Trainer
        BY <2>1, <4>1 DEF Described, MetricsDescribeBundle
      <4> HIDE DEF u
      <4> QED
        BY <4>1, <4>2, <4>3
    <3> QED
      BY <3>1, <3>2
  <2> QED
    BY <2>1 DEF MetricsDescribeBundle
<1> QED
  BY <1>6, <1>7, <1>8 DEF Described

(* A run writes its metrics: beside its own bundle, or that of another run *)
(* of the version.                                                         *)
LEMMA MetricsDescribed ==
  ASSUME LoopTypeOK, Described, NEW t \in Trainer, WriteMetrics(t)
  PROVE  Described'
<1> DEFINE v == trainer[t].version
<1>1. /\ OneRun(t) /\ SameRun(trainer[t], trainer'[t]) /\ v \in Version
      /\ trainer[t].pc = "saved" /\ trainer'[t].pc = "done"
  BY SavingMoves
<1>2. /\ \A w \in Version : metrics'[w].by = IF w = v THEN t ELSE metrics[w].by
      /\ UNCHANGED <<bundle, served, cached>>
  BY <1>1 DEF WriteMetrics, api, LoopTypeOK
<1>3. \A o \in Trainer : /\ trainer'[o].version = trainer[o].version /\ trainer'[o].force = trainer[o].force
                         /\ trainer'[o].pc \in Saving <=> trainer[o].pc \in Saving
                         /\ trainer[o].pc \in {"idle", "stopped"} => trainer'[o].pc \in {"idle", "stopped"}
                         /\ o # t => trainer'[o] = trainer[o]
  BY <1>1 DEF OneRun, SameRun, Saving
<1>4. bundle[v].by \in Trainer
  BY <1>1 DEF Described, Authors, Saving
<1>5. Authors'
  <2>1. \A o \in Trainer :
          /\ trainer'[o].pc \notin {"idle", "stopped"} /\ ~trainer'[o].force => trainer'[o].version = 1
          /\ trainer'[o].pc \in Saving => bundle'[trainer'[o].version].by \in Trainer
    BY <1>1, <1>2, <1>3 DEF Described, Authors, Saving
  <2>2. \A w \in Version : bundle'[w].by \in Trainer =>
          trainer'[bundle'[w].by].pc \in Saving /\ trainer'[bundle'[w].by].version = w
    BY <1>2, <1>3 DEF Described, Authors
  <2> QED
    BY <1>2, <2>1, <2>2 DEF Described, Authors
<1>6. VersionsStay'
  BY <1>2, <1>3 DEF Described, VersionsStay
<1>7. MetricsDescribeBundle'
  <2>1. ASSUME NEW w \in Version, metrics'[w].by # bundle'[w].by
        PROVE  \/ bundle'[w].by \in Trainer /\ trainer'[bundle'[w].by].pc \in {"dumping", "saved", "killed"}
               \/ {bundle'[w].by, metrics'[w].by} \subseteq Trainer
    <3>1. CASE w = v
      BY <1>2, <1>4, <3>1
    <3>2. CASE w # v
      <4> DEFINE u == bundle[w].by
      <4>1. bundle'[w].by = u /\ metrics'[w].by = metrics[w].by
        BY <1>2, <3>2
      <4>2. u = t => trainer[t].version = w
        BY <1>1 DEF Described, Authors
      <4>3. u \in Trainer => trainer'[u] = trainer[u]
        BY <1>3, <3>2, <4>2
      <4>4. \/ u \in Trainer /\ trainer[u].pc \in {"dumping", "saved", "killed"}
            \/ {u, metrics[w].by} \subseteq Trainer
        BY <2>1, <4>1 DEF Described, MetricsDescribeBundle
      <4> HIDE DEF u
      <4> QED
        BY <4>1, <4>3, <4>4
    <3> QED
      BY <3>1, <3>2
  <2> QED
    BY <2>1 DEF MetricsDescribeBundle
<1> QED
  BY <1>5, <1>6, <1>7 DEF Described

LEMMA DescribedInit == LoopInit => Described
<1> SUFFICES ASSUME LoopInit
             PROVE  Described
  OBVIOUS
<1>1. /\ \A v \in Version : bundle[v].by = (IF v = 0 THEN Shipped ELSE NoAuthor) /\ metrics[v].by = bundle[v].by
      /\ 0 \in Version /\ 1 \in Version /\ cached = NoAuthor
  BY DEF LoopInit, Version
<1>2. \A t \in Trainer : trainer[t].pc = "idle"
  BY DEF LoopInit, NoTraining
<1>3. NoAuthor # Shipped /\ NoAuthor \notin Trainer /\ Shipped \notin Trainer
  BY AuthorAssumption
<1>4. Authors
  BY <1>1, <1>2, <1>3 DEF Authors, Saving
<1>5. VersionsStay /\ MetricsDescribeBundle
  BY <1>1 DEF VersionsStay, MetricsDescribeBundle
<1> QED
  BY <1>4, <1>5 DEF Described

LEMMA DescribedStep == LoopTypeOK /\ Described /\ [LoopNext]_loopVars => Described'
<1> SUFFICES ASSUME LoopTypeOK, Described, [LoopNext]_loopVars
             PROVE  Described'
  OBVIOUS
<1>1. LoopTypeOK' /\ served' \in Version
  BY LoopTypeStep DEF Described, LoopTypeOK
<1>2. \A t \in Trainer : trainer[t].pc \notin {"idle", "stopped"} /\ ~trainer[t].force => trainer[t].version = 1
  BY DEF Described, Authors
<1> USE DEF artifacts, api
<1>3. ASSUME NEW e \in Exporter, Exports(e)
      PROVE  Described'
  BY <1>1, <1>2, <1>3, ExportsMark, DescribedStays
<1>4. ASSUME NEW e \in Exporter, Fails(e)
      PROVE  Described'
  BY <1>1, <1>2, <1>4, DescribedStays DEF Fails
<1>5. ASSUME NEW t \in Trainer, NEW v \in Version, NEW force \in BOOLEAN, Start(t, v, force)
      PROVE  Described'
  <2>1. /\ OneRun(t) /\ trainer[t].pc = "idle"
        /\ trainer'[t].pc = "stopped"
           \/ (/\ trainer'[t].pc = "checked" /\ trainer'[t].version = v
               /\ trainer'[t].force \/ bundle[v].by = NoAuthor)
    BY <1>5, StartMoves
  <2>2. bundle[v].by = NoAuthor => v = 1
    BY DEF Described, Authors, Version
  <2>3. UNCHANGED <<bundle, metrics, served, cached>>
    BY <1>5 DEF Start
  <2>4. \A o \in Trainer :
          /\ trainer'[o].pc \notin {"idle", "stopped"} /\ ~trainer'[o].force => trainer'[o].version = 1
          /\ trainer'[o].pc \in Saving <=> trainer[o].pc \in Saving
          /\ trainer[o].pc \in Saving => trainer'[o] = trainer[o]
    BY <1>2, <2>1, <2>2 DEF OneRun, Saving
  <2> QED
    BY <1>1, <2>3, <2>4, DescribedStays
<1>6. ASSUME NEW t \in Trainer, ReadFeedback(t) \/ Fit(t) \/ Ends(t) \/ CloseBundle(t)
      PROVE  Described'
  <2> DEFINE p == trainer[t]
             q == trainer'[t]
  <2>1. /\ OneRun(t)
        /\ p.pc \notin {"idle", "stopped"}
        /\ q.pc = "stopped" \/ (q.version = p.version /\ q.force = p.force)
        /\ q.pc \in Saving <=> p.pc \in Saving
        /\ p.pc \in Saving => /\ p.pc \in {"dumping", "saved"} /\ q.pc \in {"saved", "killed"}
    BY <1>6, ReadMoves, FitMoves, KillMoves, SavingMoves DEF SameRun, Saving, Ends
  <2>2. /\ UNCHANGED <<metrics, served, cached>>
        /\ \A v \in Version : bundle'[v].by = bundle[v].by
    <3>1. CASE CloseBundle(t)
      BY <3>1 DEF CloseBundle, LoopTypeOK
    <3> QED
      BY <1>6, <3>1 DEF ReadFeedback, Fit, Ends
  <2>3. \A o \in Trainer :
          /\ trainer'[o].pc \notin {"idle", "stopped"} /\ ~trainer'[o].force => trainer'[o].version = 1
          /\ trainer'[o].pc \in Saving <=> trainer[o].pc \in Saving
          /\ trainer[o].pc \in Saving =>
                /\ trainer'[o].version = trainer[o].version /\ trainer'[o].force = trainer[o].force
                /\ trainer[o].pc \in {"dumping", "saved", "killed"} => trainer'[o].pc \in {"dumping", "saved", "killed"}
    BY <1>2, <2>1 DEF OneRun, Saving
  <2> QED
    BY <1>1, <2>2, <2>3, DescribedStays
<1>7. ASSUME NEW v \in Version, Serve(v)
      PROVE  Described'
  BY <1>1, <1>2, <1>7, DescribedStays DEF Serve
<1>8. CASE Load
  <2>1. UNCHANGED <<trainer, bundle, metrics, served>> /\ cached' = bundle[served].by
    BY <1>8 DEF Load
  <2>2. cached' = Shipped => served = 0
    BY <2>1 DEF LoopTypeOK, Version, Described, Authors
  <2> QED
    BY <2>1, <2>2 DEF Described, Authors, VersionsStay, MetricsDescribeBundle
<1>9. CASE UNCHANGED loopVars
  BY <1>1, <1>2, <1>9, DescribedStays DEF loopVars
<1> QED
  BY <1>3, <1>4, <1>5, <1>6, <1>7, <1>8, <1>9, LoopSteps, OpenDescribes, MetricsDescribed

-----------------------------------------------------------------------------
(* Exports, and what runs read *)

LEMMA ApartInit == LoopInit => ExportsApart
<1> SUFFICES ASSUME LoopInit
             PROVE  ExportsApart
  OBVIOUS
<1>1. /\ \A e \in Exporter : exporter[e].pc = "idle" /\ exporter[e].at = "tmp" /\ ~exporter[e].shared
      /\ file.whole /\ \A t \in Trainer : trainer[t].read.whole
  BY DEF LoopInit, NoTraining, Whole
<1> QED
  BY <1>1 DEF ExportsApart, TakeTurns, Uses

(* The other exports, while one moves: an export stays shared.             *)
LEMMA ExportStates ==
  ASSUME LoopTypeOK, ExportsApart, NEW e \in Exporter, Exports(e) \/ Fails(e)
  PROVE  /\ \A o \in Exporter : exporter'[o].pc \in {"idle", "collected"} => ~exporter'[o].shared
         /\ Shared => Shared'
<1> DEFINE x == exporter[e]
<1>1. \A o \in Exporter : exporter[o] \in ExportState
  BY DEF LoopTypeOK
<1>2. CASE Collect(e)
  <2>1. PICK rows \in SUBSET Correction :
          exporter' = [exporter EXCEPT ![e].pc = "collected", ![e].rows = rows]
    BY <1>2 DEF Collect
  <2>2. exporter' = [exporter EXCEPT ![e] = [x EXCEPT !.pc = "collected", !.rows = rows]] /\ x.pc = "idle"
    BY <1>2, <2>1 DEF Collect, LoopTypeOK, ExportState
  <2>3. [x EXCEPT !.pc = "collected", !.rows = rows].shared = x.shared
    BY <1>1 DEF ExportState
  <2>4. exporter'[e].shared = x.shared /\ \A o \in Exporter \ {e} : exporter'[o] = exporter[o]
    BY <2>2, <2>3 DEF LoopTypeOK
  <2> QED
    BY <2>2, <2>4 DEF ExportsApart, Shared
<1>3. CASE Open(e)
  <2> DEFINE others == {o \in Exporter : Uses(o)}
  <2>1. /\ x.pc = "collected" /\ ~x.shared
        /\ exporter'[e].pc = "writing"
        /\ \A o \in Exporter \ {e} : exporter'[o] = IF o \in others THEN [exporter[o] EXCEPT !.shared = TRUE]
                                                    ELSE exporter[o]
    BY <1>1, <1>3 DEF Open, ExportsApart, ExportState
  <2>2. \A o \in Exporter \ {e} :
          /\ exporter'[o].pc = exporter[o].pc
          /\ o \in others => exporter'[o].shared
          /\ o \notin others => exporter'[o] = exporter[o]
    <3>1. \A o \in Exporter : LET d == [exporter[o] EXCEPT !.shared = TRUE] IN d.shared /\ d.pc = exporter[o].pc
      BY <1>1 DEF ExportState
    <3> QED
      BY <2>1, <3>1
  <2>3. \A o \in others : exporter[o].pc \notin {"idle", "collected"}
    BY DEF Uses
  <2> HIDE DEF others
  <2> QED
    BY <2>1, <2>2, <2>3 DEF ExportsApart, Shared
<1>4. CASE Close(e)
  <2>1. exporter' = [exporter EXCEPT ![e] = [x EXCEPT !.pc = "written"]] /\ x.pc = "writing"
    BY <1>4 DEF Close
  <2>2. [x EXCEPT !.pc = "written"].shared = x.shared /\ [x EXCEPT !.pc = "written"].pc = "written"
    BY <1>1 DEF ExportState
  <2>3. exporter'[e].shared = x.shared /\ exporter'[e].pc = "written"
        /\ \A o \in Exporter \ {e} : exporter'[o] = exporter[o]
    BY <2>1, <2>2 DEF LoopTypeOK
  <2> QED
    BY <2>3 DEF ExportsApart, Shared
<1>5. CASE Replace(e) \/ Fails(e)
  <2>1. /\ exporter'[e].shared = x.shared /\ exporter'[e].pc \in {"ended"}
        /\ \A o \in Exporter \ {e} : exporter'[o].pc = exporter[o].pc /\ exporter'[o].shared = exporter[o].shared
    <3>1. CASE ~tmp.there \/ Fails(e)
      <4>1. exporter' = [exporter EXCEPT ![e] = [x EXCEPT !.pc = "ended", !.rows = {}]]
        BY <1>5, <3>1 DEF Replace, Fails, LoopTypeOK, ExportState
      <4>2. LET d == [x EXCEPT !.pc = "ended", !.rows = {}] IN d.shared = x.shared /\ d.pc = "ended"
        BY <1>1 DEF ExportState
      <4> QED
        BY <4>1, <4>2 DEF LoopTypeOK
    <3>2. CASE tmp.there /\ ~Fails(e)
      <4>1. exporter' = [o \in Exporter |->
                 IF o = e THEN [x EXCEPT !.pc = "ended", !.rows = {}]
                 ELSE IF Uses(o) THEN [exporter[o] EXCEPT !.at = "file"]
                 ELSE exporter[o]]
        BY <1>5, <3>2 DEF Replace
      <4>2. LET d == [x EXCEPT !.pc = "ended", !.rows = {}] IN d.shared = x.shared /\ d.pc = "ended"
        BY <1>1 DEF ExportState
      <4>3. \A o \in Exporter : LET d == [exporter[o] EXCEPT !.at = "file"]
                                IN  d.shared = exporter[o].shared /\ d.pc = exporter[o].pc
        BY <1>1 DEF ExportState
      <4> QED
        BY <4>1, <4>2, <4>3
    <3> QED
      BY <3>1, <3>2
  <2> QED
    BY <2>1 DEF ExportsApart, Shared
<1> QED
  BY <1>2, <1>3, <1>4, <1>5 DEF Exports

(* While none has been shared, an export has the temporary file alone.     *)
LEMMA TurnsAreTaken ==
  ASSUME LoopTypeOK, ~Shared, TakeTurns, NEW e \in Exporter, Exports(e) \/ Fails(e)
  PROVE  Shared' \/ TakeTurns'
<1> DEFINE x == exporter[e]
           y == exporter'[e]
<1>1. \A o \in Exporter : exporter[o] \in ExportState /\ ~exporter[o].shared /\ exporter[o].at = "tmp"
  BY DEF LoopTypeOK, Shared, TakeTurns
<1>2. file.whole /\ \A t \in Trainer : trainer[t].read.whole
  BY DEF TakeTurns
<1>3. CASE Collect(e) \/ Fails(e)
  <2>1. y.pc \in {"collected", "ended"} /\ y.at = x.at /\ \A o \in Exporter \ {e} : exporter'[o] = exporter[o]
    <3>1. CASE Collect(e)
      <4>1. PICK rows \in SUBSET Correction :
              exporter' = [exporter EXCEPT ![e].pc = "collected", ![e].rows = rows]
        BY <3>1 DEF Collect
      <4>2. exporter' = [exporter EXCEPT ![e] = [x EXCEPT !.pc = "collected", !.rows = rows]]
        BY <4>1 DEF LoopTypeOK, ExportState
      <4>3. LET d == [x EXCEPT !.pc = "collected", !.rows = rows] IN d.at = x.at /\ d.pc = "collected"
        BY <1>1 DEF ExportState
      <4> QED
        BY <4>2, <4>3 DEF LoopTypeOK
    <3>2. CASE Fails(e)
      <4>1. exporter' = [exporter EXCEPT ![e] = [x EXCEPT !.pc = "ended", !.rows = {}]]
        BY <3>2 DEF Fails, LoopTypeOK, ExportState
      <4>2. LET d == [x EXCEPT !.pc = "ended", !.rows = {}] IN d.at = x.at /\ d.pc = "ended"
        BY <1>1 DEF ExportState
      <4> QED
        BY <4>1, <4>2 DEF LoopTypeOK
    <3> QED
      BY <1>3, <3>1, <3>2
  <2>2. UNCHANGED <<file, tmp, trainer>>
    BY <1>3 DEF Collect, Fails, files
  <2>3. \A o \in Exporter : /\ exporter'[o].at = "tmp"
                            /\ exporter'[o].pc = "written" => exporter[o].pc = "written"
                            /\ Uses(o)' => Uses(o)
    BY <1>1, <2>1 DEF Uses
  <2> QED
    BY <2>2, <2>3 DEF TakeTurns
<1>4. CASE Open(e)
  <2> DEFINE others == {o \in Exporter : Uses(o)}
             w == [x EXCEPT !.pc = "writing", !.shared = others # {}]
  <2>1. y = w /\ \A o \in Exporter \ {e} : o \notin others => exporter'[o] = exporter[o]
    BY <1>4 DEF Open
  <2>2. w.shared = (others # {}) /\ w.at = x.at /\ w.pc = "writing"
    BY <1>1 DEF ExportState
  <2>3. CASE others # {}
    BY <2>1, <2>2, <2>3 DEF Shared
  <2>4. CASE others = {}
    <3>1. \A o \in Exporter : ~Uses(o) /\ exporter[o].pc # "written"
      BY <1>1, <2>4 DEF Uses
    <3>2. \A o \in Exporter : /\ exporter'[o].at = "tmp" /\ exporter'[o].pc # "written"
                              /\ Uses(o)' => o = e
      BY <1>1, <2>1, <2>2, <2>4, <3>1 DEF Uses
    <3>3. UNCHANGED <<file, trainer>>
      BY <1>4 DEF Open
    <3> QED
      BY <3>2, <3>3 DEF TakeTurns
  <2> QED
    BY <2>3, <2>4
<1>5. CASE Close(e)
  <2>1. exporter' = [exporter EXCEPT ![e] = [x EXCEPT !.pc = "written"]] /\ x.pc = "writing"
    BY <1>5 DEF Close
  <2>2. [x EXCEPT !.pc = "written"].at = x.at /\ [x EXCEPT !.pc = "written"].pc = "written"
    BY <1>1 DEF ExportState
  <2>3. y.at = "tmp" /\ y.pc = "written" /\ \A o \in Exporter \ {e} : exporter'[o] = exporter[o]
    BY <1>1, <2>1, <2>2 DEF LoopTypeOK
  <2>4. tmp' = Whole(x.rows) /\ UNCHANGED <<file, trainer>>
    BY <1>1, <1>5 DEF Close
  <2>5. tmp'.whole
    BY <2>4 DEF Whole
  <2>6. \A o \in Exporter : exporter'[o].at = "tmp" /\ (Uses(o)' <=> Uses(o))
    BY <1>1, <2>1, <2>3 DEF Uses
  <2> QED
    BY <2>4, <2>5, <2>6 DEF TakeTurns
<1>6. CASE Replace(e)
  <2>1. x.pc = "written" /\ Uses(e) /\ tmp.whole
    BY <1>1, <1>6 DEF Replace, Uses, TakeTurns
  <2>2. \A o \in Exporter \ {e} : ~Uses(o) /\ exporter[o].pc # "written"
    BY <1>1, <2>1 DEF TakeTurns, Uses
  <2>3. y.pc \in {"ended"} /\ y.at = "tmp" /\ \A o \in Exporter \ {e} : exporter'[o] = exporter[o]
    <3>1. \A pc \in {"ended"} : LET d == [x EXCEPT !.pc = pc, !.rows = {}] IN d.at = "tmp" /\ d.pc = pc
      BY <1>1 DEF ExportState
    <3>2. CASE ~tmp.there
      <4>1. exporter' = [exporter EXCEPT ![e] = [x EXCEPT !.pc = "ended", !.rows = {}]]
        BY <1>6, <3>2 DEF Replace, LoopTypeOK, ExportState
      <4> QED
        BY <3>1, <4>1 DEF LoopTypeOK
    <3>3. CASE tmp.there
      <4>1. exporter' = [o \in Exporter |->
                 IF o = e THEN [x EXCEPT !.pc = "ended", !.rows = {}]
                 ELSE IF Uses(o) THEN [exporter[o] EXCEPT !.at = "file"]
                 ELSE exporter[o]]
        BY <1>6, <3>3 DEF Replace
      <4> QED
        BY <2>2, <3>1, <4>1
    <3> QED
      BY <3>2, <3>3
  <2>4. file'.whole /\ \A t \in Trainer : trainer'[t].read.whole
    <3>1. \A t \in Trainer : trainer'[t].read = trainer[t].read
      BY <1>6, ExportsMark DEF Exports
    <3>2. file' = file \/ file' = tmp
      BY <1>6 DEF Replace, FileBecomes, files
    <3> QED
      BY <1>2, <2>1, <3>1, <3>2
  <2>5. \A o \in Exporter : exporter'[o].at = "tmp" /\ exporter'[o].pc # "written" /\ ~Uses(o)'
    BY <1>1, <2>2, <2>3 DEF Uses
  <2> QED
    BY <2>4, <2>5 DEF TakeTurns
<1> QED
  BY <1>3, <1>4, <1>5, <1>6 DEF Exports

LEMMA ApartStep == LoopTypeOK /\ ExportsApart /\ [LoopNext]_loopVars => ExportsApart'
<1> SUFFICES ASSUME LoopTypeOK, ExportsApart, [LoopNext]_loopVars
             PROVE  ExportsApart'
  OBVIOUS
<1>1. ASSUME NEW e \in Exporter, Exports(e) \/ Fails(e)
      PROVE  ExportsApart'
  BY <1>1, ExportStates, TurnsAreTaken DEF ExportsApart
<1>2. ASSUME UNCHANGED <<files, exporter>>,
             \A t \in Trainer : trainer'[t].read.whole \/ trainer'[t].read.whole = trainer[t].read.whole
                                \/ trainer'[t].read = file
      PROVE  ExportsApart'
  BY <1>2 DEF ExportsApart, TakeTurns, Shared, Uses, files
<1>3. ASSUME NEW t \in Trainer, OneRun(t), UNCHANGED <<files, exporter>>,
             trainer'[t].read.whole \/ trainer'[t].read.whole = trainer[t].read.whole \/ trainer'[t].read = file
      PROVE  ExportsApart'
  BY <1>2, <1>3 DEF OneRun
<1>4. ASSUME NEW t \in Trainer, NEW v \in Version, NEW force \in BOOLEAN, Start(t, v, force)
      PROVE  ExportsApart'
  BY <1>3, <1>4, StartMoves DEF Start
<1>5. ASSUME NEW t \in Trainer, ReadFeedback(t) \/ Fit(t) \/ Ends(t)
      PROVE  ExportsApart'
  <2>1. UNCHANGED <<files, exporter>>
    BY <1>5 DEF ReadFeedback, Fit, Ends
  <2>2. OneRun(t) /\ (\/ trainer'[t].read.whole \/ trainer'[t].read.whole = trainer[t].read.whole
                      \/ trainer'[t].read = file)
    BY <1>5, ReadMoves, FitMoves, KillMoves DEF SameRun, Ends
  <2> QED
    BY <1>3, <2>1, <2>2
<1>6. ASSUME NEW t \in Trainer, OpenBundle(t) \/ CloseBundle(t) \/ WriteMetrics(t)
      PROVE  ExportsApart'
  <2>1. UNCHANGED <<files, exporter>>
    BY <1>6 DEF OpenBundle, CloseBundle, WriteMetrics
  <2>2. OneRun(t) /\ trainer'[t].read.whole = trainer[t].read.whole
    BY <1>6, SavingMoves DEF SameRun
  <2> QED
    BY <1>3, <2>1, <2>2
<1>7. CASE (\E v \in Version : Serve(v)) \/ Load \/ UNCHANGED loopVars
  <2>1. UNCHANGED <<files, exporter, trainer>>
    BY <1>7 DEF Serve, Load, loopVars
  <2> QED
    BY <1>2, <2>1
<1> QED
  BY <1>1, <1>4, <1>5, <1>6, <1>7, LoopSteps

-----------------------------------------------------------------------------
(* The signal to retrain *)

LEMMA NumbersInit == LoopInit => NumbersMatch
<1> SUFFICES ASSUME LoopInit
             PROVE  NumbersMatch
  OBVIOUS
<1>1. \A t \in Trainer : trainer[t].pc = "idle"
  BY DEF LoopInit, NoTraining
<1>2. \A v \in Version : metrics[v].by \in {Shipped, NoAuthor} /\ metrics[v].rows = 0
  BY DEF LoopInit
<1> QED
  BY <1>1, <1>2, AuthorAssumption DEF NumbersMatch

(* Steps that write no metrics, of one run at most.                        *)
LEMMA NumbersStay ==
  ASSUME NumbersMatch, UNCHANGED <<model, file, metrics>>, NEW t \in Trainer,
         \A o \in Trainer \ {t} : trainer'[o] = trainer[o],
         trainer[t].pc # "done", trainer'[t].pc = "read" => trainer'[t].read = file,
         trainer'[t].pc \in {"fitted", "dumping", "saved"} /\ Exact(t)' =>
           trainer'[t].noted = Cardinality(trainer'[t].used)
  PROVE  NumbersMatch'
<1>1. \A o \in Trainer \ {t} : Exact(o)' <=> Exact(o)
  BY DEF Exact
<1>2. \A o \in Trainer :
        /\ trainer'[o].pc = "read" /\ ~trainer'[o].drifted => trainer'[o].read = file
        /\ trainer'[o].pc \in {"fitted", "dumping", "saved"} /\ Exact(o)' =>
             trainer'[o].noted = Cardinality(trainer'[o].used)
  BY <1>1 DEF NumbersMatch
<1>3. \A v \in Version :
        /\ metrics[v].by = Shipped => metrics[v].rows = 0
        /\ metrics[v].by \in Trainer =>
             /\ trainer'[metrics[v].by].pc = "done"
             /\ Exact(metrics[v].by)' => metrics[v].rows = Cardinality(trainer'[metrics[v].by].used)
  BY <1>1 DEF NumbersMatch
<1> QED
  BY <1>2, <1>3 DEF NumbersMatch

LEMMA NumbersStep == LoopTypeOK /\ NumbersMatch /\ [LoopNext]_loopVars => NumbersMatch'
<1> SUFFICES ASSUME LoopTypeOK, NumbersMatch, [LoopNext]_loopVars
             PROVE  NumbersMatch'
  OBVIOUS
<1> USE DEF files, artifacts, api
<1>1. ASSUME NEW e \in Exporter, Exports(e)
      PROVE  NumbersMatch'
  <2>1. UNCHANGED <<model, metrics>>
    BY <1>1, ExportsMark
  <2>2. ASSUME NEW t \in Trainer
        PROVE  /\ trainer'[t].pc = "read" /\ ~trainer'[t].drifted => trainer'[t].read = file'
               /\ trainer[t].pc # "read" => trainer'[t] = trainer[t]
               /\ trainer[t].pc = "read" => trainer'[t].pc = "read"
    BY <1>1, ExportsMark DEF NumbersMatch
  <2>3. \A t \in Trainer : trainer[t].pc # "read" => (Exact(t)' <=> Exact(t))
    BY <2>1, <2>2 DEF Exact
  <2>4. \A t \in Trainer :
          trainer'[t].pc \in {"fitted", "dumping", "saved"} /\ Exact(t)' =>
            trainer'[t].noted = Cardinality(trainer'[t].used)
    BY <2>2, <2>3 DEF NumbersMatch
  <2>5. \A v \in Version :
          /\ metrics[v].by = Shipped => metrics[v].rows = 0
          /\ metrics[v].by \in Trainer =>
               /\ trainer'[metrics[v].by].pc = "done"
               /\ Exact(metrics[v].by)' => metrics[v].rows = Cardinality(trainer'[metrics[v].by].used)
    BY <2>1, <2>2, <2>3 DEF NumbersMatch
  <2> QED
    BY <2>1, <2>2, <2>4, <2>5 DEF NumbersMatch
<1>2. ASSUME NEW t \in Trainer, NEW v \in Version, NEW force \in BOOLEAN, Start(t, v, force)
      PROVE  NumbersMatch'
  <2>1. UNCHANGED <<model, file, metrics>>
    BY <1>2 DEF Start
  <2>2. OneRun(t) /\ trainer[t].pc = "idle" /\ trainer'[t].pc \in {"stopped", "checked"}
    BY <1>2, StartMoves
  <2> QED
    BY <2>1, <2>2, NumbersStay DEF OneRun
<1>3. ASSUME NEW t \in Trainer, ReadFeedback(t) \/ Ends(t)
      PROVE  NumbersMatch'
  <2>1. UNCHANGED <<model, file, metrics>>
    BY <1>3 DEF ReadFeedback, Ends
  <2>2. /\ OneRun(t) /\ trainer[t].pc # "done" /\ trainer'[t].pc \in {"read", "stopped", "killed"}
        /\ trainer'[t].pc = "read" => trainer'[t].read = file
    BY <1>3, ReadMoves, KillMoves DEF Ends
  <2> QED
    BY <2>1, <2>2, NumbersStay DEF OneRun
<1>4. ASSUME NEW t \in Trainer, Fit(t)
      PROVE  NumbersMatch'
  <2>1. UNCHANGED <<model, file, metrics>>
    BY <1>4 DEF Fit
  <2>2. /\ OneRun(t) /\ trainer[t].pc = "read" /\ trainer'[t].pc = "fitted"
        /\ trainer'[t].noted = Noted(trainer'[t].used)
        /\ trainer'[t].drifted \/ (~trainer[t].drifted /\ trainer'[t].used = trainer[t].read.rows)
    BY <1>4, FitMoves
  <2>3. ~trainer[t].drifted => trainer[t].read = file
    BY <2>2 DEF NumbersMatch
  <2>4. Exact(t)' => trainer'[t].noted = Cardinality(trainer'[t].used)
    BY <2>1, <2>2, <2>3 DEF Exact, Noted
  <2> QED
    BY <2>1, <2>2, <2>4, NumbersStay DEF OneRun
<1>5. ASSUME NEW t \in Trainer, OpenBundle(t) \/ CloseBundle(t)
      PROVE  NumbersMatch'
  <2>1. UNCHANGED <<model, file, metrics>>
    BY <1>5 DEF OpenBundle, CloseBundle
  <2>2. /\ OneRun(t) /\ trainer[t].pc \in {"fitted", "dumping"} /\ trainer'[t].pc \in {"dumping", "saved"}
        /\ trainer'[t].used = trainer[t].used /\ trainer'[t].noted = trainer[t].noted
        /\ trainer'[t].drifted = trainer[t].drifted
    BY <1>5, SavingMoves DEF SameRun
  <2>3. Exact(t)' => trainer'[t].noted = Cardinality(trainer'[t].used)
    BY <2>1, <2>2 DEF Exact, NumbersMatch
  <2> QED
    BY <2>1, <2>2, <2>3, NumbersStay DEF OneRun
<1>6. ASSUME NEW t \in Trainer, WriteMetrics(t)
      PROVE  NumbersMatch'
  <2> DEFINE w == trainer[t].version
  <2>1. /\ OneRun(t) /\ trainer[t].pc = "saved" /\ trainer'[t].pc = "done" /\ w \in Version
        /\ trainer'[t].used = trainer[t].used /\ trainer'[t].drifted = trainer[t].drifted
    BY <1>6, SavingMoves DEF SameRun
  <2>2. /\ UNCHANGED <<model, file>>
        /\ metrics'[w] = [by |-> t, rows |-> trainer[t].noted]
        /\ \A v \in Version \ {w} : metrics'[v] = metrics[v]
    BY <1>6, <2>1 DEF WriteMetrics, LoopTypeOK
  <2>3. \A o \in Trainer : Exact(o)' <=> Exact(o)
    BY <2>1, <2>2 DEF Exact, OneRun
  <2>4. \A o \in Trainer :
          /\ trainer'[o].pc = "read" /\ ~trainer'[o].drifted => trainer'[o].read = file'
          /\ trainer'[o].pc \in {"fitted", "dumping", "saved"} /\ Exact(o)' =>
               trainer'[o].noted = Cardinality(trainer'[o].used)
    BY <2>1, <2>2, <2>3 DEF NumbersMatch, OneRun
  <2>5. ASSUME NEW v \in Version, NEW u, u = metrics'[v].by
        PROVE  /\ u = Shipped => metrics'[v].rows = 0
               /\ u \in Trainer => /\ trainer'[u].pc = "done"
                                   /\ model' = "category" \/ ~trainer'[u].drifted =>
                                        metrics'[v].rows = Cardinality(trainer'[u].used)
    <3>1. CASE v = w
      <4>1. u = t /\ metrics'[v].rows = trainer[t].noted /\ t # Shipped
        BY <2>2, <2>5, <3>1, AuthorAssumption
      <4>2. Exact(t) => trainer[t].noted = Cardinality(trainer[t].used)
        BY <2>1 DEF NumbersMatch
      <4> QED
        BY <2>1, <2>2, <4>1, <4>2 DEF Exact
    <3>2. CASE v # w
      <4>1. metrics'[v] = metrics[v] /\ u = metrics[v].by
        BY <2>2, <2>5, <3>2
      <4>2. /\ u = Shipped => metrics[v].rows = 0
            /\ u \in Trainer => /\ trainer[u].pc = "done"
                                /\ Exact(u) => metrics[v].rows = Cardinality(trainer[u].used)
        BY <4>1 DEF NumbersMatch
      <4>3. u \in Trainer => u # t
        BY <2>1, <4>2
      <4>4. u \in Trainer => trainer'[u] = trainer[u]
        BY <2>1, <4>3 DEF OneRun
      <4> QED
        BY <2>2, <4>1, <4>2, <4>4 DEF Exact
    <3> QED
      BY <3>1, <3>2
  <2> QED
    BY <2>4, <2>5 DEF NumbersMatch, Exact
<1>7. CASE \/ \E e \in Exporter : Fails(e)
           \/ \E v \in Version : Serve(v)
           \/ Load \/ UNCHANGED loopVars
  <2>1. UNCHANGED <<model, file, metrics, trainer>>
    BY <1>7 DEF Fails, Serve, Load, loopVars
  <2> QED
    BY <2>1 DEF NumbersMatch, Exact
<1> QED
  BY <1>1, <1>2, <1>3, <1>4, <1>5, <1>6, <1>7, LoopSteps

LEMMA SignalFollows == LoopTypeOK /\ NumbersMatch => SignalIsExact
<1> SUFFICES ASSUME LoopTypeOK, NumbersMatch
             PROVE  SignalIsExact
  OBVIOUS
<1> DEFINE t == bundle[served].by
           used == IF t \in Trainer THEN trainer[t].used ELSE {}
           available == Cardinality(file.rows)
           unseen == Cardinality(file.rows \ used)
           counted == \/ model = "category" \/ t = Shipped
                      \/ t \in Trainer /\ ~trainer[t].drifted
<1>1. SUFFICES ASSUME t # NoAuthor, metrics[served].by = t, counted
               PROVE  Signal <= unseen /\ (used \subseteq file.rows => Signal = unseen)
  BY DEF SignalIsExact
<1>2. served \in Version /\ t \in Author
  BY <1>1 DEF LoopTypeOK
<1>3. file.rows \in SUBSET Correction /\ used \in SUBSET Correction
  BY DEF LoopTypeOK, Content, TrainState
<1>4. metrics[served].rows = Cardinality(used)
  <2>1. CASE t \in Trainer
    <3>1. Exact(t)
      BY <1>1, <2>1, AuthorAssumption DEF Exact
    <3> QED
      BY <1>1, <1>2, <2>1, <3>1 DEF NumbersMatch
  <2>2. CASE t \notin Trainer
    <3>1. t = Shipped
      BY <1>2, <2>2 DEF Author
    <3> QED
      BY <1>1, <1>2, <2>2, <3>1, FS_EmptySet DEF NumbersMatch
  <2> QED
    BY <2>1, <2>2
<1> HIDE DEF used, t
<1>5. /\ IsFiniteSet(file.rows) /\ available \in Nat /\ IsFiniteSet(used) /\ Cardinality(used) \in Nat
      /\ unseen \in Nat /\ file.rows \cap used \in SUBSET Correction
  <2>1. file.rows \ used \in SUBSET Correction
    BY <1>3
  <2> QED
    BY <1>3, <2>1, RowsAreCounted
<1>6. unseen = available - Cardinality(file.rows \cap used) /\ Cardinality(file.rows \cap used) \in Nat
  BY <1>5, RowsAreCounted, FS_Difference
<1>7. Cardinality(file.rows \cap used) <= Cardinality(used)
  <2>1. file.rows \cap used \in SUBSET used
    OBVIOUS
  <2> QED
    BY <1>5, <2>1, FS_Subset
<1>8. used \subseteq file.rows => file.rows \cap used = used
  OBVIOUS
<1>9. Signal = IF available > Cardinality(used) THEN available - Cardinality(used) ELSE 0
  BY <1>4 DEF Signal
<1> HIDE DEF available, unseen
<1>10. Signal <= unseen
  BY <1>5, <1>6, <1>7, <1>9
<1>11. used \subseteq file.rows => Signal = unseen
  BY <1>5, <1>6, <1>8, <1>9
<1> QED
  BY <1>10, <1>11

-----------------------------------------------------------------------------
LoopInv == LoopTypeOK /\ Described /\ ExportsApart /\ NumbersMatch

LEMMA LoopInvHolds == LoopSpec => []LoopInv
<1>1. LoopInit => LoopInv
  BY LoopTypeInit, DescribedInit, ApartInit, NumbersInit DEF LoopInv
<1>2. LoopInv /\ [LoopNext]_loopVars => LoopInv'
  BY LoopTypeStep, DescribedStep, ApartStep, NumbersStep DEF LoopInv, Described
<1> QED
  BY <1>1, <1>2, PTL DEF LoopSpec

(* "so a training run never reads a half-written export": for any number   *)
(* of exports and runs, wherever one is killed, unless two exports had the *)
(* temporary file at once.                                                 *)
THEOREM ExportsAreReadWhole == LoopSpec => []ReadsWholeExports
<1>1. LoopInv => ReadsWholeExports
  BY DEF LoopInv, ExportsApart, TakeTurns, Shared, ReadsWholeExports
<1> QED
  BY <1>1, LoopInvHolds, PTL

(* The bundle the API predicts with is the one of the version it stores,   *)
(* and metrics are those of their bundle, but for the overlaps the         *)
(* properties name: --force, and two runs that train one new version.      *)
THEOREM ModelsStayConsistent == LoopSpec => []ModelsConsistent
<1>1. LoopInv => ModelsConsistent
  BY DEF LoopInv, Described, ModelsConsistent
<1> QED
  BY <1>1, LoopInvHolds, PTL

(* served_model_status tells how many corrections the served model has not *)
(* been fitted to, and never more, for any corrections, exports and runs.  *)
THEOREM SignalStaysExact == LoopSpec => []SignalIsExact
<1>1. LoopInv => SignalIsExact
  BY SignalFollows DEF LoopInv
<1> QED
  BY <1>1, LoopInvHolds, PTL
=============================================================================
