---------------------------- MODULE TrainingLoop ----------------------------
(***************************************************************************)
(* The feedback loop outside the API: exports of reviewers' corrections    *)
(* replace one file, training runs read it and save versions of a model,   *)
(* an operator serves a version, and each export tells how many            *)
(* corrections the served model has not been trained on.                   *)
(*                                                                         *)
(* One model, the category or the urgency classifier: they share only the  *)
(* file. A changed correction is another correction. What reviewers have   *)
(* corrected when an export reads is any set (see TriageCorrections).      *)
(***************************************************************************)
EXTENDS Naturals, FiniteSets

CONSTANTS
  Correction,   (* labels of tickets that reviewers corrected              *)
  Exporter,     (* runs of export_feedback, by a timer or by hand          *)
  Trainer,      (* runs of the training script of the model                *)
  Shipped,      (* the training run whose version is in the repository     *)
  NoAuthor      (* no training run                                         *)

ASSUME CorrectionAssumption == IsFiniteSet(Correction)
ASSUME AuthorAssumption == Shipped \notin Trainer /\ NoAuthor \notin Trainer \cup {Shipped}

VARIABLES
  model,        (* which of the two                                        *)
  file, tmp,    (* corrections.csv, and the file an export writes first    *)
  exporter, trainer,
  bundle,       (* model.joblib of each version                            *)
  metrics,      (* metrics.json of each version                            *)
  served,       (* the version in the API's settings                       *)
  cached        (* load_bundle's cache: whose bundle the API predicts with *)

files == <<file, tmp>>
artifacts == <<bundle, metrics>>
api == <<served, cached>>
loopVars == <<model, files, exporter, trainer, artifacts, api>>

-----------------------------------------------------------------------------
Version == {0, 1}   (* 0 is in the repository *)

(* A file's rows, whether it was written to its end, and whether it is     *)
(* there: an export of no corrections is, with its header. Where there has *)
(* been no export training reads the same.                                 *)
Content == [rows : SUBSET Correction, whole : BOOLEAN, there : BOOLEAN]
Whole(rows) == [rows |-> rows, whole |-> TRUE, there |-> TRUE]
Half == [rows |-> {}, whole |-> FALSE, there |-> TRUE]
Absent == [rows |-> {}, whole |-> TRUE, there |-> FALSE]

(* rows: what it collected. at: where the file it has open is, in case     *)
(* another export moves it. shared: another has opened it too and not      *)
(* moved it.                                                               *)
ExportState == [pc : {"idle", "collected", "writing", "written", "ended"},
                rows : SUBSET Correction, at : {"tmp", "file"}, shared : BOOLEAN]

(* read: the content it read. used: the rows it fitted. noted: the number  *)
(* for its metrics. drifted: the file changed meanwhile, or it did not use *)
(* what it read (a record of the model's own).                             *)
TrainState == [pc : {"idle", "checked", "read", "fitted", "dumping", "saved", "done", "stopped", "killed"},
               version : Version, force : BOOLEAN, read : Content,
               used : SUBSET Correction, noted : Nat, drifted : BOOLEAN]

NoTraining(pc) == [pc |-> pc, version |-> 0, force |-> FALSE, read |-> Whole({}),
                   used |-> {}, noted |-> 0, drifted |-> FALSE]

Author == Trainer \cup {Shipped}

LoopTypeOK ==
  /\ model \in {"category", "urgency"}
  /\ {file, tmp} \subseteq Content
  /\ exporter \in [Exporter -> ExportState]
  /\ trainer \in [Trainer -> TrainState]
  /\ bundle \in [Version -> [by : Author \cup {NoAuthor}, whole : BOOLEAN]]
  /\ metrics \in [Version -> [by : Author \cup {NoAuthor}, rows : Nat]]
  /\ served \in Version
  /\ cached \in Author \cup {NoAuthor}
  /\ \A v \in Version : bundle[v].by = NoAuthor => metrics[v].by = NoAuthor

LoopInit ==
  /\ model \in {"category", "urgency"}
  /\ file = Whole({}) /\ tmp = Absent
  /\ exporter = [e \in Exporter |-> [pc |-> "idle", rows |-> {}, at |-> "tmp", shared |-> FALSE]]
  /\ trainer = [t \in Trainer |-> NoTraining("idle")]
  /\ bundle = [v \in Version |-> [by |-> IF v = 0 THEN Shipped ELSE NoAuthor, whole |-> v = 0]]
  /\ metrics = [v \in Version |-> [by |-> IF v = 0 THEN Shipped ELSE NoAuthor, rows |-> 0]]
  /\ served = 0 /\ cached = NoAuthor

-----------------------------------------------------------------------------
(* An export *)

Collect(e) ==
  /\ exporter[e].pc = "idle"
  /\ \E rows \in SUBSET Correction :
       exporter' = [exporter EXCEPT ![e].pc = "collected", ![e].rows = rows]
  /\ UNCHANGED <<model, files, trainer, artifacts, api>>

Uses(e) == exporter[e].pc \in {"writing", "written"} /\ exporter[e].at = "tmp"

(* What changes the file changes it for those who have read it.            *)
FileBecomes(content) ==
  /\ file' = content
  /\ trainer' = [t \in Trainer |-> IF trainer[t].pc = "read" THEN [trainer[t] EXCEPT !.drifted = TRUE]
                                   ELSE trainer[t]]

MutantOpen(e) ==
  /\ exporter[e].pc = "collected"
  /\ FileBecomes(Half)
  /\ exporter' = [exporter EXCEPT ![e].pc = "writing", ![e].at = "file"]
  /\ UNCHANGED <<model, tmp, artifacts, api>>

(* to_csv opens the temporary file and empties it; every export has the    *)
(* same.                                                                   *)
Open(e) ==
  LET others == {o \in Exporter : Uses(o)} IN
    /\ exporter[e].pc = "collected"
    /\ tmp' = Half
    /\ exporter' = [o \in Exporter |->
         IF o = e THEN [exporter[e] EXCEPT !.pc = "writing", !.shared = others # {}]
         ELSE IF o \in others THEN [exporter[o] EXCEPT !.shared = TRUE]
         ELSE exporter[o]]
    /\ UNCHANGED <<model, file, trainer, artifacts, api>>

(* It writes its rows, wherever the file is by now; with another's, they   *)
(* may be mixed.                                                           *)
Close(e) ==
    /\ exporter[e].pc = "writing"
    /\ exporter' = [exporter EXCEPT ![e].pc = "written"]
    /\ \E content \in {Whole(exporter[e].rows)} \cup (IF exporter[e].shared THEN {Half} ELSE {}) :
         IF exporter[e].at = "tmp"
         THEN tmp' = content /\ UNCHANGED <<file, trainer>>
         ELSE FileBecomes(content) /\ UNCHANGED tmp
    /\ UNCHANGED <<model, artifacts, api>>

(* os.replace; it fails if another export has moved the file.              *)
Replace(e) ==
  /\ exporter[e].pc = "written"
  /\ IF ~tmp.there
       THEN /\ exporter' = [exporter EXCEPT ![e].pc = "ended", ![e].rows = {}]
            /\ UNCHANGED <<files, trainer>>
       ELSE /\ FileBecomes(tmp)
            /\ tmp' = Absent
            /\ exporter' = [o \in Exporter |->
                 IF o = e THEN [exporter[e] EXCEPT !.pc = "ended", !.rows = {}]
                 ELSE IF Uses(o) THEN [exporter[o] EXCEPT !.at = "file"]
                 ELSE exporter[o]]
  /\ UNCHANGED <<model, artifacts, api>>

(* served_model_status: how many corrections the served model is told not  *)
(* to have seen.                                                           *)
Signal ==
  LET available == Cardinality(file.rows)
      trained == metrics[served].rows
  IN  IF available > trained THEN available - trained ELSE 0

-----------------------------------------------------------------------------
(* A training run *)

MutantStart(t, v, force) ==
  /\ trainer[t].pc = "idle"
  /\ trainer' = [trainer EXCEPT ![t] = [NoTraining("checked") EXCEPT !.version = v, !.force = force]]
  /\ UNCHANGED <<model, files, exporter, artifacts, api>>

(* ensure_new_version: a version that exists is refused, without --force.  *)
Start(t, v, force) ==
  /\ trainer[t].pc = "idle"
  /\ trainer' = [trainer EXCEPT ![t] =
       IF bundle[v].by # NoAuthor /\ ~force THEN NoTraining("stopped")
       ELSE [NoTraining("checked") EXCEPT !.version = v, !.force = force]]
  /\ UNCHANGED <<model, files, exporter, artifacts, api>>

ReadFeedback(t) ==
  /\ trainer[t].pc = "checked"
  /\ trainer' = [trainer EXCEPT ![t].pc = "read", ![t].read = file]
  /\ UNCHANGED <<model, files, exporter, artifacts, api>>

MutantNoted(used) == Cardinality(file.rows)

(* The category script notes the rows it used; the urgency script counts   *)
(* those of the file, when it is done.                                     *)
Noted(used) == IF model = "category" THEN Cardinality(used) ELSE Cardinality(file.rows)

(* Corrections join the training data, but for the weight 0: an argument   *)
(* of the category script, chosen by cross-validation in the other.        *)
Fit(t) ==
  /\ trainer[t].pc = "read"
  /\ \E used \in {trainer[t].read.rows, {}} :
       trainer' = [trainer EXCEPT ![t].pc = "fitted", ![t].used = used, ![t].noted = Noted(used),
                                  ![t].read.rows = {}, ![t].drifted = @ \/ used # trainer[t].read.rows]
  /\ UNCHANGED <<model, files, exporter, artifacts, api>>

(* joblib.dump, from its first byte to its last.                           *)
OpenBundle(t) ==
  /\ trainer[t].pc = "fitted"
  /\ trainer' = [trainer EXCEPT ![t].pc = "dumping"]
  /\ bundle' = [bundle EXCEPT ![trainer[t].version] = [by |-> t, whole |-> FALSE]]
  /\ UNCHANGED <<model, files, exporter, metrics, api>>

CloseBundle(t) ==
  /\ trainer[t].pc = "dumping"
  /\ trainer' = [trainer EXCEPT ![t].pc = "saved"]
  /\ bundle' = [bundle EXCEPT ![trainer[t].version].whole = (@ \/ bundle[trainer[t].version].by = t)]
  /\ UNCHANGED <<model, files, exporter, metrics, api>>

WriteMetrics(t) ==
  /\ trainer[t].pc = "saved"
  /\ trainer' = [trainer EXCEPT ![t].pc = "done", ![t].noted = 0]
  /\ metrics' = [metrics EXCEPT ![trainer[t].version] = [by |-> t, rows |-> trainer[t].noted]]
  /\ UNCHANGED <<model, files, exporter, bundle, api>>

TrainStep(t) ==
  ReadFeedback(t) \/ Fit(t) \/ OpenBundle(t) \/ CloseBundle(t) \/ WriteMetrics(t)

(* The machine, or the operator, stops a script.                           *)
Kill ==
  /\ \/ \E e \in Exporter :
          /\ exporter[e].pc \in {"collected", "writing", "written"}
          /\ exporter' = [exporter EXCEPT ![e].pc = "ended", ![e].rows = {}]
          /\ UNCHANGED trainer
     \/ \E t \in Trainer :
          /\ trainer[t].pc \in {"checked", "read", "fitted", "dumping", "saved"}
          /\ trainer' = [trainer EXCEPT ![t] =
               IF trainer[t].pc \in {"dumping", "saved"} THEN [@ EXCEPT !.pc = "killed"]
               ELSE NoTraining("stopped")]
          /\ UNCHANGED exporter
  /\ UNCHANGED <<model, files, artifacts, api>>

-----------------------------------------------------------------------------
(* The API *)

(* The operator sets the version, and starts the API again.                *)
Serve(v) ==
  /\ served' = v
  /\ cached' = NoAuthor
  /\ UNCHANGED <<model, files, exporter, trainer, artifacts>>

(* load_bundle, at its first prediction: what it loads stays. Without a    *)
(* bundle the triage node fails.                                           *)
Load ==
  /\ cached = NoAuthor /\ bundle[served].whole
  /\ cached' = bundle[served].by
  /\ UNCHANGED <<model, files, exporter, trainer, artifacts, served>>

LoopNext ==
  \/ \E e \in Exporter : Collect(e) \/ Open(e) \/ Close(e) \/ Replace(e)
  \/ \E t \in Trainer, v \in Version, force \in BOOLEAN : Start(t, v, force)
  \/ \E t \in Trainer : TrainStep(t)
  \/ Kill
  \/ \E v \in Version : Serve(v)
  \/ Load

LoopSpec == LoopInit /\ [][LoopNext]_loopVars

-----------------------------------------------------------------------------
(* Properties *)

(* "so a training run never reads a half-written export", wherever an      *)
(* export is killed: unless two exports used the temporary file at once.   *)
ReadsWholeExports ==
  \A t \in Trainer :
    ~trainer[t].read.whole => \E e \in Exporter : exporter[e].shared

(* Predictions are stored with the version they were made by: its bundle   *)
(* is the one the API predicts with, unless the version was forced, or two *)
(* runs took the same new one.                                             *)
VersionsStay ==
  LET t == bundle[served].by IN
    cached \notin {NoAuthor, t} => \/ (t \in Trainer /\ trainer[t].force)
                               \/ ({t, cached} \subseteq Trainer /\ served = 1)

(* The signal to retrain: it is the number of corrections in the export    *)
(* that the served model was not fitted to if all that it was fitted to    *)
(* are still there, and never more. (Where the urgency script counted what *)
(* it did not use, or after its run was killed, it is not.)                *)
SignalIsExact ==
  LET t == bundle[served].by
      used == IF t \in Trainer THEN trainer[t].used ELSE {}
      unseen == Cardinality(file.rows \ used)
      counted == \/ model = "category" \/ t = Shipped
                 \/ t \in Trainer /\ ~trainer[t].drifted
  IN  t # NoAuthor /\ metrics[served].by = t /\ counted =>
        /\ Signal <= unseen
        /\ used \subseteq file.rows => Signal = unseen

(* The metrics of a version are those of its bundle, unless their writer   *)
(* is under way or was killed, or two runs wrote the version.              *)
MetricsDescribeBundle ==
  \A v \in Version :
    LET t == bundle[v].by IN
      metrics[v].by # t =>
        \/ t \in Trainer /\ trainer[t].pc \in {"dumping", "saved", "killed"}
        \/ {t, metrics[v].by} \subseteq Trainer

(* What the API serves, the bundle and the metrics belong together.        *)
ModelsConsistent == LoopTypeOK /\ VersionsStay /\ MetricsDescribeBundle
=============================================================================
