--------------------------- MODULE MCTrainingLoop ---------------------------
(* Instances of TrainingLoop for TLC. *)
EXTENDS TrainingLoop, TLC

CONSTANTS c1, c2, e1, e2, t1, t2

Corrections == {c1, c2}
Exporters == {e1, e2}
Trainers == {t1, t2}
Interchangeable == Permutations(Corrections) \cup Permutations(Exporters) \cup Permutations(Trainers)
=============================================================================
