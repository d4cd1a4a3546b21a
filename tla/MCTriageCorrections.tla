------------------------ MODULE MCTriageCorrections ------------------------
(* Instances of TriageCorrections for TLC. *)
EXTENDS TriageCorrections, TLC

CONSTANTS refund, delay, low, high, ann, bob

Categories == {refund, delay}
Urgencies == {low, high}
Reviewers == {ann, bob}

Symmetry == Permutations(Categories) \cup Permutations(Urgencies) \cup Permutations(Reviewers)
=============================================================================
