--------------------------- MODULE MCTeamAccounts ---------------------------
(* Instances of TeamAccounts for TLC. *)
EXTENDS TeamAccounts, TLC

CONSTANTS ann, bob, carol, s1, s2

People == {ann, bob, carol}
Admins == {ann, bob}
Slots == {s1, s2}

Symmetry == Permutations(Slots) \cup Permutations(Admins)
=============================================================================
