------------------------- MODULE MCTicketLifecycle -------------------------
(* Instances of TicketLifecycle for TLC. *)
EXTENDS TicketLifecycle, TLC

CONSTANTS r1, r2, ann, bob

Slots == {r1, r2}
Reviewers == {ann, bob}
OneReviewer == {ann}
FirstTicket == {1}

Symmetry == Permutations(Slots) \cup Permutations(Reviewers)
=============================================================================
