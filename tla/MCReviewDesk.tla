---------------------------- MODULE MCReviewDesk ----------------------------
(* Instances of ReviewDesk for TLC. *)
EXTENDS ReviewDesk

CONSTANTS r1, r2, ann, bob

Slots == {r1, r2}
Reviewers == {ann, bob}
FirstTicket == {1}
=============================================================================
