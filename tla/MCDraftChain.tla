---------------------------- MODULE MCDraftChain ----------------------------
(* Instances of DraftChain for TLC. *)
EXTENDS DraftChain

AnyAnswer == Failures \cup {"usable", "garbled"}
=============================================================================
