--------------------------- MODULE MCContactForm ---------------------------
(* Instances of ContactForm for TLC. *)
EXTENDS ContactForm, TLC

CONSTANTS ann, Ann, bob

Spellings == {ann, Ann, bob}
Lowered == [e \in Spellings |-> IF e = bob THEN bob ELSE ann]
=============================================================================
