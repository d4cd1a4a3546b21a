------------------------ MODULE MCKnowledgeDocuments ------------------------
(* Instances of KnowledgeDocuments for TLC. *)
EXTENDS KnowledgeDocuments, TLC

CONSTANTS ann, bob, w1, w2, w3, faq, terms

OneAdmin == {ann}
Admins == {ann, bob}
ThreeSlots == {w1, w2, w3}
Texts == {faq, terms}
OneText == {faq}

Symmetry == Permutations(Admins) \cup Permutations(ThreeSlots)
=============================================================================
