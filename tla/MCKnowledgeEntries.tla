------------------------- MODULE MCKnowledgeEntries -------------------------
(* Instances of KnowledgeEntries for TLC. *)
EXTENDS KnowledgeEntries, TLC

CONSTANTS s1, s2, n1, a, b, x, y, search, r1, r2

Sections2 == {s1, s2}
Singles == {n1}
Titles == {a, b}
Contents == {x, y}
Queries == {search}
Requests == {r1, r2}
=============================================================================
