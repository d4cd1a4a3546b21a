------------------------------ MODULE MCRules ------------------------------
(***************************************************************************)
(* Small values for Rules.                                                 *)
(***************************************************************************)
EXTENDS Rules

CONSTANTS v, w, g, acme, globex, api1, api2, script, c1, c2, own, r1, r2

Visitors == {v, w}
Groups == {g}

(* Each kind of rule, two of those that count differently.                 *)
Phrases == {"time_pressure", "safety", "strong_anger", "shouting", "problem_reported", "calm_language"}
Percents == {0, 20, 40, 50, 60}
ClassWeightValues == {100, 150, 200}

(* Two sessions of the API, which has two connections, and a script.       *)
Tenants == {acme, globex}
Sessions == {api1, api2, script}
Scripts == {script}
Connections == {c1, c2, own}
Own == {own}
Rows == {r1, r2}

(* Rounded to 0, 0, 1 and 2 digits; the second and the last lie halfway.   *)
GridScores == {0, 2, 3, 6}
Distances == {0, 1}

(* Headings of one word; one of them comes back, one is the document's     *)
(* own title, and one reads like a part.                                   *)
Words == {"Title", "Returns", "Refunds", "part", "/"}
Top == <<<<"Title", 0>>>>
Returns == <<<<"Returns", 0>>>>
ReturnsPart1 == <<<<"Returns", 0>>, <<"part", 1>>>>
Refunds == <<<<"Refunds", 0>>>>

Text(sentences) == [level |-> 0, heading |-> <<>>, text |-> sentences]
Heading(level, heading, sentences) == [level |-> level, heading |-> heading, text |-> sentences]

(* Eight characters with a token each, then eight more within the last of  *)
(* them. What a text begins with begins a token.                           *)
Begins(text, i) == i = 1 \/ text[i] % 16 \in 1 .. 8

(* Texts that fit, that are split at sentences or words, and cut.          *)
BlockSet ==
  {Text(<<<<1>>>>), Text(<<<<2>>, <<3, 4>>, <<6>>>>), Text(<<<<2, 9>>>>), Text(<<<<4, 8>>, <<9>>>>), Text(<<<<2, 14>>>>),
   Heading(1, Top, <<>>), Heading(1, Returns, <<>>), Heading(2, Returns, <<<<3>>>>),
   Heading(2, Refunds, <<>>), Heading(1, ReturnsPart1, <<<<1>>>>)}
=============================================================================
