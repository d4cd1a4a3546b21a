---------------------------- MODULE ClassWeights ----------------------------
(***************************************************************************)
(* tune_class_weights: the search for the class weights of a bundle. Each  *)
(* setting of the grid has a macro-F1, a recall on `high` and a distance   *)
(* from weights of 1; the loop keeps the best so far. A score is a whole   *)
(* number of the smallest differences; Grain of them make one fourth digit.*)
(***************************************************************************)
EXTENDS Integers, Sequences

CONSTANTS
  Score,      (* the values that F1 and recall may have                    *)
  Distance,
  Grain,      (* what scores are rounded to                                *)
  Settings    (* the number of settings in the grid                        *)

ASSUME GridAssumption == /\ Score \subseteq Nat /\ Distance \subseteq Nat /\ Settings \in Nat
                         /\ Grain \in Nat \ {0}

VARIABLES
  minimum,    (* min_last_recall                                           *)
  tried,      (* the settings scored so far                                *)
  best        (* the index of the best of them; 0 before the first         *)

tuningVars == <<minimum, tried, best>>

Setting == [f1 : Score, recall : Score, distance : Distance]

TuningTypeOK ==
  /\ minimum \in Score /\ tried \in Seq(Setting) /\ Len(tried) <= Settings
  /\ best \in 0 .. Len(tried) /\ (tried # <<>> => best # 0)

TuningInit == minimum \in Score /\ tried = <<>> /\ best = 0

Feasible(s) == s.recall >= minimum

(* round: to the nearest multiple of Grain; from halfway, to an even one.  *)
Rounded(score) ==
  LET below == score \div Grain
      rest == 2 * (score % Grain)
  IN  IF rest > Grain \/ (rest = Grain /\ below % 2 = 1) THEN below + 1 ELSE below

MutantKey(s) == <<IF Feasible(s) THEN 1 ELSE 0, Rounded(s.f1), Rounded(s.recall), -s.distance>>

Key(s) ==
  <<IF Feasible(s) THEN 1 ELSE 0, IF Feasible(s) THEN Rounded(s.f1) ELSE 0, Rounded(s.recall), -s.distance>>

(* Tuples are compared at the first place where they differ.               *)
Above(k, l) == \E i \in 1 .. Len(k) : k[i] > l[i] /\ \A j \in 1 .. i - 1 : k[j] = l[j]

MutantTry(s) ==
  /\ Len(tried) < Settings
  /\ tried' = Append(tried, s)
  /\ best' = IF best = 0 \/ Above(Key(s), Key(tried[best])) THEN Len(tried) ELSE best
  /\ UNCHANGED minimum

Try(s) ==
  /\ Len(tried) < Settings
  /\ tried' = Append(tried, s)
  /\ best' = IF best = 0 \/ Above(Key(s), Key(tried[best])) THEN Len(tried) + 1 ELSE best
  /\ UNCHANGED minimum

TuningNext == \E s \in Setting : Try(s)

TuningSpec == TuningInit /\ [][TuningNext]_tuningVars

-----------------------------------------------------------------------------
(* "maximise macro-F1 among the settings whose recall [...] is at least    *)
(* min_last_recall; if none reach it, the highest recall wins. Ties go to  *)
(* higher last-class recall, then to the weights closest to 1": of scores  *)
(* as they are rounded, so that what is kept may be less than the maximum, *)
(* by one fourth digit at most. The minimal recall is reached exactly.     *)
TunedAsPromised ==
  best # 0 =>
    LET chosen == tried[best]
        settled(s) == \/ Rounded(s.recall) < Rounded(chosen.recall)
                      \/ Rounded(s.recall) = Rounded(chosen.recall) /\ s.distance >= chosen.distance
        among == {i \in 1 .. Len(tried) : Feasible(tried[i])}
    IN  IF among # {}
          THEN /\ best \in among
               /\ \A i \in among : /\ tried[i].f1 <= chosen.f1 + Grain
                                    /\ \/ Rounded(tried[i].f1) < Rounded(chosen.f1)
                                       \/ Rounded(tried[i].f1) = Rounded(chosen.f1) /\ settled(tried[i])
          ELSE \A i \in 1 .. Len(tried) : settled(tried[i]) /\ tried[i].recall <= chosen.recall + Grain
=============================================================================
