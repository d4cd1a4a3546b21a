---------------------------- MODULE RulesProofs ----------------------------
(***************************************************************************)
(* Proofs about the small parts of the program: the backups, the tuning of *)
(* class weights, the urgency rules, the limiters, the sessions of the     *)
(* tenants and the splitting of documents, each on its own and all of them *)
(* together, for every value of their constants.                           *)
(***************************************************************************)
EXTENDS Rules, FiniteSetTheorems, SequenceTheorems, WellFoundedInduction, TLAPS

-----------------------------------------------------------------------------
(* Backups *)

LEMMA KeepType == KeepDays \in Nat /\ Days \in Nat /\ MaxManual \in Nat
  BY KeepAssumption

LEMMA BackupStarts == BackupInit => BackupTypeOK /\ DumpsAsPromised
  BY KeepType DEF BackupInit, BackupTypeOK, DumpsAsPromised, NightsAreWhole, NightsAreKept

(* Only nightly dumps have the number 0, and they never change.            *)
LEMMA BackupStep ==
  ASSUME BackupTypeOK, DumpsAsPromised, [BackupNext]_backupVars
  PROVE  BackupTypeOK' /\ DumpsAsPromised'
<1> USE KeepType DEF BackupTypeOK, Dump, DumpsAsPromised, NightsAreWhole, NightsAreKept, Nightly, Manual
<1>1. CASE NextDay
  BY <1>1 DEF NextDay
<1>2. CASE DumpEnds
  BY <1>2 DEF DumpEnds
<1>3. CASE Move
  <2> DEFINE file == Nightly(day, TRUE)
  <2>1. file \in Dump /\ file.whole /\ file.day = day
    OBVIOUS
  <2>2. /\ dumps' = dumps \cup {file} /\ nights' = nights \cup {day}
        /\ partial' = partial \ {day} /\ loop' = "pruning" /\ UNCHANGED <<day, byHand, manual>>
        /\ day \in 0 .. day
    BY <1>3 DEF Move
  <2>3. BackupTypeOK'
    <3> HIDE DEF file
    <3> QED BY <2>1, <2>2
  <2>4. NightsAreWhole'
    BY <2>2
  <2>5. NightsAreKept'
    BY <2>2
  <2> QED BY <2>3, <2>4, <2>5
<1>4. CASE DumpFails
  BY <1>4 DEF DumpFails
<1>5. CASE Prune
  BY <1>5 DEF Prune
<1>6. CASE BackupNow
  <2> DEFINE file == Manual(day, manual + 1, FALSE)
  <2>1. file \in Dump /\ file.number # 0
    OBVIOUS
  <2>2. /\ manual' = manual + 1 /\ manual < MaxManual /\ dumps' = dumps \cup {file}
        /\ byHand' \in {0, manual + 1} /\ UNCHANGED <<day, partial, loop, nights>>
    BY <1>6 DEF BackupNow
  <2> HIDE DEF file
  <2>3. BackupTypeOK'
    BY <2>1, <2>2
  <2>4. NightsAreWhole' /\ NightsAreKept'
    BY <2>1, <2>2
  <2> QED BY <2>3, <2>4
<1>7. CASE EndByHand
  BY <1>7 DEF EndByHand
<1>8. CASE Stop
  BY <1>8 DEF Stop
<1>9. CASE StartLoop
  BY <1>9 DEF StartLoop
<1>10. CASE UNCHANGED backupVars
  BY <1>10 DEF backupVars
<1> QED BY <1>1, <1>2, <1>3, <1>4, <1>5, <1>6, <1>7, <1>8, <1>9, <1>10 DEF BackupNext

(* A nightly file is a whole dump, and is kept for as long as promised,    *)
(* wherever the loop fails or the container is stopped.                    *)
THEOREM BackupsAreKept == BackupSpec => []DumpsAsPromised
<1>1. BackupInit => BackupTypeOK /\ DumpsAsPromised
  BY BackupStarts
<1>2. BackupTypeOK /\ DumpsAsPromised /\ [BackupNext]_backupVars => (BackupTypeOK /\ DumpsAsPromised)'
  BY BackupStep
<1> QED BY <1>1, <1>2, PTL DEF BackupSpec

-----------------------------------------------------------------------------
(* The tuning of class weights *)

KeyType == Nat \X Nat \X Nat \X Int

LEMMA TimesRises ==
  ASSUME NEW a \in Nat, NEW b \in Nat, a <= b, NEW c \in Nat
  PROVE  a * c <= b * c
  OBVIOUS

(* Rounding changes a score by half a digit at most.                       *)
LEMMA RoundedIsNear ==
  ASSUME NEW x \in Nat
  PROVE  /\ Rounded(x) \in Nat
         /\ 2 * x <= 2 * (Grain * Rounded(x)) + Grain
         /\ 2 * (Grain * Rounded(x)) <= 2 * x + Grain
<1> DEFINE q == x \div Grain
           r == x % Grain
<1>1. Grain \in Nat \ {0}
  BY GridAssumption
<1>2. q \in Nat /\ r \in Nat /\ r < Grain /\ x = Grain * q + r
  BY <1>1
<1>3. \/ Rounded(x) = q /\ 2 * r <= Grain
      \/ Rounded(x) = q + 1 /\ 2 * r >= Grain
  BY <1>1, <1>2 DEF Rounded
<1> HIDE DEF q, r
<1>4. Grain * (q + 1) = Grain * q + Grain /\ Grain * q \in Nat
  BY <1>1, <1>2
<1>5. CASE Rounded(x) = q /\ 2 * r <= Grain
  BY <1>1, <1>2, <1>4, <1>5
<1>6. CASE Rounded(x) = q + 1 /\ 2 * r >= Grain
  BY <1>1, <1>2, <1>4, <1>6
<1> QED BY <1>3, <1>5, <1>6

(* What is not rounded to more is not more by a whole digit.               *)
LEMMA RoundingIsFair ==
  ASSUME NEW x \in Nat, NEW y \in Nat, Rounded(x) <= Rounded(y)
  PROVE  x <= y + Grain
<1> DEFINE a == Rounded(x)
           b == Rounded(y)
<1>1. Grain \in Nat \ {0}
  BY GridAssumption
<1>2. /\ a \in Nat /\ 2 * x <= 2 * (Grain * a) + Grain
      /\ b \in Nat /\ 2 * (Grain * b) <= 2 * y + Grain
  BY RoundedIsNear
<1> HIDE DEF a, b
<1>3. a * Grain <= b * Grain
  BY <1>1, <1>2, TimesRises DEF a, b
<1>4. Grain * a = a * Grain /\ Grain * b = b * Grain /\ a * Grain \in Nat /\ b * Grain \in Nat
  BY <1>1, <1>2
<1> DEFINE u == a * Grain
           v == b * Grain
<1>5. u \in Nat /\ v \in Nat /\ u <= v /\ 2 * x <= 2 * u + Grain /\ 2 * v <= 2 * y + Grain
  BY <1>2, <1>3, <1>4
<1> HIDE DEF u, v
<1> QED BY <1>1, <1>5

LEMMA KeyIsTyped ==
  ASSUME NEW s \in Setting, minimum \in Nat
  PROVE  Key(s) \in {0, 1} \X Nat \X Nat \X Int
<1>1. s.f1 \in Nat /\ s.recall \in Nat /\ s.distance \in Nat
  BY GridAssumption DEF Setting
<1>2. Rounded(s.f1) \in Nat /\ Rounded(s.recall) \in Nat
  BY <1>1, RoundedIsNear
<1>3. /\ (IF Feasible(s) THEN 1 ELSE 0) \in {0, 1} /\ -s.distance \in Int
      /\ (IF Feasible(s) THEN Rounded(s.f1) ELSE 0) \in Nat
  BY <1>1, <1>2
<1> QED BY <1>2, <1>3 DEF Key

(* One key is not above another: the first three components, then the last.*)
NotAbove(k, l) ==
  \/ k[1] < l[1]
  \/ k[1] = l[1] /\ k[2] < l[2]
  \/ k[1] = l[1] /\ k[2] = l[2] /\ k[3] < l[3]
  \/ k[1] = l[1] /\ k[2] = l[2] /\ k[3] = l[3] /\ k[4] <= l[4]

LEMMA AboveIsLexicographic ==
  ASSUME NEW k \in KeyType, NEW l \in KeyType
  PROVE  ~Above(k, l) <=> NotAbove(k, l)
<1>1. /\ Len(k) = 4 /\ k[1] \in Nat /\ k[2] \in Nat /\ k[3] \in Nat /\ k[4] \in Int
      /\ l[1] \in Nat /\ l[2] \in Nat /\ l[3] \in Nat /\ l[4] \in Int
  BY DEF KeyType
<1>2. Above(k, l) <=> \/ k[1] > l[1]
                      \/ k[2] > l[2] /\ k[1] = l[1]
                      \/ k[3] > l[3] /\ k[1] = l[1] /\ k[2] = l[2]
                      \/ k[4] > l[4] /\ k[1] = l[1] /\ k[2] = l[2] /\ k[3] = l[3]
  <2>1. 1 .. Len(k) = {1, 2, 3, 4}
    BY <1>1
  <2>2. 1 .. 1 - 1 = {} /\ 1 .. 2 - 1 = {1} /\ 1 .. 3 - 1 = {1, 2} /\ 1 .. 4 - 1 = {1, 2, 3}
    OBVIOUS
  <2> QED BY <2>1, <2>2 DEF Above
<1> QED BY <1>1, <1>2 DEF NotAbove

(* No setting tried so far is above the best.                              *)
BestIsHighest ==
  best # 0 => \A i \in 1 .. Len(tried) : ~Above(Key(tried[i]), Key(tried[best]))

LEMMA KeyOrder ==
  ASSUME NEW j \in KeyType, NEW k \in KeyType, NEW l \in KeyType
  PROVE  /\ ~Above(k, k)
         /\ ~Above(j, k) /\ Above(l, k) => ~Above(j, l)
<1>1. NotAbove(k, k) /\ (NotAbove(j, k) /\ ~NotAbove(l, k) => NotAbove(j, l))
  BY DEF KeyType, NotAbove
<1> QED BY <1>1, AboveIsLexicographic

LEMMA TuningStep ==
  ASSUME TuningTypeOK, BestIsHighest, [TuningNext]_tuningVars
  PROVE  TuningTypeOK' /\ BestIsHighest'
<1>1. CASE UNCHANGED tuningVars
  BY <1>1 DEF tuningVars, TuningTypeOK, BestIsHighest, Key, Feasible
<1>2. ASSUME NEW s \in Setting, Try(s)
      PROVE  TuningTypeOK' /\ BestIsHighest'
  <2> DEFINE n == Len(tried)
  <2>1. /\ n \in Nat /\ n < Settings /\ tried \in Seq(Setting) /\ minimum \in Nat
        /\ minimum \in Score /\ best \in 0 .. n /\ (n # 0 => best # 0)
    BY <1>2, GridAssumption DEF Try, TuningTypeOK
  <2>2. /\ tried' = Append(tried, s) /\ UNCHANGED minimum
        /\ best' = IF best = 0 \/ Above(Key(s), Key(tried[best])) THEN n + 1 ELSE best
    BY <1>2 DEF Try
  <2>3. /\ tried' \in Seq(Setting) /\ Len(tried') = n + 1 /\ tried'[n + 1] = s
        /\ \A i \in 1 .. n : tried'[i] = tried[i] /\ tried[i] \in Setting
    BY <2>1, <2>2
  <2>4. TuningTypeOK'
    BY <2>1, <2>2, <2>3, GridAssumption DEF TuningTypeOK
  <2>5. \A z \in Setting : Key(z)' = Key(z) /\ Key(z) \in KeyType
    BY <2>1, <2>2, KeyIsTyped DEF Key, Feasible, KeyType
  <2>6. BestIsHighest'
    <3> SUFFICES ASSUME NEW i \in 1 .. n + 1
                 PROVE  ~Above(Key(tried'[i]), Key(tried'[best']))
      <4>1. best' \in 1 .. n + 1 /\ tried'[best'] \in Setting
        BY <2>1, <2>2, <2>3
      <4>2. \A i \in 1 .. n + 1 : tried'[i] \in Setting
        BY <2>3
      <4> QED BY <2>3, <2>5, <4>1, <4>2 DEF BestIsHighest, Key, Feasible
    <3>1. tried'[i] \in Setting
      BY <2>3
    <3>2. CASE best = 0
      <4>1. i = 1 /\ best' = 1
        BY <2>1, <2>2, <3>2
      <4> QED BY <2>5, <3>1, <4>1, KeyOrder
    <3>3. CASE best # 0 /\ Above(Key(s), Key(tried[best]))
      <4>1. best' = n + 1 /\ tried[best] \in Setting /\ tried'[best'] = s
        BY <2>1, <2>2, <2>3, <3>3
      <4>2. CASE i = n + 1
        BY <2>5, <3>1, <4>1, <4>2, KeyOrder
      <4>3. CASE i \in 1 .. n
        <5>1. ~Above(Key(tried'[i]), Key(tried[best]))
          BY <2>3, <3>3, <4>3 DEF BestIsHighest
        <5> QED BY <2>5, <3>1, <3>3, <4>1, <5>1, KeyOrder
      <4> QED BY <2>1, <4>2, <4>3
    <3>4. CASE best # 0 /\ ~Above(Key(s), Key(tried[best]))
      <4>1. best' = best /\ best \in 1 .. n /\ tried'[best'] = tried[best]
        BY <2>1, <2>2, <2>3, <3>4
      <4>2. CASE i = n + 1
        BY <2>3, <3>4, <4>1, <4>2
      <4>3. CASE i \in 1 .. n
        BY <2>3, <3>4, <4>1, <4>3 DEF BestIsHighest
      <4> QED BY <2>1, <4>2, <4>3
    <3> QED BY <3>2, <3>3, <3>4
  <2> QED BY <2>4, <2>6
<1> QED BY <1>1, <1>2 DEF TuningNext

LEMMA HighestIsPromised ==
  ASSUME TuningTypeOK, BestIsHighest
  PROVE  TunedAsPromised
<1> SUFFICES ASSUME best # 0 PROVE TunedAsPromised
  BY DEF TunedAsPromised
<1> DEFINE chosen == tried[best]
           settled(s) == \/ Rounded(s.recall) < Rounded(chosen.recall)
                         \/ Rounded(s.recall) = Rounded(chosen.recall) /\ s.distance >= chosen.distance
           near(i) == /\ tried[i].f1 <= chosen.f1 + Grain
                      /\ \/ Rounded(tried[i].f1) < Rounded(chosen.f1)
                         \/ Rounded(tried[i].f1) = Rounded(chosen.f1) /\ settled(tried[i])
           among == {i \in 1 .. Len(tried) : Feasible(tried[i])}
<1>1. best \in 1 .. Len(tried) /\ minimum \in Nat
  BY GridAssumption DEF TuningTypeOK
<1>2. \A i \in 1 .. Len(tried) : tried[i] \in Setting
  BY DEF TuningTypeOK
<1>3. ASSUME NEW i \in 1 .. Len(tried)
      PROVE  /\ Feasible(chosen) \/ ~Feasible(tried[i])
             /\ Feasible(chosen) /\ Feasible(tried[i]) => near(i)
             /\ ~Feasible(chosen) /\ ~Feasible(tried[i]) =>
                  settled(tried[i]) /\ tried[i].recall <= chosen.recall + Grain
  <2>1. Key(tried[i]) \in KeyType /\ Key(chosen) \in KeyType
    BY <1>1, <1>2, KeyIsTyped, SMTT(30) DEF KeyType
  <2>2. NotAbove(Key(tried[i]), Key(chosen))
    BY <2>1, AboveIsLexicographic DEF BestIsHighest
  <2>3. /\ tried[i].f1 \in Nat /\ tried[i].recall \in Nat /\ tried[i].distance \in Nat
        /\ chosen.f1 \in Nat /\ chosen.recall \in Nat /\ chosen.distance \in Nat
    BY <1>1, <1>2, GridAssumption DEF Setting
  <2> DEFINE score == Rounded(tried[i].f1)
             recall == Rounded(tried[i].recall)
             highest == Rounded(chosen.f1)
             reached == Rounded(chosen.recall)
  <2>4. /\ score \in Nat /\ recall \in Nat /\ highest \in Nat /\ reached \in Nat
        /\ score <= highest => tried[i].f1 <= chosen.f1 + Grain
        /\ recall <= reached => tried[i].recall <= chosen.recall + Grain
    BY <2>3, RoundedIsNear, RoundingIsFair
  <2> DEFINE k == Key(tried[i])
             l == Key(chosen)
  <2>5. /\ k[1] = IF Feasible(tried[i]) THEN 1 ELSE 0
        /\ k[2] = IF Feasible(tried[i]) THEN score ELSE 0
        /\ l[1] = IF Feasible(chosen) THEN 1 ELSE 0
        /\ l[2] = IF Feasible(chosen) THEN highest ELSE 0
        /\ k[3] = recall /\ k[4] = -tried[i].distance
        /\ l[3] = reached /\ l[4] = -chosen.distance
    BY DEF Key
  <2>6. NotAbove(k, l)
    BY <2>2
  <2> HIDE DEF score, recall, highest, reached, k, l
  <2>7. CASE Feasible(chosen)
    <3>1. CASE Feasible(tried[i])
      <4>1. \/ score < highest
            \/ score = highest /\ recall < reached
            \/ score = highest /\ recall = reached /\ tried[i].distance >= chosen.distance
        BY <2>3, <2>4, <2>5, <2>6, <2>7, <3>1 DEF NotAbove
      <4>2. score <= highest /\ near(i)
        BY <2>4, <4>1 DEF score, recall, highest, reached
      <4> QED BY <2>7, <4>2
    <3> QED BY <2>7, <3>1
  <2>8. CASE ~Feasible(chosen)
    <3>1. ~Feasible(tried[i])
      BY <2>5, <2>6, <2>8 DEF NotAbove
    <3>2. \/ recall < reached
          \/ recall = reached /\ tried[i].distance >= chosen.distance
      BY <2>3, <2>4, <2>5, <2>6, <2>8, <3>1 DEF NotAbove
    <3>3. recall <= reached /\ settled(tried[i])
      BY <2>4, <3>2 DEF recall, reached
    <3> QED BY <2>4, <2>8, <3>1, <3>3
  <2> QED BY <2>7, <2>8
<1>4. CASE Feasible(chosen)
  <2>1. best \in among
    BY <1>1, <1>4
  <2>2. \A i \in among : near(i)
    BY <1>3, <1>4
  <2> QED BY <2>1, <2>2 DEF TunedAsPromised
<1>5. CASE ~Feasible(chosen)
  <2>1. /\ among = {}
        /\ \A i \in 1 .. Len(tried) : settled(tried[i]) /\ tried[i].recall <= chosen.recall + Grain
    BY <1>3, <1>5
  <2> QED BY <2>1 DEF TunedAsPromised
<1> QED BY <1>4, <1>5

LEMMA TuningStarts == TuningInit => TuningTypeOK /\ BestIsHighest
  BY GridAssumption DEF TuningInit, TuningTypeOK, BestIsHighest

(* The setting kept is the one the search promises: the best F1 among      *)
(* those that reach the recall, else the highest recall, ties as stated;   *)
(* all as rounded, so that no score is missed by more than a digit.        *)
THEOREM TuningKeepsThePromise == TuningSpec => []TunedAsPromised
<1>1. TuningInit => TuningTypeOK /\ BestIsHighest
  BY TuningStarts
<1>2. TuningTypeOK /\ BestIsHighest /\ [TuningNext]_tuningVars => (TuningTypeOK /\ BestIsHighest)'
  BY TuningStep
<1>3. TuningTypeOK /\ BestIsHighest => TunedAsPromised
  BY HighestIsPromised
<1> QED BY <1>1, <1>2, <1>3, PTL DEF TuningSpec

-----------------------------------------------------------------------------
(* Urgency and escalation *)

LEMMA TicketStarts == TicketInit => TicketTypeOK
  BY DEF TicketInit, TicketTypeOK, Tone

LEMMA TicketTyped ==
  ASSUME TicketTypeOK, [TicketNext]_ticketVars
  PROVE  TicketTypeOK'
  BY DEF TicketTypeOK, TicketNext, ticketVars, Write, Predict

(* The first of the largest exists.                                        *)
LEMMA ArgMaxExists ==
  ASSUME NEW scores \in [Class -> Int]
  PROVE  ArgMax(scores) \in Class /\ \A d \in Class : scores[d] <= scores[ArgMax(scores)]
<1>1. Class = {1, 2, 3}
  BY DEF Class, Urgency
<1>2. 1 .. 1 - 1 = {} /\ 1 .. 2 - 1 = {1} /\ 1 .. 3 - 1 = {1, 2}
  OBVIOUS
<1>3. scores[1] \in Int /\ scores[2] \in Int /\ scores[3] \in Int
  BY <1>1
<1>4. \E c \in Class : /\ \A d \in Class : scores[d] <= scores[c]
                       /\ \A d \in 1 .. c - 1 : scores[d] < scores[c]
  <2>1. CASE scores[1] >= scores[2] /\ scores[1] >= scores[3]
    BY <1>1, <1>2, <1>3, <2>1
  <2>2. CASE scores[1] < scores[2] /\ scores[2] >= scores[3]
    BY <1>1, <1>2, <1>3, <2>2
  <2>3. CASE scores[1] < scores[3] /\ scores[2] < scores[3]
    BY <1>1, <1>2, <1>3, <2>3
  <2> QED BY <1>3, <2>1, <2>2, <2>3
<1> QED BY <1>4 DEF ArgMax

(* A label that only its weight made the largest has at most half of the   *)
(* probability: less than the minimum, if that is more than a half.        *)
LEMMA OverruledIsUnsure ==
  ASSUME TicketTypeOK, MinConfidence > 50
  PROVE  OverruledIsFlagged
<1> SUFFICES ASSUME Asked, Predicted # ArgMax(model.proba) PROVE NeedsEscalation
  BY DEF OverruledIsFlagged
<1>1. Class = {1, 2, 3}
  BY DEF Class, Urgency
<1>2. /\ model.proba \in [Class -> Int] /\ model.weights \in [Class -> Int]
      /\ model.proba[1] + model.proba[2] + model.proba[3] = 100
      /\ \A c \in Class : model.proba[c] >= 0
  <2>1. model.proba \in Proba /\ model.weights \in Weights
    BY DEF TicketTypeOK, Asked, ModelRow
  <2>2. Percent \subseteq 0 .. 100 /\ Weight \subseteq Nat
    BY PercentAssumption
  <2>3. /\ model.proba \in [Class -> Percent] /\ model.weights \in [Class -> Weight]
        /\ model.proba[1] + model.proba[2] + model.proba[3] = 100
    BY <2>1 DEF Proba, Weights
  <2>4. ASSUME NEW c \in Class PROVE model.proba[c] \in 0 .. 100 /\ model.weights[c] \in Nat
    <3>1. model.proba[c] \in Percent /\ model.weights[c] \in Weight
      BY <2>3
    <3> QED BY <2>2, <3>1
  <2> QED BY <2>3, <2>4
<1>3. Scores \in [Class -> Int]
  <2>1. \A c \in Class : model.proba[c] * model.weights[c] \in Int
    BY <1>2
  <2> QED BY <2>1 DEF Scores
<1>4. Predicted \in Class /\ ArgMax(model.proba) \in Class
  BY <1>2, <1>3, ArgMaxExists DEF Predicted
<1>5. model.proba[Predicted] <= model.proba[ArgMax(model.proba)]
  BY <1>2, <1>4, ArgMaxExists
<1>6. Confidence <= 50 /\ Confidence \in Int
  <2> DEFINE p == Predicted
             a == ArgMax(model.proba)
  <2>1. p \in {1, 2, 3} /\ a \in {1, 2, 3} /\ p # a /\ model.proba[p] <= model.proba[a]
    BY <1>1, <1>4, <1>5
  <2>2. model.proba[1] >= 0 /\ model.proba[2] >= 0 /\ model.proba[3] >= 0
        /\ model.proba[1] \in Int /\ model.proba[2] \in Int /\ model.proba[3] \in Int
    BY <1>1, <1>2
  <2> HIDE DEF p, a
  <2>3. model.proba[p] <= 50 /\ model.proba[p] \in Int
    BY <1>2, <2>1, <2>2
  <2> QED BY <2>3 DEF Confidence, p
<1>7. Confidence < MinConfidence
  BY <1>6, PercentAssumption
<1>8. "urgency confidence" \in Reasons
  BY <1>7 DEF Reasons
<1> QED BY <1>8 DEF NeedsEscalation

(* Calm language cancels no signal but that of time pressure.              *)
LEMMA CalmCancelsLittle == CalmKeepsStakes
<1> SUFFICES ASSUME NEW signal \in Fired \cap (StrongHigh \ {"time_pressure"})
             PROVE  Urgency[WeakLabel] = "high" /\ NeedsEscalation
  BY DEF CalmKeepsStakes
<1>1. signal \notin CancelledByCalm
  BY DEF CancelledByCalm, StrongHigh
<1>2. signal \in StrongSignals
  BY <1>1 DEF StrongSignals, Votes
<1>3. WeakLabel = 3 /\ Urgency[3] = "high"
  BY <1>2 DEF WeakLabel, Urgency
<1>4. "urgency" \in Reasons \/ "signal" \in Reasons
  BY <1>2 DEF Reasons
<1> QED BY <1>3, <1>4 DEF NeedsEscalation

(* A ticket with a lot at stake is flagged however it is put, and so is    *)
(* one whose label only its class weight chose, if the minimal confidence  *)
(* is more than a half (it is 0.6 by default).                             *)
THEOREM StakesComeToAPerson ==
  ASSUME MinConfidence > 50
  PROVE  TicketSpec => []StakesAreFlagged
<1>1. TicketInit => TicketTypeOK
  BY TicketStarts
<1>2. TicketTypeOK /\ [TicketNext]_ticketVars => TicketTypeOK'
  BY TicketTyped
<1>3. TicketTypeOK => StakesAreFlagged
  BY CalmCancelsLittle, OverruledIsUnsure DEF StakesAreFlagged
<1> QED BY <1>1, <1>2, <1>3, PTL DEF TicketSpec

(* How the votes of a text are counted. *)

LEMMA FewWeakRules ==
  ASSUME NEW S
  PROVE  IsFiniteSet(S \cap WeakHigh) /\ Cardinality(S \cap WeakHigh) \in Nat
<1>1. IsFiniteSet(WeakHigh)
  <2>1. IsFiniteSet({}) /\ \A T, x : IsFiniteSet(T) => IsFiniteSet(T \cup {x})
    BY FS_EmptySet, FS_AddElement
  <2>2. WeakHigh = (((({} \cup {"strong_anger"}) \cup {"patience_lost"}) \cup {"shouting"})
                     \cup {"exclamation_burst"}) \cup {"very_negative"}
    BY DEF WeakHigh
  <2> QED BY <2>1, <2>2
<1>2. S \cap WeakHigh \subseteq WeakHigh
  OBVIOUS
<1> QED BY <1>1, <1>2, FS_Subset, FS_CardinalityType

(* More votes never make a label less urgent.                              *)
LEMMA MoreVotes ==
  ASSUME Votes \subseteq Votes'
  PROVE  WeakLabel' >= WeakLabel /\ StrongSignals \subseteq StrongSignals'
<1>1. StrongSignals \subseteq StrongSignals' /\ (Medium => Medium')
  BY DEF StrongSignals, Medium
<1>2. Weak \in Nat /\ Weak' \in Nat /\ Weak <= Weak'
  <2>1. (Votes \cap WeakHigh) \subseteq (Votes' \cap WeakHigh)
    OBVIOUS
  <2> QED BY <2>1, FewWeakRules, FS_Subset DEF Weak
<1> QED BY <1>1, <1>2 DEF WeakLabel

(* A tone that goes from bad to worse trades a medium vote for a weak one, *)
(* unless calm language cancels both.                                      *)
LEMMA WorseTone ==
  ASSUME words \subseteq Phrase, words \subseteq words', StaysAsCalm,
         Fired = words \cup {"negative_sentiment"}, Fired' = words' \cup {"very_negative"}
  PROVE  WeakLabel' >= WeakLabel
<1>1. "very_negative" \notin words /\ "negative_sentiment" \notin words
  BY PhraseAssumption DEF Pattern, ToneRule
<1>2. CASE LowRule \subseteq Fired
  <2>1. Votes \subseteq Votes'
    BY <1>2 DEF Votes, StaysAsCalm, CancelledByCalm
  <2> QED BY <2>1, MoreVotes
<1>3. CASE ~(LowRule \subseteq Fired)
  <2>1. Votes = words \cup {"negative_sentiment"} /\ Votes' = words' \cup {"very_negative"}
    BY <1>3 DEF Votes, StaysAsCalm
  <2>2. StrongSignals \subseteq StrongSignals'
    BY <2>1 DEF StrongSignals, StrongHigh
  <2>3. Weak \in Nat /\ Weak' \in Nat /\ Weak' >= Weak + 1
    <3> DEFINE more == (Votes \cap WeakHigh) \cup {"very_negative"}
    <3>1. more \subseteq Votes' \cap WeakHigh /\ "very_negative" \notin Votes \cap WeakHigh
      BY <1>1, <2>1 DEF WeakHigh
    <3>2. IsFiniteSet(Votes \cap WeakHigh) /\ Weak \in Nat
      BY FewWeakRules DEF Weak
    <3>3. Cardinality(more) = Weak + 1
      BY <3>1, <3>2, FS_AddElement DEF Weak
    <3>4. IsFiniteSet(Votes' \cap WeakHigh) /\ Cardinality(Votes' \cap WeakHigh) \in Nat
      BY FewWeakRules
    <3> HIDE DEF more
    <3>5. Cardinality(more) <= Cardinality(Votes' \cap WeakHigh)
      BY <3>1, <3>4, FS_Subset
    <3>6. Weak' = Cardinality(Votes' \cap WeakHigh)
      BY DEF Weak, WeakHigh
    <3> QED BY <3>2, <3>3, <3>4, <3>5, <3>6
  <2>4. CASE Weak = 0
    BY <2>2, <2>3, <2>4 DEF WeakLabel
  <2>5. CASE Weak >= 1
    <3>1. WeakLabel' = 3
      BY <2>3, <2>5 DEF WeakLabel
    <3> QED BY <2>2, <3>1 DEF WeakLabel
  <2> QED BY <2>2, <2>3, <2>4, <2>5
<1> QED BY <1>2, <1>3

LEMMA TicketStepIsNoLess ==
  ASSUME TicketTypeOK, words \subseteq words', tone' \in Tone, NoMilder, StaysAsCalm
  PROVE  WeakLabel' >= WeakLabel
<1>1. CASE tone = "negative" /\ tone' = "very negative"
  <2>1. Fired = words \cup {"negative_sentiment"} /\ Fired' = words' \cup {"very_negative"}
    BY <1>1 DEF Fired
  <2> QED BY <2>1, WorseTone DEF TicketTypeOK
<1>2. CASE tone = "neutral" \/ tone' = tone
  <2>1. Fired \subseteq Fired'
    BY <1>2 DEF Fired
  <2> QED BY <2>1, MoreVotes DEF Votes, StaysAsCalm
<1> QED BY <1>1, <1>2 DEF TicketTypeOK, Tone, NoMilder

(* A text that matches more, in a tone as bad or worse, and no calmer, is  *)
(* never labelled less urgent, whichever rules it matches.                 *)
THEOREM MoreIsNeverLess == TicketSpec => MoreIsNoLess
<1>1. TicketInit => TicketTypeOK
  BY TicketStarts
<1>2. TicketTypeOK /\ [TicketNext]_ticketVars => TicketTypeOK'
  BY TicketTyped
<1>3. TicketTypeOK /\ TicketTypeOK' =>
        [words \subseteq words' /\ NoMilder /\ StaysAsCalm => WeakLabel' >= WeakLabel]_ticketVars
  BY TicketStepIsNoLess DEF TicketTypeOK
<1> QED BY <1>1, <1>2, <1>3, PTL DEF TicketSpec, MoreIsNoLess

-----------------------------------------------------------------------------
(* The limiters *)

LEMMA LeastExists ==
  ASSUME NEW T \in SUBSET Nat, T # {}
  PROVE  \E n \in T : \A m \in T : n <= m
<1>1. PICK n \in T : \A m \in T : ~ (<<m, n>> \in OpToRel(<, Nat))
  BY NatLessThanWellFounded, WFMin
<1>2. \A m \in T : ~ (m < n)
  BY <1>1 DEF OpToRel
<1> QED BY <1>2

(* What allow() keeps of a deque: all but the longest expired prefix.      *)
LEMMA RecentIsSuffix ==
  ASSUME NEW times \in Seq(Nat), NEW t \in Nat
  PROVE  \E n \in 0 .. Len(times) :
           /\ Recent(times, t) = SubSeq(times, n + 1, Len(times))
           /\ \A i \in 1 .. n : Expired(times[i], t)
           /\ n < Len(times) => ~Expired(times[n + 1], t)
<1> DEFINE Stops == {n \in 0 .. Len(times) : n < Len(times) => ~Expired(times[n + 1], t)}
<1>1. PICK n \in Stops : \A m \in Stops : n <= m
  <2>1. Len(times) \in Stops /\ Stops \in SUBSET Nat
    OBVIOUS
  <2> HIDE DEF Stops
  <2> QED BY <2>1, LeastExists
<1>2. ASSUME NEW i \in 1 .. n PROVE Expired(times[i], t)
  <2>1. i - 1 \in 0 .. Len(times) /\ i - 1 < n /\ i - 1 < Len(times) /\ (i - 1) + 1 = i
    BY <1>1
  <2>2. i - 1 \notin Stops
    BY <1>1, <2>1
  <2> QED BY <2>1, <2>2
<1>3. \E m \in 0 .. Len(times) : /\ \A i \in 1 .. m : Expired(times[i], t)
                                 /\ m < Len(times) => ~Expired(times[m + 1], t)
  BY <1>1, <1>2
<1> QED BY <1>3 DEF Recent

(* A deque holds the latest entries of its log; the earlier ones have      *)
(* left the window.                                                        *)
Follows(times, entries, limit) ==
  /\ times \in Seq(Nat) /\ entries \in Seq(Nat) /\ Len(times) <= Len(entries)
  /\ \A i \in 1 .. Len(times) : times[i] = entries[Len(entries) - Len(times) + i]
  /\ \A i \in 1 .. Len(entries) - Len(times) : Expired(entries[i], now)
  /\ \A i \in 1 .. Len(entries) : entries[i] <= now
  /\ \A i, j \in 1 .. Len(entries) : i <= j => entries[i] <= entries[j]
  /\ Spaced(entries, limit)

LEMMA RecentFollows ==
  ASSUME NEW times, NEW entries, NEW limit \in Nat \ {0}, now \in Nat, Follows(times, entries, limit)
  PROVE  /\ Follows(Recent(times, now), entries, limit)
         /\ Len(Recent(times, now)) # 0 => ~Expired(Recent(times, now)[1], now)
<1> DEFINE recent == Recent(times, now)
<1>1. times \in Seq(Nat) /\ entries \in Seq(Nat) /\ Len(times) <= Len(entries) /\ Window \in Nat
  BY LimiterAssumption DEF Follows
<1>2. PICK n \in 0 .. Len(times) : /\ recent = SubSeq(times, n + 1, Len(times))
                                   /\ \A i \in 1 .. n : Expired(times[i], now)
                                   /\ n < Len(times) => ~Expired(times[n + 1], now)
  BY <1>1, RecentIsSuffix
<1> HIDE DEF recent
<1>3. /\ recent \in Seq(Nat) /\ Len(recent) = Len(times) - n
      /\ \A i \in 1 .. Len(recent) : recent[i] = times[n + i]
  <2>1. n + 1 \in Int /\ Len(times) \in Int /\ \A i \in n + 1 .. Len(times) : times[i] \in Nat
    BY <1>1
  <2>2. /\ recent \in Seq(Nat)
        /\ Len(recent) = IF n + 1 <= Len(times) THEN Len(times) - (n + 1) + 1 ELSE 0
        /\ \A i \in 1 .. Len(times) - (n + 1) + 1 : recent[i] = times[(n + 1) + i - 1]
    BY <1>2, <2>1, SubSeqProperties
  <2>3. Len(recent) = Len(times) - n
    BY <1>1, <2>2
  <2>4. ASSUME NEW i \in 1 .. Len(recent) PROVE recent[i] = times[n + i]
    <3>1. i \in 1 .. Len(times) - (n + 1) + 1 /\ (n + 1) + i - 1 = n + i
      BY <1>1, <2>3
    <3> QED BY <2>2, <3>1
  <2> QED BY <2>2, <2>3, <2>4
<1>4. ASSUME NEW i \in 1 .. Len(recent)
      PROVE  recent[i] = entries[Len(entries) - Len(recent) + i]
  <2>1. n + i \in 1 .. Len(times) /\ recent[i] = times[n + i]
    <3>1. recent[i] = times[n + i]
      BY <1>3
    <3>2. Len(times) \in Nat /\ n \in Nat /\ n <= Len(times)
      BY <1>1
    <3>3. i \in Nat /\ 1 <= i /\ i <= Len(times) - n
      BY <1>3, <3>2
    <3>4. n + i \in 1 .. Len(times)
      BY <3>2, <3>3
    <3> QED BY <3>1, <3>4
  <2>2. times[n + i] = entries[Len(entries) - Len(times) + (n + i)]
    BY <2>1 DEF Follows
  <2>3. Len(entries) - Len(times) + (n + i) = Len(entries) - Len(recent) + i
    BY <1>1, <1>3
  <2> QED BY <2>1, <2>2, <2>3
<1>5. ASSUME NEW i \in 1 .. Len(entries) - Len(recent)
      PROVE  Expired(entries[i], now)
  <2>1. CASE i <= Len(entries) - Len(times)
    BY <1>1, <2>1 DEF Follows
  <2>2. CASE i > Len(entries) - Len(times)
    <3> DEFINE k == i - (Len(entries) - Len(times))
    <3>1. k \in 1 .. n
      BY <1>1, <1>3, <2>2
    <3>2. k \in 1 .. Len(times) /\ i = Len(entries) - Len(times) + k
      BY <1>1, <3>1
    <3>3. entries[i] = times[k]
      BY <3>2 DEF Follows
    <3> QED BY <1>2, <3>1, <3>3
  <2> QED BY <1>1, <2>1, <2>2
<1>6. Len(recent) <= Len(entries)
  BY <1>1, <1>3
<1>7. Len(recent) # 0 => ~Expired(recent[1], now)
  BY <1>1, <1>2, <1>3
<1>8. Follows(recent, entries, limit)
  BY <1>3, <1>4, <1>5, <1>6 DEF Follows
<1> QED BY <1>7, <1>8 DEF recent

(* An attempt that is admitted comes a window after the one `limit` before *)
(* it; one that is refused finds the deque full.                           *)
LEMMA AttemptFollows ==
  ASSUME NEW times, NEW entries, NEW limit \in Nat \ {0}, now \in Nat, Follows(times, entries, limit)
  PROVE  /\ Follows(Recorded(times, limit, now), Logged(entries, times, limit, now), limit)
         /\ ~Allows(times, limit, now) => Used(entries, limit)
<1> DEFINE recent == Recent(times, now)
           N == Len(entries)
           m == Len(recent)
<1>1. Follows(recent, entries, limit) /\ (m # 0 => ~Expired(recent[1], now))
  BY RecentFollows
<1> HIDE DEF recent
<1>2. recent \in Seq(Nat) /\ entries \in Seq(Nat) /\ m <= N /\ Window \in Nat
  BY <1>1, LimiterAssumption DEF Follows
<1>3. CASE Allows(times, limit, now)
  <2> DEFINE times2 == Append(recent, now)
             entries2 == Append(entries, now)
  <2>1. Recorded(times, limit, now) = times2 /\ Logged(entries, times, limit, now) = entries2
    BY <1>3 DEF Recorded, Logged, recent
  <2>2. m < limit
    BY <1>3 DEF Allows, recent
  <2>3. /\ times2 \in Seq(Nat) /\ Len(times2) = m + 1 /\ times2[m + 1] = now
        /\ \A i \in 1 .. m : times2[i] = recent[i]
    BY <1>2
  <2>4. /\ entries2 \in Seq(Nat) /\ Len(entries2) = N + 1 /\ entries2[N + 1] = now
        /\ \A i \in 1 .. N : entries2[i] = entries[i]
    BY <1>2
  <2> HIDE DEF times2, entries2
  <2>5. ASSUME NEW i \in 1 .. m + 1
        PROVE  times2[i] = entries2[(N + 1) - (m + 1) + i]
    <3>1. CASE i = m + 1
      BY <1>2, <2>3, <2>4, <3>1
    <3>2. CASE i \in 1 .. m
      <4>1. recent[i] = entries[N - m + i] /\ N - m + i \in 1 .. N
        BY <1>1, <1>2, <3>2 DEF Follows
      <4>2. (N + 1) - (m + 1) + i = N - m + i
        BY <1>2
      <4> QED BY <2>3, <2>4, <3>2, <4>1, <4>2
    <3> QED BY <1>2, <3>1, <3>2
  <2>6. ASSUME NEW i \in 1 .. (N + 1) - (m + 1)
        PROVE  Expired(entries2[i], now) /\ Expired(entries[i], now)
    <3>1. i \in 1 .. N - m /\ i \in 1 .. N
      BY <1>2
    <3> QED BY <1>1, <2>4, <3>1 DEF Follows
  <2>7. ASSUME NEW i \in 1 .. N + 1
        PROVE  entries2[i] <= now /\ entries2[i] \in Nat
    <3>1. CASE i = N + 1
      BY <2>4, <3>1
    <3>2. CASE i \in 1 .. N
      <4>1. entries[i] <= now /\ entries[i] \in Nat
        BY <1>1, <1>2, <3>2 DEF Follows
      <4> QED BY <2>4, <3>2, <4>1
    <3> QED BY <1>2, <3>1, <3>2
  <2>8. ASSUME NEW i \in 1 .. N + 1, NEW j \in 1 .. N + 1, i <= j
        PROVE  entries2[i] <= entries2[j]
    <3>1. CASE j = N + 1
      BY <2>4, <2>7, <3>1
    <3>2. CASE j \in 1 .. N
      <4>1. i \in 1 .. N
        BY <1>2, <2>8, <3>2
      <4>2. entries[i] <= entries[j]
        BY <1>1, <2>8, <3>2, <4>1 DEF Follows
      <4> QED BY <2>4, <3>2, <4>1, <4>2
    <3> QED BY <1>2, <3>1, <3>2
  <2>9. ASSUME NEW i \in 1 .. N + 1, i + limit <= N + 1
        PROVE  entries2[i] + Window <= entries2[i + limit]
    <3>1. CASE i + limit = N + 1
      <4>1. i \in 1 .. (N + 1) - (m + 1)
        BY <1>2, <2>2, <3>1
      <4>2. entries2[i] + Window <= now
        BY <2>6, <4>1 DEF Expired
      <4>3. entries2[i + limit] = now
        BY <2>4, <3>1
      <4> QED BY <4>2, <4>3
    <3>2. CASE i + limit <= N
      <4>1. i \in 1 .. N /\ i + limit \in 1 .. N
        BY <1>2, <3>2
      <4>2. entries[i] + Window <= entries[i + limit]
        BY <1>1, <3>2, <4>1 DEF Follows, Spaced
      <4> QED BY <2>4, <4>1, <4>2
    <3>3. i + limit = N + 1 \/ i + limit <= N
      <4>1. i \in Int /\ limit \in Int /\ N \in Int /\ i + limit <= N + 1
        BY <1>2, <2>9
      <4> QED BY <4>1
    <3> QED BY <3>1, <3>2, <3>3
  <2>10. Spaced(entries2, limit)
    BY <2>4, <2>9 DEF Spaced
  <2>11. Follows(times2, entries2, limit)
    <3>1. Len(times2) <= Len(entries2)
      BY <1>2, <2>3, <2>4
    <3> QED BY <2>3, <2>4, <2>5, <2>6, <2>7, <2>8, <2>10, <3>1 DEF Follows
  <2> QED BY <1>3, <2>1, <2>11
<1>4. CASE ~Allows(times, limit, now)
  <2>1. Recorded(times, limit, now) = recent /\ Logged(entries, times, limit, now) = entries
    BY <1>4 DEF Recorded, Logged, recent
  <2>2. m >= limit
    BY <1>2, <1>4 DEF Allows, recent
  <2>3. /\ N - m + 1 \in 1 .. N /\ N + 1 - limit \in 1 .. N /\ N - m + 1 <= N + 1 - limit
        /\ 1 \in 1 .. m /\ N >= limit
    BY <1>2, <2>2
  <2>4. recent[1] = entries[N - m + 1] /\ ~Expired(recent[1], now)
    BY <1>1, <1>2, <2>3 DEF Follows
  <2>5. entries[N - m + 1] <= entries[N + 1 - limit]
    BY <1>1, <2>3 DEF Follows
  <2>6. entries[N - m + 1] \in Nat /\ entries[N + 1 - limit] \in Nat
    BY <1>2, <2>3, SMTT(30)
  <2>7. Used(entries, limit)
    <3>1. PICK first \in Nat, kept \in Nat : first = entries[N - m + 1] /\ kept = entries[N + 1 - limit]
      BY <2>6
    <3>2. kept + Window > now
      <4>1. ~(first + Window <= now) /\ first <= kept
        BY <2>4, <2>5, <3>1 DEF Expired
      <4> QED BY <1>2, <4>1
    <3> QED BY <2>3, <3>1, <3>2 DEF Used
  <2> QED BY <1>1, <2>1, <2>7
<1> QED BY <1>3, <1>4

-----------------------------------------------------------------------------
DequesFollow ==
  /\ \A v \in Visitor : Follows(hits[v], log[v], Limit)
  /\ \A g \in Group : Follows(groupHits[g], groupLog[g], GroupLimit)

LimiterInv == LimiterTypeOK /\ DequesFollow /\ RefusedOnlyAtLimit

(* Time only lets entries expire; an empty deque follows an empty log.     *)
LEMMA TimePasses ==
  ASSUME NEW times, NEW entries, NEW limit \in Nat \ {0}, now \in Nat, Follows(times, entries, limit),
         now' = now \/ now' = now + 1
  PROVE  Follows(times, entries, limit)'
<1>1. entries \in Seq(Nat) /\ Window \in Nat
  BY LimiterAssumption DEF Follows
<1>2. \A i \in 1 .. Len(entries) : Expired(entries[i], now) => Expired(entries[i], now')
  BY <1>1 DEF Expired
<1>3. \A i \in 1 .. Len(entries) : entries[i] <= now'
  BY <1>1 DEF Follows
<1>4. \A i \in 1 .. Len(entries) - Len(times) : i \in 1 .. Len(entries)
  BY <1>1 DEF Follows
<1> QED BY <1>2, <1>3, <1>4 DEF Follows, Spaced

LEMMA EmptyFollows ==
  ASSUME NEW limit \in Nat \ {0}
  PROVE  Follows(<<>>, <<>>, limit)
  BY DEF Follows, Spaced

LEMMA LimiterStep ==
  ASSUME LimiterInv, [LimiterNext]_limiterVars
  PROVE  LimiterInv'
<1> USE DEF LimiterInv
<1>1. now \in Nat /\ Limit \in Nat \ {0} /\ GroupLimit \in Nat \ {0}
  BY LimiterAssumption DEF LimiterTypeOK
<1>2. CASE UNCHANGED limiterVars
  <2>1. DequesFollow'
    BY <1>2 DEF limiterVars, DequesFollow, Follows, Spaced
  <2> QED BY <1>2, <2>1 DEF limiterVars, LimiterTypeOK, RefusedOnlyAtLimit, Used
<1>3. CASE Tick
  <2>1. now' = now + 1 /\ refused' = <<>> /\ UNCHANGED <<hits, groupHits, log, groupLog, underway>>
    BY <1>3 DEF Tick
  <2>2. DequesFollow'
    BY <1>1, <2>1, TimePasses DEF DequesFollow
  <2>3. RefusedOnlyAtLimit'
    BY <2>1 DEF RefusedOnlyAtLimit
  <2> QED BY <1>1, <2>1, <2>2, <2>3 DEF LimiterTypeOK
<1>4. ASSUME NEW v \in Visitor, SignedIn(v)
      PROVE  LimiterInv'
  <2>1. /\ hits' = [hits EXCEPT ![v] = <<>>] /\ log' = [log EXCEPT ![v] = <<>>]
        /\ refused' = <<>> /\ UNCHANGED <<now, groupHits, groupLog, underway>>
    BY <1>4 DEF SignedIn
  <2>2. LimiterTypeOK'
    BY <2>1 DEF LimiterTypeOK
  <2>3. Follows(<<>>, <<>>, Limit)'
    BY <1>1, <2>1, EmptyFollows, TimePasses
  <2>4. ASSUME NEW u \in Visitor PROVE Follows(hits[u], log[u], Limit)'
    <3>1. CASE u = v
      BY <2>1, <2>3, <3>1 DEF LimiterTypeOK
    <3>2. CASE u # v
      <4>1. hits'[u] = hits[u] /\ log'[u] = log[u]
        BY <2>1, <3>2 DEF LimiterTypeOK
      <4> QED BY <1>1, <2>1, <4>1, TimePasses DEF DequesFollow
    <3> QED BY <3>1, <3>2
  <2>5. ASSUME NEW g \in Group PROVE Follows(groupHits[g], groupLog[g], GroupLimit)'
    BY <1>1, <2>1, TimePasses DEF DequesFollow
  <2>6. RefusedOnlyAtLimit'
    BY <2>1 DEF RefusedOnlyAtLimit
  <2> QED BY <2>2, <2>4, <2>5, <2>6 DEF DequesFollow
<1>5. ASSUME NEW v \in Visitor, NEW g \in Group, Attempt(v, g)
      PROVE  LimiterInv'
  <2> DEFINE first == Allows(hits[v], Limit, now)
             second == Allows(groupHits[g], GroupLimit, now)
  <2>1. /\ hits' = [hits EXCEPT ![v] = Recorded(hits[v], Limit, now)]
        /\ log' = [log EXCEPT ![v] = Logged(log[v], hits[v], Limit, now)]
        /\ groupHits' = [groupHits EXCEPT ![g] = IF first THEN Recorded(groupHits[g], GroupLimit, now)
                                                         ELSE groupHits[g]]
        /\ groupLog' = [groupLog EXCEPT ![g] = IF first THEN Logged(groupLog[g], groupHits[g], GroupLimit, now)
                                                        ELSE groupLog[g]]
        /\ refused' = IF ~first THEN <<"visitor", v>> ELSE IF ~second THEN <<"group", g>> ELSE <<>>
        /\ underway' \in {underway, underway \cup {v}}
        /\ now' = now
    BY <1>5 DEF Attempt, LimiterTypeOK
  <2>2. /\ Follows(Recorded(hits[v], Limit, now), Logged(log[v], hits[v], Limit, now), Limit)
        /\ ~first => Used(log[v], Limit)
    BY <1>1, AttemptFollows DEF DequesFollow
  <2>3. /\ Follows(Recorded(groupHits[g], GroupLimit, now), Logged(groupLog[g], groupHits[g], GroupLimit, now), GroupLimit)
        /\ ~second => Used(groupLog[g], GroupLimit)
    BY <1>1, AttemptFollows DEF DequesFollow
  <2> HIDE DEF first, second
  <2>4. /\ hits'[v] = Recorded(hits[v], Limit, now)
        /\ log'[v] = Logged(log[v], hits[v], Limit, now)
        /\ \A u \in Visitor \ {v} : hits'[u] = hits[u] /\ log'[u] = log[u]
        /\ \A h \in Group \ {g} : groupHits'[h] = groupHits[h] /\ groupLog'[h] = groupLog[h]
    BY <2>1 DEF LimiterTypeOK
  <2>5. IF first THEN /\ groupHits'[g] = Recorded(groupHits[g], GroupLimit, now)
                      /\ groupLog'[g] = Logged(groupLog[g], groupHits[g], GroupLimit, now)
                 ELSE groupHits'[g] = groupHits[g] /\ groupLog'[g] = groupLog[g]
    BY <2>1 DEF LimiterTypeOK
  <2>6. ASSUME NEW u \in Visitor PROVE Follows(hits'[u], log'[u], Limit)
    BY <2>2, <2>4 DEF DequesFollow
  <2>7. ASSUME NEW h \in Group PROVE Follows(groupHits'[h], groupLog'[h], GroupLimit)
    BY <2>3, <2>4, <2>5 DEF DequesFollow
  <2>8. DequesFollow'
    <3>1. now' = now
      BY <2>1
    <3>2. ASSUME NEW u \in Visitor PROVE Follows(hits[u], log[u], Limit)'
      BY <2>6, <3>1 DEF Follows, Spaced
    <3>3. ASSUME NEW h \in Group PROVE Follows(groupHits[h], groupLog[h], GroupLimit)'
      BY <2>7, <3>1 DEF Follows, Spaced
    <3> QED BY <3>2, <3>3 DEF DequesFollow
  <2>9. LimiterTypeOK'
    <3>1. /\ \A u \in Visitor : hits'[u] \in Seq(Nat) /\ log'[u] \in Seq(Nat)
          /\ \A h \in Group : groupHits'[h] \in Seq(Nat) /\ groupLog'[h] \in Seq(Nat)
      BY <2>6, <2>7 DEF Follows
    <3>2. /\ hits' \in [Visitor -> Seq(Nat)] /\ log' \in [Visitor -> Seq(Nat)]
          /\ groupHits' \in [Group -> Seq(Nat)] /\ groupLog' \in [Group -> Seq(Nat)]
      BY <2>1, <3>1 DEF LimiterTypeOK
    <3>3. refused' \in {<<>>} \cup ({"visitor"} \X Visitor) \cup ({"group"} \X Group)
      BY <2>1
    <3> QED BY <1>1, <2>1, <3>2, <3>3 DEF LimiterTypeOK
  <2>10. RefusedOnlyAtLimit'
    <3>1. ASSUME NEW u \in Visitor, refused' = <<"visitor", u>> PROVE Used(log[u], Limit)'
      <4>1. ~first /\ u = v
        <5>1. <<"visitor", u>> # <<"group", g>> /\ <<"visitor", u>> # <<>>
          OBVIOUS
        <5>2. CASE ~first
          BY <2>1, <3>1, <5>2
        <5>3. CASE first
          BY <2>1, <3>1, <5>1, <5>3
        <5> QED BY <5>2, <5>3
      <4>2. log'[v] = log[v]
        BY <2>4, <4>1 DEF Logged, first
      <4> QED BY <2>1, <2>2, <4>1, <4>2 DEF Used
    <3>2. ASSUME NEW h \in Group, refused' = <<"group", h>> PROVE Used(groupLog[h], GroupLimit)'
      <4>1. first /\ ~second /\ h = g
        BY <2>1, <3>2
      <4>2. groupLog'[g] = groupLog[g]
        BY <2>5, <4>1 DEF Logged, second
      <4> QED BY <2>1, <2>3, <4>1, <4>2 DEF Used
    <3> QED BY <3>1, <3>2 DEF RefusedOnlyAtLimit
  <2> QED BY <2>8, <2>9, <2>10
<1> QED BY <1>2, <1>3, <1>4, <1>5 DEF LimiterNext

LEMMA LimiterStart == LimiterInit => LimiterInv
<1> SUFFICES ASSUME LimiterInit PROVE LimiterInv
  OBVIOUS
<1>1. LimiterTypeOK /\ RefusedOnlyAtLimit
  BY DEF LimiterInit, LimiterTypeOK, RefusedOnlyAtLimit
<1>2. DequesFollow
  BY LimiterAssumption, EmptyFollows DEF LimiterInit, DequesFollow
<1> QED BY <1>1, <1>2 DEF LimiterInv

(* No window holds more attempts than the limit, and nobody is refused     *)
(* before his window is full: for every window, limit and clock.           *)
THEOREM LimitersAreExact == LimiterSpec => []LimitIsExact
<1>1. LimiterInit => LimiterInv
  BY LimiterStart
<1>2. LimiterInv /\ [LimiterNext]_limiterVars => LimiterInv'
  BY LimiterStep
<1>3. LimiterInv => LimitIsExact
  BY DEF LimiterInv, LimitIsExact, FloodIsLimited, DequesFollow, Follows
<1> QED BY <1>1, <1>2, <1>3, PTL DEF LimiterSpec

-----------------------------------------------------------------------------
(* Tenancy: how the tenants are kept apart. *)

(* No two sessions are on one connection, and a closed one is on none.     *)
Exclusive ==
  /\ \A s, o \in Session : Begun(s) /\ sessions[s].connection = sessions[o].connection => s = o
  /\ \A s \in Session : Begun(s) => sessions[s].open

(* A transaction's connection has the tenant of its session; a free one    *)
(* has none.                                                               *)
Scoped ==
  /\ \A s \in Session : Begun(s) => Scope(s) = sessions[s].tenant
  /\ \A c \in Connection : (\A s \in Session : sessions[s].connection # c) => setting[c] = None

(* What a session was shown is its tenant's, and an id is not used twice.  *)
Shown ==
  \A s \in Session : \A r \in sessions[s].seen :
    rows[r].state # "unused" /\ rows[r].tenant = sessions[s].tenant

ApartInv == TenancyTypeOK /\ Exclusive /\ Scoped /\ Shown /\ RowsBelong

-----------------------------------------------------------------------------
(* At the start nothing is stored, and nobody connected.                   *)
LEMMA InitApart == TenancyInit => ApartInv
  BY DEF TenancyInit, ApartInv, TenancyTypeOK, Exclusive, Scoped, Shown, RowsBelong, Stored, Begun, Unused,
         Closed, RowState, SessionState, MaybeTenant

(* The end of a transaction leaves its connection without a tenant, what   *)
(* others have is as it was, and it has shown the session nothing new.     *)
LEMMA EndFrees ==
  ASSUME ApartInv, NEW s \in Session, EndTransaction(s)
  PROVE  /\ setting' \in [Connection -> MaybeTenant]
         /\ sessions' \in [Session -> SessionState]
         /\ Exclusive' /\ Scoped'
         /\ \A o \in Session : sessions'[o].seen = sessions[o].seen /\ sessions'[o].tenant = sessions[o].tenant
<1> USE DEF ApartInv, TenancyTypeOK, EndTransaction, After, Begun, MaybeTenant, SessionState
<1>1. sessions[s].connection \in Connection
  OBVIOUS
<1>2. \A o \in Session : /\ o # s => sessions'[o] = sessions[o]
                         /\ sessions'[s].connection = None /\ sessions'[s].open = sessions[s].open
  OBVIOUS
<1>3. \A c \in Connection : setting'[c] = IF c = sessions[s].connection THEN None ELSE setting[c]
  OBVIOUS
<1>4. Exclusive'
  BY <1>2 DEF Exclusive
<1>5. Scoped'
  <2>1. \A o \in Session : Begun(o)' => Scope(o)' = sessions'[o].tenant
    BY <1>2, <1>3 DEF Exclusive, Scoped, Scope
  <2>2. ASSUME NEW c \in Connection, \A o \in Session : sessions'[o].connection # c
        PROVE  setting'[c] = None
    <3>1. CASE c = sessions[s].connection
      BY <3>1, <1>3
    <3>2. CASE c # sessions[s].connection
      BY <3>2, <2>2, <1>2, <1>3 DEF Scoped
    <3> QED BY <3>1, <3>2
  <2> QED BY <2>1, <2>2 DEF Scoped
<1>6. \A o \in Session : sessions'[o].seen = sessions[o].seen /\ sessions'[o].tenant = sessions[o].tenant
  OBVIOUS
<1>7. setting' \in [Connection -> MaybeTenant] /\ sessions' \in [Session -> SessionState]
  BY TenancyAssumption
<1> QED BY <1>4, <1>5, <1>6, <1>7

(* Opening and closing a session touches no connection.                    *)
LEMMA OpenClose ==
  ASSUME ApartInv, NEW s \in Session,
         (\E t \in MaybeTenant : OpenSession(s, t)) \/ CloseSession(s)
  PROVE  ApartInv'
<1> USE DEF ApartInv, Begun
<1>1. /\ ~Begun(s) /\ UNCHANGED <<rows, setting>>
      /\ sessions'[s].connection = None /\ sessions'[s].seen = {} /\ sessions' \in [Session -> SessionState]
      /\ \A o \in Session : o # s => sessions'[o] = sessions[o]
  <2>1. CASE CloseSession(s)
    BY <2>1 DEF CloseSession, Closed, TenancyTypeOK, SessionState, MaybeTenant
  <2>2. CASE \E t \in MaybeTenant : OpenSession(s, t)
    <3>1. PICK t \in MaybeTenant : OpenSession(s, t)
      BY <2>2
    <3>2. ~Begun(s)
      BY <3>1 DEF OpenSession, Exclusive
    <3>3. Opened(t) \in SessionState /\ Opened(t).connection = None /\ Opened(t).seen = {}
      BY DEF Opened, SessionState
    <3> QED BY <3>1, <3>2, <3>3 DEF OpenSession, TenancyTypeOK
  <2> QED BY <2>1, <2>2
<1>2. TenancyTypeOK' /\ RowsBelong'
  BY <1>1 DEF TenancyTypeOK, RowsBelong, Stored
<1>3. Exclusive' /\ Shown'
  BY <1>1 DEF Exclusive, Shown
<1>4. Scoped'
  <2>1. \A o \in Session : sessions'[o].connection = sessions[o].connection
    BY <1>1
  <2> QED BY <1>1, <2>1 DEF Scoped, Scope
<1> QED BY <1>2, <1>3, <1>4

(* A transaction begins on a free connection and sets its tenant.          *)
LEMMA Begins ==
  ASSUME ApartInv, NEW s \in Session, NEW c \in Connection, BeginTransaction(s, c)
  PROVE  ApartInv'
<1> USE DEF ApartInv, Begun, BeginTransaction
<1>1. /\ sessions'[s].connection = c /\ c # None
      /\ \A o \in Session : /\ o # s => sessions'[o] = sessions[o]
                            /\ sessions'[o].tenant = sessions[o].tenant
                            /\ sessions'[o].seen = sessions[o].seen /\ sessions'[o].open = sessions[o].open
  BY TenancyAssumption DEF TenancyTypeOK, SessionState
<1>2. setting[c] = None
  BY DEF Scoped
<1>3. /\ setting'[c] = sessions[s].tenant
      /\ \A d \in Connection \ {c} : setting'[d] = setting[d]
  BY <1>2 DEF TenancyTypeOK
<1>4. TenancyTypeOK'
  BY DEF TenancyTypeOK, SessionState
<1>5. Exclusive'
  BY <1>1 DEF Exclusive
<1>6. Scoped'
  <2>1. \A o \in Session : Begun(o)' => Scope(o)' = sessions'[o].tenant
    BY <1>1, <1>3 DEF Scoped, Scope, TenancyTypeOK, SessionState
  <2>2. ASSUME NEW d \in Connection, \A o \in Session : sessions'[o].connection # d
        PROVE  setting'[d] = None
    <3>1. d # c /\ \A o \in Session : sessions[o].connection # d
      BY <2>2, <1>1, TenancyAssumption
    <3> QED BY <3>1, <1>3 DEF Scoped
  <2> QED BY <2>1, <2>2 DEF Scoped
<1>7. Shown' /\ RowsBelong'
  BY <1>1 DEF Shown, RowsBelong, Stored
<1> QED BY <1>4, <1>5, <1>6, <1>7

(* What a session reads is visible to it, by the setting or by its filter. *)
LEMMA Reads ==
  ASSUME ApartInv, NEW s \in Session, ReadRows(s)
  PROVE  ApartInv'
<1> USE DEF ApartInv
<1>1. PICK found \in SUBSET {r \in Row : Visible(s, r)} :
        sessions' = [sessions EXCEPT ![s].seen = @ \cup found]
  BY DEF ReadRows
<1>2. UNCHANGED <<rows, setting>> /\ Begun(s)
  BY DEF ReadRows
<1>3. \A o \in Session : /\ o # s => sessions'[o] = sessions[o]
                         /\ sessions'[o].connection = sessions[o].connection
                         /\ sessions'[o].tenant = sessions[o].tenant /\ sessions'[o].open = sessions[o].open
                         /\ sessions'[s].seen = sessions[s].seen \cup found
  BY <1>1 DEF TenancyTypeOK, SessionState
<1>4. \A r \in found : Stored(r) /\ rows[r].tenant = sessions[s].tenant
  BY <1>2 DEF Visible, Scoped
<1>5. Shown'
  BY <1>2, <1>3, <1>4 DEF Shown, Stored
<1>6. TenancyTypeOK'
  BY <1>1, <1>2 DEF TenancyTypeOK, SessionState
<1>7. Exclusive' /\ Scoped' /\ RowsBelong'
  BY <1>2, <1>3 DEF Exclusive, Scoped, RowsBelong, Begun, Scope, Stored
<1> QED BY <1>5, <1>6, <1>7

(* A new row gets the tenant of the transaction, which its author has.     *)
LEMMA Inserts ==
  ASSUME ApartInv, NEW s \in Session, NEW r \in Row, NEW t \in Tenant, NEW parent \in Row \cup {None},
         Insert(s, r, t, parent)
  PROVE  ApartInv'
<1> DEFINE author == IF sessions[s].tenant = None THEN t ELSE sessions[s].tenant
<1> USE DEF ApartInv
<1>1. EndTransaction(s) /\ rows[r].state = "unused" /\ t \in NewTenants(s)
      /\ (parent # None => Stored(parent) /\ rows[parent].tenant = t)
      /\ rows' = [rows EXCEPT ![r] = [state |-> "stored", tenant |-> t, parent |-> parent, author |-> author]]
  BY DEF Insert
<1>2. author = t
  BY <1>1, TenancyAssumption DEF NewTenants, EndTransaction, Scoped
<1> HIDE DEF author
<1>3. /\ rows'[r] = [state |-> "stored", tenant |-> t, parent |-> parent, author |-> t]
      /\ \A q \in Row : q # r => rows'[q] = rows[q]
  BY <1>1, <1>2 DEF TenancyTypeOK
<1>4. TenancyTypeOK'
  BY <1>1, <1>2, EndFrees DEF TenancyTypeOK, RowState, MaybeTenant
<1>5. Shown'
  BY <1>1, <1>3, EndFrees DEF Shown, TenancyTypeOK, SessionState
<1>6. RowsBelong'
  <2>1. \A q \in Row : Stored(q) => q # r /\ Stored(q)'
    BY <1>1, <1>3 DEF Stored
  <2>2. ASSUME NEW q \in Row, Stored(q)' PROVE RowsBelong!(q)'
    <3>1. CASE q = r
      BY <3>1, <1>1, <1>3, <2>1 DEF Stored
    <3>2. CASE q # r
      <4>1. Stored(q) /\ rows'[q] = rows[q]
        BY <3>2, <2>2, <1>3 DEF Stored
      <4>2. rows[q].parent \in Row \cup {None}
        BY DEF TenancyTypeOK, RowState
      <4> QED BY <4>1, <4>2, <2>1, <1>3 DEF RowsBelong
    <3> QED BY <3>1, <3>2
  <2> QED BY <2>2 DEF RowsBelong
<1> QED BY <1>1, <1>4, <1>5, <1>6, EndFrees

(* A deleted row keeps its tenant, and no row refers to it.                *)
LEMMA Deletes ==
  ASSUME ApartInv, NEW s \in Session, NEW r \in Row, DeleteRow(s, r)
  PROVE  ApartInv'
<1> USE DEF ApartInv
<1>1. /\ EndTransaction(s)
      /\ \A q \in Row : Stored(q) => rows[q].parent # r
      /\ rows' = [rows EXCEPT ![r].state = "deleted"]
  BY DEF DeleteRow
<1>2. \A q \in Row : /\ q # r => rows'[q] = rows[q]
                     /\ rows'[q].tenant = rows[q].tenant /\ rows'[r].state = "deleted"
  BY <1>1 DEF TenancyTypeOK, RowState
<1>3. TenancyTypeOK'
  BY <1>1, EndFrees DEF TenancyTypeOK, RowState
<1>4. Shown'
  BY <1>1, <1>2, EndFrees DEF Shown, TenancyTypeOK, SessionState
<1>5. RowsBelong'
  <2>1. ASSUME NEW q \in Row, Stored(q)'
        PROVE  Stored(q) /\ rows'[q] = rows[q] /\ rows[q].parent # r
    BY <2>1, <1>1, <1>2 DEF Stored
  <2>2. \A q \in Row : rows[q].parent \in Row \cup {None}
    BY DEF TenancyTypeOK, RowState
  <2> QED BY <2>1, <2>2, <1>2 DEF RowsBelong, Stored
<1> QED BY <1>1, <1>3, <1>4, <1>5, EndFrees

(* A transaction that is undone changes no row.                            *)
LEMMA RollsBack ==
  ASSUME ApartInv, NEW s \in Session, Rollback(s)
  PROVE  ApartInv'
<1> USE DEF ApartInv
<1>1. EndTransaction(s) /\ UNCHANGED rows
  BY DEF Rollback
<1>2. TenancyTypeOK'
  BY <1>1, EndFrees DEF TenancyTypeOK
<1>3. Shown' /\ RowsBelong'
  BY <1>1, EndFrees DEF Shown, RowsBelong, Stored
<1> QED BY <1>1, <1>2, <1>3, EndFrees

(* Every step keeps the tenants apart.                                     *)
LEMMA StepApart == ApartInv /\ [TenancyNext]_tenancyVars => ApartInv'
<1> SUFFICES ASSUME ApartInv, [TenancyNext]_tenancyVars PROVE ApartInv'
  OBVIOUS
<1>1. CASE TenancyNext
  <2>1. PICK s \in Session :
          \/ \E t \in MaybeTenant : OpenSession(s, t)
          \/ CloseSession(s)
          \/ \E c \in Connection : BeginTransaction(s, c)
          \/ ReadRows(s)
          \/ Rollback(s)
          \/ \E r \in Row, t \in Tenant, parent \in Row \cup {None} : Insert(s, r, t, parent)
          \/ \E r \in Row : DeleteRow(s, r)
    BY <1>1 DEF TenancyNext
  <2> QED BY <2>1, OpenClose, Begins, Reads, RollsBack, Inserts, Deletes
<1>2. CASE UNCHANGED tenancyVars
  BY <1>2 DEF tenancyVars, ApartInv, TenancyTypeOK, Exclusive, Scoped, Shown, RowsBelong, Stored, Begun, Scope
<1> QED BY <1>1, <1>2

(* The invariant says at least what the property does.                     *)
LEMMA InvApart == ApartInv => TenantsApart
<1> SUFFICES ASSUME ApartInv PROVE TenantsApart
  OBVIOUS
<1> USE DEF ApartInv
<1>1. SeesOwnRows
  BY DEF Shown, SeesOwnRows
<1>2. ScopedThroughout
  BY TenancyAssumption DEF Scoped, ScopedThroughout, Begun, Scope
<1> QED BY <1>1, <1>2 DEF TenantsApart

-----------------------------------------------------------------------------
(* However requests, tasks and scripts of several businesses share the     *)
(* connections, no session sees another's rows (tenancy.py), and no row    *)
(* belongs or refers to another's.                                         *)
THEOREM TenantsStayApart == TenancySpec => []TenantsApart
<1>1. TenancySpec => []ApartInv
  BY InitApart, StepApart, PTL DEF TenancySpec
<1> QED BY <1>1, InvApart, PTL

-----------------------------------------------------------------------------
(* The splitting of documents *)

LEMMA SpanType ==
  ASSUME NEW a \in Nat, NEW b \in Nat, a <= b
  PROVE  /\ Span(a, b) \in Seq(Nat) /\ Len(Span(a, b)) = b - a
         /\ \A i \in 1 .. b - a : Span(a, b)[i] = a + i
         /\ Span(a, b) = <<>> <=> a = b
<1>1. b - a \in Nat /\ \A i \in 1 .. b - a : a + i \in Nat
  OBVIOUS
<1>2. Span(a, b) \in Seq(Nat) /\ Len(Span(a, b)) = b - a /\ \A i \in 1 .. b - a : Span(a, b)[i] = a + i
  BY <1>1 DEF Span
<1>3. Span(a, b) = <<>> <=> a = b
  BY <1>1, <1>2, EmptySeq
<1> QED BY <1>2, <1>3

LEMMA SomeSpan ==
  ASSUME NEW a \in Nat, NEW b \in Nat, a < b
  PROVE  /\ Span(a, b) \in Seq(Nat) /\ Len(Span(a, b)) \in Nat /\ Span(a, b) # <<>>
         /\ Span(a, b)[Len(Span(a, b))] = b
<1>1. a <= b /\ a # b /\ b - a \in 1 .. b - a /\ a + (b - a) = b
  OBVIOUS
<1>2. /\ Span(a, b) \in Seq(Nat) /\ Span(a, b) # <<>> /\ Len(Span(a, b)) = b - a
      /\ \A i \in 1 .. b - a : Span(a, b)[i] = a + i
  BY <1>1, SpanType
<1> QED BY <1>1, <1>2

LEMMA EmptySpan ==
  ASSUME NEW a \in Nat
  PROVE  a <= a /\ Span(a, a) = <<>>
<1>1. a <= a
  OBVIOUS
<1> QED BY <1>1, SpanType

LEMMA SpansJoin ==
  ASSUME NEW a \in Nat, NEW b \in Nat, NEW c \in Nat, a <= b, b <= c
  PROVE  Span(a, b) \o Span(b, c) = Span(a, c)
<1> DEFINE s == Span(a, b)
           t == Span(b, c)
           u == Span(a, c)
<1>1. /\ s \in Seq(Nat) /\ Len(s) = b - a
      /\ \A i \in 1 .. b - a : s[i] = a + i
  BY SpanType
<1>2. /\ t \in Seq(Nat) /\ Len(t) = c - b
      /\ \A i \in 1 .. c - b : t[i] = b + i
  BY SpanType
<1>3. a <= c
  OBVIOUS
<1>4. /\ u \in Seq(Nat) /\ Len(u) = c - a
      /\ \A i \in 1 .. c - a : u[i] = a + i
  BY <1>3, SpanType
<1> HIDE DEF s, t, u
<1>5. /\ s \o t \in Seq(Nat) /\ Len(s \o t) = Len(s) + Len(t)
      /\ \A i \in 1 .. Len(s) + Len(t) :
           (s \o t)[i] = IF i <= Len(s) THEN s[i] ELSE t[i - Len(s)]
  BY <1>1, <1>2, ConcatProperties
<1> DEFINE joined == s \o t
<1> HIDE DEF joined
<1>6. joined \in Seq(Nat) /\ Len(joined) = c - a
  BY <1>1, <1>2, <1>5 DEF joined
<1>7. ASSUME NEW i \in 1 .. c - a PROVE joined[i] = a + i
  <2>1. joined[i] = IF i <= b - a THEN s[i] ELSE t[i - (b - a)]
    <3>1. i \in 1 .. Len(s) + Len(t)
      BY <1>1, <1>2
    <3> QED BY <1>1, <1>5, <3>1 DEF joined
  <2>2. CASE i <= b - a
    BY <1>1, <2>1, <2>2
  <2>3. CASE i > b - a
    <3>1. i - (b - a) \in 1 .. c - b /\ b + (i - (b - a)) = a + i
      BY <2>3
    <3> QED BY <1>2, <2>1, <2>3, <3>1
  <2> QED BY <2>2, <2>3
<1>8. joined = u
  BY <1>4, <1>6, <1>7, SeqEqual
<1> QED BY <1>8 DEF joined, s, t, u

LEMMA SpanIsCut ==
  ASSUME NEW a \in Nat, NEW b \in Nat, a <= b, NEW k \in 1 .. b - a
  PROVE  /\ SubSeq(Span(a, b), 1, k) = Span(a, a + k)
         /\ SubSeq(Span(a, b), k + 1, b - a) = Span(a + k, b)
<1> DEFINE s == Span(a, b)
           t == Span(a, a + k)
           u == Span(a + k, b)
           front == SubSeq(s, 1, k)
           back == SubSeq(s, k + 1, b - a)
<1>1. /\ s \in Seq(Nat) /\ Len(s) = b - a
      /\ \A i \in 1 .. b - a : s[i] = a + i
  BY SpanType
<1>2. a + k \in Nat /\ a <= a + k /\ a + k <= b /\ k \in Nat
  OBVIOUS
<1>3. /\ t \in Seq(Nat) /\ Len(t) = (a + k) - a
      /\ \A i \in 1 .. (a + k) - a : t[i] = a + i
  BY <1>2, SpanType
<1>4. /\ u \in Seq(Nat) /\ Len(u) = b - (a + k)
      /\ \A i \in 1 .. b - (a + k) : u[i] = (a + k) + i
  BY <1>2, SpanType
<1> HIDE DEF s, t, u
<1>5. \A i \in 1 .. b - a : s[i] \in Nat
  BY <1>1
<1>6. /\ front \in Seq(Nat) /\ Len(front) = (IF 1 <= k THEN k - 1 + 1 ELSE 0)
      /\ \A i \in 1 .. k - 1 + 1 : front[i] = s[1 + i - 1]
  <2>1. \A i \in 1 .. k : s[i] \in Nat
    BY <1>5
  <2> QED BY <1>2, <2>1, SubSeqProperties
<1>7. /\ back \in Seq(Nat)
      /\ Len(back) = IF k + 1 <= b - a THEN b - a - (k + 1) + 1 ELSE 0
      /\ \A i \in 1 .. b - a - (k + 1) + 1 : back[i] = s[(k + 1) + i - 1]
  <2>1. \A i \in k + 1 .. b - a : s[i] \in Nat
    BY <1>5
  <2>2. k + 1 \in Int /\ b - a \in Int
    OBVIOUS
  <2> QED BY <2>1, <2>2, SubSeqProperties
<1> HIDE DEF front, back
<1>8. Len(front) = k /\ \A i \in 1 .. k : front[i] = a + i
  <2>1. Len(front) = k
    BY <1>6
  <2>2. ASSUME NEW i \in 1 .. k PROVE front[i] = a + i
    <3>1. i \in 1 .. k - 1 + 1 /\ 1 + i - 1 = i /\ i \in 1 .. b - a
      OBVIOUS
    <3> QED BY <1>1, <1>6, <3>1
  <2> QED BY <2>1, <2>2
<1>9. Len(back) = b - (a + k) /\ \A i \in 1 .. b - (a + k) : back[i] = (a + k) + i
  <2>1. Len(back) = b - (a + k)
    BY <1>7
  <2>2. ASSUME NEW i \in 1 .. b - (a + k) PROVE back[i] = (a + k) + i
    <3>1. i \in 1 .. b - a - (k + 1) + 1 /\ (k + 1) + i - 1 = k + i /\ k + i \in 1 .. b - a
      OBVIOUS
    <3> QED BY <1>1, <1>7, <3>1
  <2> QED BY <2>1, <2>2
<1>10. front = t
  BY <1>3, <1>6, <1>8, SeqEqual
<1>11. back = u
  BY <1>4, <1>7, <1>9, SeqEqual
<1> QED BY <1>10, <1>11 DEF front, back, s, t, u

(* The units of a paragraph end one after the other, the last at its end.  *)
LEMMA EndsRise ==
  ASSUME NEW p \in Paragraph, p # <<>>
  PROVE  /\ Ends(p) \in Seq(Nat \ {0}) /\ Ends(p) # <<>>
         /\ \A u \in 1 .. Len(Ends(p)) - 1 : Ends(p)[u] < Ends(p)[u + 1]
         /\ Ends(p)[Len(Ends(p))] = p[Len(p)][Len(p[Len(p)])]
<1>1. /\ p \in Seq(Seq(Nat \ {0})) /\ Len(p) \in Nat \ {0}
      /\ \A s \in 1 .. Len(p) : p[s] \in Seq(Nat \ {0}) /\ p[s] # <<>> /\ Len(p[s]) \in 1 .. Len(p[s])
                                /\ p[s][Len(p[s])] \in Nat \ {0}
  <2>1. p \in Seq(Seq(Nat \ {0})) /\ \A s \in 1 .. Len(p) : p[s] # <<>>
    BY DEF Paragraph
  <2>2. Len(p) \in Nat \ {0}
    BY <2>1, EmptySeq
  <2>3. ASSUME NEW s \in 1 .. Len(p)
        PROVE  p[s] \in Seq(Nat \ {0}) /\ Len(p[s]) \in 1 .. Len(p[s]) /\ p[s][Len(p[s])] \in Nat \ {0}
    <3>1. p[s] \in Seq(Nat \ {0})
      BY <2>1, ElementOfSeq
    <3>2. Len(p[s]) \in Nat \ {0}
      BY <2>1, <3>1, EmptySeq
    <3>3. Len(p[s]) \in 1 .. Len(p[s])
      BY <3>2
    <3> QED BY <3>1, <3>3, ElementOfSeq
  <2> QED BY <2>1, <2>2, <2>3
<1>2. CASE Len(p) = 1
  <2>1. Ends(p) = p[1] /\ 1 \in 1 .. Len(p)
    BY <1>2 DEF Ends
  <2> QED BY <1>1, <1>2, <2>1 DEF Paragraph
<1>3. CASE Len(p) # 1
  <2> DEFINE last == [s \in 1 .. Len(p) |-> p[s][Len(p[s])]]
  <2>1. Ends(p) = last
    BY <1>3 DEF Ends
  <2>2. last \in Seq(Nat \ {0}) /\ Len(last) = Len(p) /\ \A s \in 1 .. Len(p) : last[s] = p[s][Len(p[s])]
    BY <1>1
  <2> HIDE DEF last
  <2>3. \A u \in 1 .. Len(p) - 1 : last[u] < last[u + 1]
    <3>1. \A u \in 1 .. Len(p) - 1 : u \in 1 .. Len(p) /\ u + 1 \in 1 .. Len(p)
      BY <1>1
    <3> QED BY <2>2, <3>1 DEF Paragraph
  <2>4. Len(p) \in 1 .. Len(p) /\ last # <<>>
    BY <1>1, <2>2, EmptySeq
  <2> QED BY <2>1, <2>2, <2>3, <2>4
<1> QED BY <1>2, <1>3
(* The sections follow each other, and so do the section that is being     *)
(* filled, the piece and the unit in hand, up to where units were taken.   *)
Contiguous ==
  \A i \in 1 .. Len(sections) :
    /\ sections[i].content # <<>>
    /\ sections[i].content = Span(End(i - 1), End(i))

InHand(e1, e2) ==
  /\ End(Len(sections)) <= e1 /\ e1 <= e2 /\ e2 <= at
  /\ section.content = Span(End(Len(sections)), e1)
  /\ piece = Span(e1, e2) /\ unit = Span(e2, at)

(* The units to come lie ahead, up to the end of what was read.            *)
UnitsAhead ==
  /\ ends = <<>> => at = read
  /\ ends # <<>> => at < ends[1] /\ ends[Len(ends)] = read
  /\ \A u \in 1 .. Len(ends) - 1 : ends[u] < ends[u + 1]

SectionFits == section.content # <<>> => Fits(section)

SplitInv ==
  /\ DocumentTypeOK /\ Contiguous
  /\ \E e1, e2 \in Nat : InHand(e1, e2)
  /\ UnitsAhead
  /\ SectionsFit /\ SectionFits
  /\ complete => NothingInHand /\ section.content = <<>>

LEMMA LimitType == MaxTokens \in Nat /\ MaxTokens >= 2 /\ Special \in Nat /\ Blocks \in Nat
  BY TokenAssumption

LEMMA CountType ==
  ASSUME NEW text \in Seq(Nat)
  PROVE  Count(text) \in Nat
<1> DEFINE begins == {i \in 1 .. Len(text) : BeginsToken(text, i)}
<1>1. Len(text) \in Nat
  BY LenProperties
<1>2. IsFiniteSet(1 .. Len(text)) /\ begins \subseteq 1 .. Len(text)
  BY <1>1, FS_Interval
<1> HIDE DEF begins
<1>3. Cardinality(begins) \in Nat
  BY <1>2, FS_Subset, FS_CardinalityType
<1> QED BY <1>3, LimitType DEF Count, begins

LEMMA EndType ==
  ASSUME sections \in Seq(SectionType), Contiguous, NEW i \in 0 .. Len(sections)
  PROVE  End(i) \in Nat
<1>1. CASE i = 0
  BY <1>1 DEF End
<1>2. CASE i # 0
  <2> DEFINE text == sections[i].content
  <2>1. i \in 1 .. Len(sections)
    BY <1>2
  <2>2. text \in Seq(Nat) /\ text # <<>>
    <3>1. sections[i] \in SectionType
      BY <2>1, ElementOfSeq
    <3> QED BY <2>1, <3>1 DEF SectionType, Contiguous
  <2> HIDE DEF text
  <2>3. Len(text) \in 1 .. Len(text)
    <3>1. Len(text) \in Nat \ {0}
      BY <2>2, EmptySeq
    <3> QED BY <3>1
  <2>4. text[Len(text)] \in Nat
    BY <2>2, <2>3, ElementOfSeq
  <2> QED BY <1>2, <2>4 DEF End, text
<1> QED BY <1>1, <1>2

(* What is in hand becomes one more section.                               *)
LEMMA SectionAdded ==
  ASSUME sections \in Seq(SectionType), section \in SectionType, Contiguous, SectionsFit, Fits(section),
         NEW e \in Nat, End(Len(sections)) <= e,
         section.content = Span(End(Len(sections)), e), section.content # <<>>,
         sections' = Append(sections, section)
  PROVE  /\ sections' \in Seq(SectionType) /\ Contiguous' /\ SectionsFit'
         /\ End(Len(sections))' = e
<1>1. PICK n \in Nat : Len(sections) = n /\ DOMAIN sections = 1 .. n
  BY LenProperties
<1>2. End(n) \in Nat
  BY <1>1, EndType
<1>3. /\ sections' \in Seq(SectionType) /\ Len(sections') = n + 1
      /\ \A i \in 1 .. n : sections'[i] = sections[i]
      /\ sections'[n + 1] = section
  BY <1>1, AppendProperties
<1>4. section.content[Len(section.content)] = e
  <2>1. End(n) <= e /\ section.content = Span(End(n), e)
    BY <1>1
  <2>2. End(n) # e
    BY <1>2, <2>1, SpanType
  <2>3. End(n) < e
    BY <1>2, <2>1, <2>2
  <2> QED BY <1>2, <2>1, <2>3, SomeSpan
<1>5. End(n + 1)' = e
  BY <1>1, <1>3, <1>4 DEF End
<1>6. \A i \in 0 .. n : End(i)' = End(i)
  BY <1>1, <1>3 DEF End
<1>7. Contiguous'
  <2> SUFFICES ASSUME NEW i \in 1 .. n + 1
               PROVE  /\ sections'[i].content # <<>>
                      /\ sections'[i].content = Span(End(i - 1)', End(i)')
    BY <1>3 DEF Contiguous
  <2>1. CASE i = n + 1
    <3>1. n \in 0 .. n /\ i - 1 = n
      BY <1>1, <2>1
    <3> QED BY <1>3, <1>5, <1>6, <2>1, <3>1
  <2>2. CASE i # n + 1
    <3>1. i \in 1 .. n /\ i \in 0 .. n /\ i - 1 \in 0 .. n
      BY <1>1, <2>2
    <3> QED BY <1>3, <1>6, <3>1 DEF Contiguous
  <2> QED BY <2>1, <2>2
<1>8. SectionsFit'
  <2>1. DOMAIN sections' = 1 .. n + 1
    BY <1>3, LenProperties
  <2> SUFFICES ASSUME NEW i \in 1 .. n + 1 PROVE Fits(sections'[i])
    BY <2>1 DEF SectionsFit, Fits, Count
  <2>2. CASE i = n + 1
    BY <1>3, <2>2
  <2>3. CASE i # n + 1
    BY <1>1, <1>3, <2>3 DEF SectionsFit
  <2> QED BY <2>2, <2>3
<1> QED BY <1>3, <1>5, <1>7, <1>8

LEMMA SectionsStay ==
  ASSUME Contiguous, SectionsFit, UNCHANGED sections
  PROVE  Contiguous' /\ SectionsFit' /\ End(Len(sections))' = End(Len(sections))
  BY DEF Contiguous, SectionsFit, End, Fits, Count

(* At a heading, and at the end of the document.                           *)
LEMMA SectionEnds ==
  ASSUME DocumentTypeOK, Contiguous, SectionsFit, SectionFits,
         NEW e \in Nat, End(Len(sections)) <= e, section.content = Span(End(Len(sections)), e),
         sections' = WithSection
  PROVE  /\ sections' \in Seq(SectionType) /\ Contiguous' /\ SectionsFit'
         /\ End(Len(sections))' = e
<1>1. sections \in Seq(SectionType) /\ section \in SectionType
  BY DEF DocumentTypeOK
<1>2. CASE section.content = <<>>
  <2>1. UNCHANGED sections
    BY <1>2 DEF WithSection
  <2>2. Len(sections) \in 0 .. Len(sections)
    BY <1>1, LenProperties
  <2>3. End(Len(sections)) \in Nat
    BY <1>1, <2>2, EndType
  <2>4. End(Len(sections)) = e
    BY <1>2, <2>3, SpanType
  <2> QED BY <1>1, <2>1, <2>4, SectionsStay
<1>3. CASE section.content # <<>>
  <2>1. sections' = Append(sections, section) /\ Fits(section)
    BY <1>3 DEF WithSection, SectionFits
  <2> QED BY <1>1, <1>3, <2>1, SectionAdded
<1> QED BY <1>2, <1>3

(* A piece, or what was cut from one, goes to a section.                   *)
LEMMA TextAdded ==
  ASSUME DocumentTypeOK, Contiguous, SectionsFit, SectionFits,
         NEW e \in Nat, End(Len(sections)) <= e, section.content = Span(End(Len(sections)), e),
         NEW m \in Nat, e < m,
         NEW cut \in BOOLEAN, Count(Span(e, m)) <= MaxTokens \/ cut \/ Len(Span(e, m)) = 1,
         Add(Span(e, m), cut)
  PROVE  /\ sections' \in Seq(SectionType) /\ section' \in SectionType
         /\ Contiguous' /\ SectionsFit' /\ SectionFits'
         /\ End(Len(sections))' <= m /\ section'.content = Span(End(Len(sections))', m)
<1> DEFINE text == Span(e, m)
           last == End(Len(sections))
<1>1. sections \in Seq(SectionType) /\ section \in SectionType
  BY DEF DocumentTypeOK
<1>2. Len(sections) \in 0 .. Len(sections)
  BY <1>1, LenProperties
<1>3. last \in Nat
  BY <1>1, <1>2, EndType
<1>4. e <= m /\ last <= m
  BY <1>3
<1>5. /\ text \in Seq(Nat) /\ Len(text) \in Nat /\ text # <<>>
      /\ Span(last, m) \in Seq(Nat) /\ Len(Span(last, m)) \in Nat /\ Span(last, m) # <<>>
  <2>1. text \in Seq(Nat) /\ Len(text) \in Nat /\ text # <<>>
    BY SomeSpan
  <2>2. last < m
    BY <1>3
  <2> QED BY <1>3, <2>1, <2>2, SomeSpan
<1>6. CASE section.content # <<>> /\ Count(section.content \o text) > MaxTokens
  <2>1. sections' = Append(sections, section) /\ section' = [section EXCEPT !.content = text, !.cut = cut]
    BY <1>6 DEF Add
  <2>2. Fits(section)
    BY <1>6 DEF SectionFits
  <2>3. /\ sections' \in Seq(SectionType) /\ Contiguous' /\ SectionsFit'
        /\ End(Len(sections))' = e
    BY <1>1, <1>6, <2>1, <2>2, SectionAdded
  <2>4. section' \in SectionType /\ section'.content = text /\ section'.cut = cut
    BY <1>1, <1>5, <2>1 DEF SectionType
  <2>5. SectionFits'
    BY <1>5, <2>4 DEF SectionFits, Fits, Count
  <2> QED BY <2>3, <2>4, <2>5
<1>7. CASE section.content = <<>> \/ ~ Count(section.content \o text) > MaxTokens
  <2>1. /\ UNCHANGED sections
        /\ section' = [section EXCEPT !.content = @ \o text, !.cut = cut /\ section.content = <<>>]
    BY <1>7 DEF Add
  <2>2. Contiguous' /\ SectionsFit' /\ End(Len(sections))' = last
    BY <2>1, SectionsStay
  <2>3. section.content \o text = Span(last, m)
    <3>1. Span(last, e) \o Span(e, m) = Span(last, m)
      BY <1>3, <1>4, SpansJoin
    <3> QED BY <3>1
  <2>4. /\ section' \in SectionType
        /\ section'.content = Span(last, m) /\ section'.cut = (cut /\ section.content = <<>>)
    <3>1. (cut /\ section.content = <<>>) \in BOOLEAN
      OBVIOUS
    <3>2. section' = [section EXCEPT !.content = Span(last, m), !.cut = cut /\ section.content = <<>>]
      BY <2>1, <2>3
    <3> QED BY <1>1, <1>5, <3>1, <3>2 DEF SectionType
  <2>5. section.content = <<>> <=> last = e
    <3>1. Span(last, e) = <<>> <=> last = e
      BY <1>3, SpanType
    <3> QED BY <3>1
  <2>6. SectionFits'
    <3>1. CASE section.content = <<>>
      <4>1. last = e
        BY <1>3, <2>5, <3>1
      <4>2. section'.content = text /\ section'.cut = cut
        BY <2>4, <3>1, <4>1
      <4>3. Fits(section)'
        BY <4>2 DEF Fits, Count
      <4> QED BY <1>5, <2>4, <4>3 DEF SectionFits
    <3>2. CASE section.content # <<>>
      <4>1. Count(Span(last, m)) <= MaxTokens
        <5> DEFINE n == Count(Span(last, m))
        <5>1. n \in Nat /\ ~ n > MaxTokens
          BY <1>7, <1>5, <2>3, <3>2, CountType
        <5> HIDE DEF n
        <5>2. n <= MaxTokens
          BY <5>1, LimitType
        <5> QED BY <5>2 DEF n
      <4>2. Fits(section)'
        BY <2>4, <4>1 DEF Fits, Count
      <4> QED BY <1>5, <2>4, <4>2 DEF SectionFits
    <3> QED BY <3>1, <3>2 DEF SectionFits
  <2> QED BY <1>1, <1>4, <2>1, <2>2, <2>4, <2>6
<1> QED BY <1>6, <1>7

LEMMA QuotientIsLess ==
  ASSUME NEW a \in Nat, NEW c \in Nat \ {0}
  PROVE  a \div c \in Nat /\ (a \div c) * c <= a
<1>1. a = c * (a \div c) + (a % c) /\ a \div c \in Nat /\ a % c \in Nat
  OBVIOUS
<1> DEFINE d == a \div c
           r == a % c
<1> HIDE DEF d, r
<1>2. a = c * d + r /\ d \in Nat /\ r \in Nat
  BY <1>1 DEF d, r
<1>3. c * d = d * c /\ d * c \in Nat
  BY <1>2
<1>4. d \in Nat /\ d * c <= a
  BY <1>2, <1>3
<1> QED BY <1>4 DEF d

(* What is cut off is a proper part, whatever the tokens of the piece.     *)
LEMMA ShareIsAPart ==
  ASSUME piece \in Seq(Nat), TooLong
  PROVE  Share \in 1 .. Len(piece) - 1
<1>1. PICK n \in Nat, c \in Nat : n = Len(piece) /\ c = Count(piece)
  BY LenProperties, CountType
<1> DEFINE q == (n * MaxTokens) \div c
<1>2. n > 1 /\ c > MaxTokens /\ c \in Nat \ {0}
  BY <1>1, LimitType DEF TooLong
<1>3. n * MaxTokens \in Nat
  BY <1>1, LimitType
<1>4. /\ q \in Nat
      /\ q * c <= n * MaxTokens
  BY <1>2, <1>3, QuotientIsLess
<1>5. q < n
  <2> HIDE DEF q
  <2>1. SUFFICES ASSUME n <= q PROVE FALSE
    BY <1>4
  <2>2. n * c <= q * c
    BY <1>2, <1>4, <2>1, TimesRises
  <2>3. (MaxTokens + 1) * n <= c * n
    BY <1>2, LimitType, TimesRises
  <2>4. (MaxTokens + 1) * n = n * MaxTokens + n /\ c * n = n * c
    BY LimitType
  <2>5. n * c <= n * MaxTokens
    BY <1>2, <1>3, <1>4, <2>2, LimitType
  <2> QED BY <1>2, <1>3, <2>3, <2>4, <2>5, LimitType
<1>6. Share = IF q > 1 THEN q ELSE 1
  BY <1>1 DEF Share
<1> HIDE DEF q
<1> QED BY <1>1, <1>2, <1>4, <1>5, <1>6, LimitType

(* Titles are made of words.                                               *)
LEMMA StepType ==
  ASSUME NEW path, path \in [DOMAIN path -> Seq(Token)], NEW k
  PROVE  Step(path, k) \in Seq(Token)
<1>1. Separator \in Token /\ <<Separator>> \in Seq(Token)
  BY BlockAssumption DEF Separator, Token
<1>2. k \in DOMAIN path => path[k] \in Seq(Token)
  OBVIOUS
<1>3. <<>> \in Seq(Token)
  BY EmptySeq
<1> QED BY <1>1, <1>2, <1>3, ConcatProperties DEF Step

LEMMA TitleType ==
  ASSUME NEW path, path \in [DOMAIN path -> Seq(Token)]
  PROVE  Title(path) \in Seq(Token)
<1>1. \A k : Step(path, k) \in Seq(Token)
  BY StepType
<1>2. \A s, t \in Seq(Token) : s \o t \in Seq(Token)
  BY ConcatProperties
<1> QED BY <1>1, <1>2 DEF Title

LEMMA EmptySection ==
  ASSUME NEW title \in Seq(Token)
  PROVE  Section(title) \in SectionType /\ Section(title).content = <<>>
  BY EmptySeq DEF Section, SectionType

(* Reading a heading: the section before it ends.                          *)
LEMMA OpenEnds ==
  ASSUME SplitInv, NothingInHand, NEW b \in Block, Open(b)
  PROVE  /\ DOMAIN headings' \subseteq Level /\ headings' \in [DOMAIN headings' -> Seq(Token)]
         /\ sections' \in Seq(SectionType) /\ section' \in SectionType
         /\ Contiguous' /\ SectionsFit' /\ SectionFits'
         /\ End(Len(sections))' <= at
         /\ section'.content = Span(End(Len(sections))', at)
<1>1. DocumentTypeOK /\ Contiguous /\ SectionsFit /\ SectionFits
  BY DEF SplitInv
<1>2. at \in Nat /\ sections \in Seq(SectionType) /\ Len(sections) \in 0 .. Len(sections)
  BY <1>1, LenProperties DEF DocumentTypeOK
<1>3. End(Len(sections)) <= at /\ section.content = Span(End(Len(sections)), at)
  <2>1. PICK e1, e2 \in Nat : InHand(e1, e2)
    BY DEF SplitInv
  <2>2. e1 = e2 /\ e2 = at
    <3>1. e1 <= e2 /\ e2 <= at /\ Span(e1, e2) = <<>> /\ Span(e2, at) = <<>>
      BY <2>1 DEF InHand, NothingInHand
    <3>2. e1 = e2
      BY <3>1, SpanType
    <3>3. e2 = at
      BY <1>2, <3>1, SpanType
    <3> QED BY <3>2, <3>3
  <2> QED BY <2>1, <2>2 DEF InHand
<1>4. CASE b.level = 0
  <2>1. UNCHANGED <<headings, sections, section>>
    BY <1>4 DEF Open
  <2>2. Contiguous' /\ SectionsFit' /\ End(Len(sections))' = End(Len(sections))
    BY <1>1, <2>1, SectionsStay
  <2>3. SectionFits'
    BY <1>1, <2>1 DEF SectionFits, Fits, Count
  <2> QED BY <1>1, <1>3, <2>1, <2>2, <2>3 DEF DocumentTypeOK
<1>5. CASE b.level # 0
  <2>1. /\ headings' = Under(b.level, b.heading)
        /\ sections' = WithSection /\ section' = Section(Title(headings'))
    BY <1>5 DEF Open
  <2>2. /\ sections' \in Seq(SectionType) /\ Contiguous' /\ SectionsFit'
        /\ End(Len(sections))' = at
    BY <1>1, <1>2, <1>3, <2>1, SectionEnds
  <2>3. DOMAIN headings' \subseteq Level /\ headings' \in [DOMAIN headings' -> Seq(Token)]
    <3>1. b.level \in Level /\ b.heading \in Seq(Token)
      BY <1>5, BlockAssumption DEF BlockType
    <3>2. DOMAIN headings \subseteq Level /\ headings \in [DOMAIN headings -> Seq(Token)]
      BY <1>1 DEF DocumentTypeOK
    <3> QED BY <2>1, <3>1, <3>2 DEF Under
  <2>4. section' \in SectionType /\ section'.content = <<>>
    <3>1. Title(headings') \in Seq(Token)
      BY <2>3, TitleType
    <3> QED BY <2>1, <3>1, EmptySection
  <2>5. SectionFits'
    BY <2>4 DEF SectionFits
  <2>6. Span(at, at) = <<>>
    <3>1. at <= at
      BY <1>2
    <3> QED BY <1>2, <3>1, SpanType
  <2> QED BY <1>2, <2>2, <2>3, <2>4, <2>5, <2>6
<1> QED BY <1>4, <1>5

(* A paragraph is one piece, or its units lie ahead.                       *)
LEMMA ParagraphBegins ==
  ASSUME read \in Nat, at = read, ends = <<>>, piece = <<>>, unit = <<>>,
         NEW p \in Paragraph, p # <<>>, Begin(p)
  PROVE  /\ read' \in Nat /\ ends' \in Seq(Nat) /\ at' \in Nat /\ UnitsAhead'
         /\ unit' = <<>> /\ at <= at' /\ piece' = Span(at, at')
<1> DEFINE u == Ends(p)
           length == p[Len(p)][Len(p[Len(p)])]
<1>1. /\ u \in Seq(Nat \ {0}) /\ u # <<>> /\ u[Len(u)] = length
      /\ \A k \in 1 .. Len(u) - 1 : u[k] < u[k + 1]
  BY EndsRise
<1>2. PICK n \in Nat \ {0} : n = Len(u) /\ u \in [1 .. n -> Nat \ {0}]
  BY <1>1, EmptySeq, LenProperties
<1>3. length \in Nat \ {0} /\ u[n] = length
  BY <1>1, <1>2
<1> HIDE DEF u, length
<1>4. read' = read + length /\ unit' = <<>>
  BY DEF Begin, length
<1>5. CASE Count(Span(read, read + length)) <= MaxTokens
  <2>1. piece' = Span(read, read + length) /\ at' = read + length /\ ends' = <<>>
    BY <1>5 DEF Begin, length
  <2>2. UnitsAhead'
    BY <1>4, <2>1, EmptySeq DEF UnitsAhead
  <2> QED BY <1>3, <1>4, <2>1, <2>2, EmptySeq
<1>6. CASE ~ Count(Span(read, read + length)) <= MaxTokens
  <2>1. ends' = [k \in 1 .. n |-> read + u[k]] /\ at' = at /\ piece' = <<>>
    BY <1>2, <1>6 DEF Begin, length, u
  <2>2. /\ ends' \in Seq(Nat) /\ Len(ends') = n /\ \A k \in 1 .. n : ends'[k] = read + u[k]
    BY <1>2, <2>1
  <2>3. UnitsAhead'
    <3>1. ends' # <<>>
      BY <2>2, EmptySeq
    <3>2. at' < ends'[1] /\ ends'[n] = read'
      <4>1. 1 \in 1 .. n /\ n \in 1 .. n
        BY <1>2
      <4>2. u[1] \in Nat \ {0}
        BY <1>2, <4>1
      <4> QED BY <1>3, <1>4, <2>1, <2>2, <4>1, <4>2
    <3>3. ASSUME NEW k \in 1 .. n - 1 PROVE ends'[k] < ends'[k + 1]
      <4>1. k \in 1 .. n /\ k + 1 \in 1 .. n
        BY <1>2
      <4>2. u[k] < u[k + 1] /\ u[k] \in Nat /\ u[k + 1] \in Nat
        BY <1>1, <1>2, <4>1
      <4> QED BY <2>2, <4>1, <4>2
    <3> QED BY <2>2, <3>1, <3>2, <3>3 DEF UnitsAhead
  <2>4. at <= at /\ Span(at, at) = <<>>
    BY EmptySpan
  <2>5. read' \in Nat
    BY <1>3, <1>4
  <2> QED BY <1>4, <2>1, <2>2, <2>3, <2>4, <2>5
<1> QED BY <1>5, <1>6

LEMMA ReadBlockSplits ==
  ASSUME SplitInv, ReadBlock
  PROVE  SplitInv'
<1>1. PICK b \in Block :
        /\ Open(b)
        /\ IF b.text = <<>> THEN UNCHANGED <<read, paragraphVars>> ELSE Begin(b.text)
  BY DEF ReadBlock
<1>2. NothingInHand /\ blocks' \in 0 .. Blocks /\ complete' = FALSE
  BY LimitType DEF ReadBlock, SplitInv, DocumentTypeOK
<1>3. at = read /\ read \in Nat /\ ends = <<>> /\ piece = <<>> /\ unit = <<>>
  BY <1>2 DEF SplitInv, DocumentTypeOK, UnitsAhead, NothingInHand
<1>4. /\ DOMAIN headings' \subseteq Level /\ headings' \in [DOMAIN headings' -> Seq(Token)]
      /\ sections' \in Seq(SectionType) /\ section' \in SectionType
      /\ Contiguous' /\ SectionsFit' /\ SectionFits'
      /\ End(Len(sections))' <= at
      /\ section'.content = Span(End(Len(sections))', at)
  BY <1>1, <1>2, OpenEnds
<1>5. /\ read' \in Nat /\ ends' \in Seq(Nat) /\ at' \in Nat /\ UnitsAhead'
      /\ unit' = <<>> /\ at <= at' /\ piece' = Span(at, at')
  <2>1. CASE b.text = <<>>
    <3>1. UNCHANGED <<read, ends, at, unit, piece>>
      BY <1>1, <2>1 DEF paragraphVars
    <3>2. UnitsAhead'
      BY <3>1 DEF SplitInv, UnitsAhead
    <3>3. at <= at /\ Span(at, at) = <<>>
      BY <1>3, EmptySpan
    <3> QED BY <1>3, <3>1, <3>2, <3>3, EmptySeq
  <2>2. CASE b.text # <<>>
    <3>1. b.text \in Paragraph
      BY BlockAssumption DEF BlockType
    <3> QED BY <1>1, <1>3, <2>2, <3>1, ParagraphBegins
  <2> QED BY <2>1, <2>2
<1>6. at' <= at' /\ Span(at', at') = <<>>
  BY <1>5, EmptySpan
<1>7. piece' \in Seq(Nat) /\ unit' \in Seq(Nat)
  BY <1>3, <1>5, SpanType, EmptySeq
<1>8. \E e1, e2 \in Nat : InHand(e1, e2)'
  <2>1. PICK e1 \in Nat, e2 \in Nat : e1 = at /\ e2 = at'
    BY <1>3, <1>5
  <2>2. InHand(e1, e2)'
    BY <1>4, <1>5, <1>6, <2>1 DEF InHand
  <2> QED BY <2>2
<1> QED BY <1>2, <1>4, <1>5, <1>7, <1>8 DEF SplitInv, DocumentTypeOK

LEMMA TakeUnitSplits ==
  ASSUME SplitInv, TakeUnit
  PROVE  SplitInv'
<1> DEFINE next == Head(ends)
           text == Span(at, next)
<1>1. PICK e1, e2 \in Nat : InHand(e1, e2)
  BY DEF SplitInv
<1>2. /\ piece = <<>> /\ ends # <<>> /\ at' = next /\ ends' = Tail(ends)
      /\ UNCHANGED <<blocks, read, headings, sections, section, complete>>
  BY DEF TakeUnit
<1>3. /\ at \in Nat /\ ends \in Seq(Nat) /\ at < ends[1] /\ ends[Len(ends)] = read
      /\ \A u \in 1 .. Len(ends) - 1 : ends[u] < ends[u + 1]
  BY <1>2 DEF SplitInv, DocumentTypeOK, UnitsAhead
<1>4. /\ next \in Nat /\ next = ends[1] /\ at < next
      /\ Tail(ends) \in Seq(Nat) /\ Len(Tail(ends)) = Len(ends) - 1
      /\ \A i \in 1 .. Len(Tail(ends)) : Tail(ends)[i] = ends[i + 1]
  BY <1>2, <1>3, HeadTailProperties
<1>5. PICK n \in Nat \ {0} : n = Len(ends)
  BY <1>2, <1>3, EmptySeq
<1> HIDE DEF next
<1>6. UnitsAhead'
  <2>1. CASE n = 1
    <3>1. Tail(ends) = <<>>
      <4>1. Len(Tail(ends)) = 0
        BY <1>4, <1>5, <2>1
      <4> QED BY <1>4, <4>1, EmptySeq
    <3>2. next = read
      BY <1>3, <1>4, <1>5, <2>1
    <3>3. ends' = <<>> /\ at' = read'
      BY <1>2, <3>1, <3>2
    <3> QED BY <3>3, EmptySeq DEF UnitsAhead
  <2>2. CASE n # 1
    <3>1. 1 \in 1 .. n - 1 /\ n - 1 \in 1 .. n - 1
      BY <2>2
    <3>2. Tail(ends) # <<>> /\ Tail(ends)[1] = ends[2] /\ Tail(ends)[n - 1] = read
      <4>1. Tail(ends) # <<>>
        <5> DEFINE tail == Tail(ends)
        <5>1. Len(tail) # 0
          BY <1>4, <1>5, <2>2
        <5>2. Len(<<>>) = 0
          BY EmptySeq
        <5> HIDE DEF tail
        <5>3. tail # <<>>
          BY <5>1, <5>2
        <5> QED BY <5>3 DEF tail
      <4>2. Tail(ends)[1] = ends[1 + 1] /\ Tail(ends)[n - 1] = ends[(n - 1) + 1]
        BY <1>4, <1>5, <3>1
      <4> QED BY <1>3, <1>5, <4>1, <4>2
    <3>3. next < Tail(ends)[1]
      BY <1>3, <1>4, <1>5, <3>1, <3>2
    <3>4. ASSUME NEW u \in 1 .. (n - 1) - 1 PROVE Tail(ends)[u] < Tail(ends)[u + 1]
      <4>1. u \in 1 .. n - 1 /\ u + 1 \in 1 .. n - 1
        OBVIOUS
      <4> QED BY <1>3, <1>4, <1>5, <4>1
    <3> QED BY <1>2, <1>4, <1>5, <3>2, <3>3, <3>4 DEF UnitsAhead
  <2> QED BY <2>1, <2>2
<1>7. /\ Contiguous' /\ SectionsFit' /\ End(Len(sections))' = End(Len(sections))
  BY <1>2, SectionsStay DEF SplitInv
<1>8. /\ End(Len(sections)) <= e1 /\ e1 = e2 /\ e2 <= at
      /\ section.content = Span(End(Len(sections)), e1) /\ unit = Span(e2, at)
  <2>1. e1 <= e2 /\ Span(e1, e2) = <<>>
    BY <1>1, <1>2 DEF InHand
  <2>2. e1 = e2
    BY <2>1, SpanType
  <2> QED BY <1>1, <2>2 DEF InHand
<1>9. \E f1, f2 \in Nat : InHand(f1, f2)'
  <2>1. CASE unit # <<>> /\ Count(unit \o text) > MaxTokens
    <3>1. piece' = unit /\ unit' = text
      BY <2>1 DEF TakeUnit, next
    <3>2. PICK e \in Nat : e = at
      BY <1>3
    <3>3. InHand(e1, e)'
      BY <1>2, <1>3, <1>4, <1>7, <1>8, <3>1, <3>2 DEF InHand
    <3> QED BY <3>3
  <2>2. CASE unit = <<>> \/ ~ Count(unit \o text) > MaxTokens
    <3>1. piece' = piece /\ unit' = unit \o text
      BY <2>2 DEF TakeUnit, next
    <3>2. unit \o text = Span(e2, next)
      <4>1. e2 <= at /\ at <= next /\ at \in Nat /\ next \in Nat
        BY <1>3, <1>4, <1>8
      <4> HIDE DEF text
      <4>2. Span(e2, at) \o Span(at, next) = Span(e2, next)
        BY <4>1, SpansJoin
      <4> QED BY <1>8, <4>2 DEF text
    <3>3. InHand(e1, e2)'
      BY <1>1, <1>2, <1>3, <1>4, <1>7, <1>8, <3>1, <3>2 DEF InHand
    <3> QED BY <3>3
  <2> QED BY <2>1, <2>2
<1>10. piece' \in Seq(Nat) /\ unit' \in Seq(Nat)
  <2>1. unit \in Seq(Nat) /\ piece \in Seq(Nat) /\ text \in Seq(Nat)
    BY <1>3, <1>4, SomeSpan DEF SplitInv, DocumentTypeOK
  <2>2. unit \o text \in Seq(Nat)
    BY <2>1, ConcatProperties
  <2>3. (piece' = unit /\ unit' = text) \/ (unit' = unit \o text /\ piece' = piece)
    BY DEF TakeUnit, next
  <2> QED BY <2>1, <2>2, <2>3
<1>11. DocumentTypeOK'
  BY <1>2, <1>4, <1>10 DEF SplitInv, DocumentTypeOK
<1>12. SectionFits' /\ ~complete'
  BY <1>2 DEF SplitInv, SectionFits, Fits, Count, NothingInHand
<1> QED BY <1>6, <1>7, <1>9, <1>11, <1>12 DEF SplitInv

LEMMA LastUnitsSplits ==
  ASSUME SplitInv, LastUnits
  PROVE  SplitInv'
<1>1. PICK e1, e2 \in Nat : InHand(e1, e2)
  BY DEF SplitInv
<1>2. /\ piece = <<>> /\ unit # <<>> /\ piece' = unit /\ unit' = <<>>
      /\ UNCHANGED <<blocks, read, headings, sections, section, ends, at, complete>>
  BY DEF LastUnits
<1>3. /\ Contiguous' /\ SectionsFit' /\ End(Len(sections))' = End(Len(sections))
  BY <1>2, SectionsStay DEF SplitInv
<1>4. e1 = e2
  <2>1. e1 <= e2 /\ Span(e1, e2) = <<>>
    BY <1>1, <1>2 DEF InHand
  <2> QED BY <2>1, SpanType
<1>5. at \in Nat /\ at <= at /\ Span(at, at) = <<>>
  <2>1. at \in Nat /\ at <= at
    BY DEF SplitInv, DocumentTypeOK
  <2> QED BY <2>1, SpanType
<1>6. \E f1, f2 \in Nat : InHand(f1, f2)'
  <2>1. PICK e \in Nat : e = at
    BY <1>5
  <2>2. InHand(e1, e)'
    BY <1>1, <1>2, <1>3, <1>4, <1>5, <2>1 DEF InHand
  <2> QED BY <2>2
<1>7. DocumentTypeOK'
  BY <1>2, EmptySeq DEF SplitInv, DocumentTypeOK
<1>8. SectionFits' /\ UnitsAhead' /\ ~complete'
  BY <1>2 DEF SplitInv, SectionFits, UnitsAhead, Fits, Count, NothingInHand
<1> QED BY <1>3, <1>5, <1>6, <1>7, <1>8 DEF SplitInv


(* A piece, or a part cut from it, moves to its section.                   *)
LEMMA PieceMoves ==
  ASSUME SplitInv, NEW e1 \in Nat, NEW m \in Nat, NEW e2 \in Nat,
         InHand(e1, e2), e1 < m, m <= e2,
         NEW cut \in BOOLEAN, Count(Span(e1, m)) <= MaxTokens \/ cut \/ Len(Span(e1, m)) = 1,
         Add(Span(e1, m), cut), piece' = Span(m, e2), ~complete,
         UNCHANGED <<blocks, read, headings, ends, at, unit, complete>>
  PROVE  SplitInv'
<1>1. /\ sections' \in Seq(SectionType) /\ section' \in SectionType
      /\ Contiguous' /\ SectionsFit' /\ SectionFits'
      /\ End(Len(sections))' <= m /\ section'.content = Span(End(Len(sections))', m)
  BY TextAdded DEF SplitInv, InHand
<1>2. InHand(m, e2)'
  BY <1>1 DEF InHand
<1>3. piece' \in Seq(Nat)
  BY SpanType
<1>4. DocumentTypeOK'
  BY <1>1, <1>3 DEF SplitInv, DocumentTypeOK
<1>5. UnitsAhead' /\ ~complete'
  BY DEF SplitInv, UnitsAhead
<1> QED BY <1>1, <1>2, <1>4, <1>5 DEF SplitInv

LEMMA AddPieceSplits ==
  ASSUME SplitInv, AddPiece
  PROVE  SplitInv'
<1>1. PICK e1, e2 \in Nat : InHand(e1, e2)
  BY DEF SplitInv
<1>2. /\ piece # <<>> /\ ~TooLong /\ Add(piece, FALSE) /\ piece' = <<>>
      /\ UNCHANGED <<blocks, read, headings, ends, at, unit, complete>>
  BY DEF AddPiece
<1>3. piece = Span(e1, e2) /\ e1 <= e2
  BY <1>1 DEF InHand
<1>4. e1 < e2 /\ Len(piece) = e2 - e1
  <2>1. e1 # e2
    <3>1. Span(e1, e2) # <<>>
      BY <1>2, <1>3
    <3> QED BY <1>3, <3>1, SpanType
  <2>2. Len(Span(e1, e2)) = e2 - e1
    BY <1>3, SpanType
  <2> QED BY <1>3, <2>1, <2>2
<1>5. Count(piece) <= MaxTokens \/ Len(piece) = 1
  <2>1. Count(piece) \in Nat
    BY CountType DEF SplitInv, DocumentTypeOK
  <2> QED BY <1>2, <1>4, <2>1, LimitType DEF TooLong
<1>6. e2 <= e2 /\ Span(e2, e2) = <<>>
  BY EmptySpan
<1>7. ~complete
  BY <1>2 DEF SplitInv, NothingInHand
<1> QED BY <1>1, <1>2, <1>3, <1>4, <1>5, <1>6, <1>7, PieceMoves

LEMMA CutSplits ==
  ASSUME SplitInv, Cut
  PROVE  SplitInv'
<1>1. PICK e1, e2 \in Nat : InHand(e1, e2)
  BY DEF SplitInv
<1>2. /\ TooLong /\ Add(SubSeq(piece, 1, Share), TRUE) /\ piece' = SubSeq(piece, Share + 1, Len(piece))
      /\ UNCHANGED <<blocks, read, headings, ends, at, unit, complete>>
  BY DEF Cut
<1>3. piece = Span(e1, e2) /\ e1 <= e2 /\ piece \in Seq(Nat)
  BY <1>1 DEF InHand, SplitInv, DocumentTypeOK
<1>4. Len(piece) = e2 - e1
  BY <1>3, SpanType
<1>5. PICK k : k = Share
  OBVIOUS
<1>6. k \in 1 .. (e2 - e1) - 1
  BY <1>2, <1>3, <1>4, <1>5, ShareIsAPart
<1>7. k \in 1 .. e2 - e1 /\ e1 + k \in Nat /\ e1 <= e1 + k /\ e1 < e1 + k /\ e1 + k <= e2
  BY <1>6
<1>8. /\ SubSeq(piece, 1, k) = Span(e1, e1 + k)
      /\ SubSeq(piece, k + 1, e2 - e1) = Span(e1 + k, e2)
  BY <1>3, <1>7, SpanIsCut
<1>9. Add(Span(e1, e1 + k), TRUE) /\ piece' = Span(e1 + k, e2)
  BY <1>2, <1>4, <1>5, <1>8
<1>10. ~complete
  BY <1>2, EmptySeq DEF SplitInv, NothingInHand, TooLong
<1> QED BY <1>1, <1>2, <1>7, <1>9, <1>10, PieceMoves

LEMMA FinishSplits ==
  ASSUME SplitInv, Finish
  PROVE  SplitInv'
<1>1. PICK e1, e2 \in Nat : InHand(e1, e2)
  BY DEF SplitInv
<1>2. /\ NothingInHand /\ sections' = WithSection /\ section' = Section(<<>>) /\ complete' = TRUE
      /\ UNCHANGED <<blocks, read, headings, ends, at, unit, piece>>
  BY DEF Finish, paragraphVars
<1>3. at \in Nat
  BY DEF SplitInv, DocumentTypeOK
<1>4. /\ End(Len(sections)) <= e1 /\ section.content = Span(End(Len(sections)), e1)
      /\ e1 = e2 /\ e2 = at
  <2>1. e1 <= e2 /\ e2 <= at /\ Span(e1, e2) = <<>> /\ Span(e2, at) = <<>>
    BY <1>1, <1>2 DEF InHand, NothingInHand
  <2>2. e1 = e2
    BY <2>1, SpanType
  <2>3. e2 = at
    BY <1>3, <2>1, SpanType
  <2> QED BY <1>1, <2>2, <2>3 DEF InHand
<1>5. /\ sections' \in Seq(SectionType) /\ Contiguous' /\ SectionsFit'
      /\ End(Len(sections))' = e1
  BY <1>2, <1>4, SectionEnds DEF SplitInv
<1>6. section' \in SectionType /\ section'.content = <<>>
  BY <1>2, EmptySeq, EmptySection
<1>7. e1 <= e1 /\ Span(e1, e1) = <<>>
  BY EmptySpan
<1>8. InHand(e1, e1)'
  BY <1>2, <1>4, <1>5, <1>6, <1>7 DEF InHand, NothingInHand
<1>9. SectionFits' /\ UnitsAhead' /\ NothingInHand'
  BY <1>2, <1>6 DEF SplitInv, SectionFits, UnitsAhead, NothingInHand
<1>10. DocumentTypeOK'
  BY <1>2, <1>5, <1>6 DEF SplitInv, DocumentTypeOK
<1> QED BY <1>5, <1>6, <1>8, <1>9, <1>10 DEF SplitInv

LEMMA SplitStutters == SplitInv /\ UNCHANGED documentVars => SplitInv'
<1> SUFFICES ASSUME SplitInv, UNCHANGED documentVars PROVE SplitInv'
  OBVIOUS
<1>1. UNCHANGED <<blocks, read, headings, sections, section, ends, at, unit, piece, complete>>
  BY DEF documentVars, paragraphVars
<1>2. /\ Contiguous' /\ SectionsFit' /\ End(Len(sections))' = End(Len(sections))
  BY <1>1, SectionsStay DEF SplitInv
<1>3. PICK e1, e2 \in Nat : InHand(e1, e2)
  BY DEF SplitInv
<1>4. InHand(e1, e2)'
  BY <1>1, <1>2, <1>3 DEF InHand
<1>5. DocumentTypeOK' /\ UnitsAhead' /\ SectionFits'
  BY <1>1 DEF SplitInv, DocumentTypeOK, UnitsAhead, SectionFits, Fits, Count
<1>6. complete' => NothingInHand' /\ section'.content = <<>>
  BY <1>1 DEF SplitInv, NothingInHand
<1> QED BY <1>2, <1>4, <1>5, <1>6 DEF SplitInv

LEMMA SplitStep == SplitInv /\ [DocumentNext]_documentVars => SplitInv'
  BY ReadBlockSplits, TakeUnitSplits, LastUnitsSplits, CutSplits, AddPieceSplits, FinishSplits,
     SplitStutters DEF DocumentNext

LEMMA SplitInit == DocumentInit => SplitInv
<1> SUFFICES ASSUME DocumentInit PROVE SplitInv
  OBVIOUS
<1> USE DEF DocumentInit
<1>1. <<>> \in Seq(Token) /\ <<>> \in Seq(SectionType) /\ <<>> \in Seq(Nat) /\ Len(<<>>) = 0
  BY EmptySeq
<1>2. section \in SectionType /\ section.content = <<>>
  BY <1>1, EmptySection
<1>3. DOMAIN headings \subseteq Level /\ headings \in [DOMAIN headings -> Seq(Token)]
  OBVIOUS
<1>4. DocumentTypeOK
  <2>1. blocks \in 0 .. Blocks /\ read \in Nat /\ at \in Nat /\ complete \in BOOLEAN
    <3>1. 0 \in 0 .. Blocks
      BY LimitType
    <3> QED BY <3>1, Zenon
  <2>2. sections \in Seq(SectionType) /\ ends \in Seq(Nat) /\ unit \in Seq(Nat) /\ piece \in Seq(Nat)
    BY <1>1
  <2> QED BY <1>2, <1>3, <2>1, <2>2 DEF DocumentTypeOK
<1>5. Contiguous /\ SectionsFit /\ SectionFits /\ UnitsAhead
  BY <1>1, <1>2 DEF Contiguous, SectionsFit, SectionFits, UnitsAhead
<1>6. InHand(0, 0)
  BY <1>1, <1>2, EmptySpan DEF InHand, End
<1> QED BY <1>4, <1>5, <1>6 DEF SplitInv

(* No two sections have one title: the ranks of those that share theirs    *)
(* differ.                                                                 *)
LEMMA PartsDiffer ==
  ASSUME sections \in Seq(SectionType), NEW i \in DOMAIN sections, NEW j \in DOMAIN sections,
         i < j, Part(i) # 0, Part(j) # 0, sections[i].title = sections[j].title
  PROVE  Part(i) # Part(j)
<1> DEFINE same == {k \in DOMAIN sections : sections[k].title = sections[j].title}
           before(n) == {k \in same : k <= n}
<1>1. PICK n \in Nat : DOMAIN sections = 1 .. n
  BY LenProperties
<1>2. Part(i) = Cardinality(before(i)) /\ Part(j) = Cardinality(before(j))
  BY DEF Part
<1>3. IsFiniteSet(before(j))
  <2>1. IsFiniteSet(1 .. n)
    BY FS_Interval
  <2>2. before(j) \subseteq 1 .. n
    BY <1>1
  <2> QED BY <2>1, <2>2, FS_Subset
<1>4. before(i) \subseteq before(j) /\ j \in before(j) /\ j \notin before(i)
  BY <1>1
<1>5. before(i) # before(j)
  BY <1>4
<1> HIDE DEF before
<1>6. Cardinality(before(i)) < Cardinality(before(j))
  BY <1>3, <1>4, <1>5, FS_Subset, FS_CardinalityType
<1>7. Cardinality(before(i)) \in Nat /\ Cardinality(before(j)) \in Nat
  BY <1>3, <1>4, FS_Subset, FS_CardinalityType
<1> QED BY <1>2, <1>6, <1>7

LEMMA TitlesDiffer == sections \in Seq(SectionType) => TitlesDistinct
<1> SUFFICES ASSUME sections \in Seq(SectionType),
                    NEW i \in DOMAIN sections, NEW j \in DOMAIN sections, i # j,
                    FullTitle(i) = FullTitle(j), ~ReadsAsPart(i, j), ~ReadsAsPart(j, i)
             PROVE  FALSE
  BY DEF TitlesDistinct
<1>1. PICK n \in Nat : n = Len(sections) /\ DOMAIN sections = 1 .. n
  BY LenProperties
<1>2. \A k \in 1 .. n : sections[k].title \in Seq(Token)
  <2> TAKE k \in 1 .. n
  <2>1. sections[k] \in SectionType
    BY <1>1, ElementOfSeq
  <2> QED BY <2>1 DEF SectionType
<1>3. ASSUME NEW k \in 1 .. n PROVE Part(k) \in Nat
  <2> DEFINE before == {l \in {m \in DOMAIN sections : sections[m].title = sections[k].title} : l <= k}
  <2>1. IsFiniteSet(before)
    <3>1. before \subseteq 1 .. n /\ IsFiniteSet(1 .. n)
      BY <1>1, FS_Interval
    <3> QED BY <3>1, FS_Subset
  <2>2. Part(k) = 0 \/ Part(k) = Cardinality(before)
    BY DEF Part
  <2> QED BY <2>1, <2>2, FS_CardinalityType
<1>4. CASE Part(i) = 0 /\ Part(j) = 0
  <2> DEFINE same == {k \in DOMAIN sections : sections[k].title = sections[i].title}
             before == {k \in same : k <= i}
  <2>1. sections[i].title = sections[j].title
    BY <1>4 DEF FullTitle
  <2>2. i \in same /\ j \in same /\ i \in before
    BY <1>1, <2>1
  <2>3. Cardinality(before) = 0
    BY <1>4, <2>2 DEF Part
  <2>4. IsFiniteSet(before)
    <3>1. before \subseteq 1 .. n /\ IsFiniteSet(1 .. n)
      BY <1>1, FS_Interval
    <3> QED BY <3>1, FS_Subset
  <2> QED BY <2>2, <2>3, <2>4, FS_EmptySet
<1>5. CASE Part(i) # 0 /\ Part(j) # 0
  <2>1. Append(sections[i].title, Numbered(Part(i))) = Append(sections[j].title, Numbered(Part(j)))
    BY <1>5 DEF FullTitle
  <2>2. Numbered(Part(i)) \in Token /\ Numbered(Part(j)) \in Token
    BY <1>1, <1>3, BlockAssumption DEF Numbered, Token
  <2>3. sections[i].title = sections[j].title /\ Numbered(Part(i)) = Numbered(Part(j))
    <3> DEFINE s == sections[i].title
               t == sections[j].title
               e == Numbered(Part(i))
               f == Numbered(Part(j))
    <3>1. s \in Seq(Token) /\ t \in Seq(Token) /\ e \in Token /\ f \in Token /\ Append(s, e) = Append(t, f)
      BY <1>1, <1>2, <2>1, <2>2
    <3> HIDE DEF s, t, e, f
    <3>2. s = t /\ e = f
      BY <3>1, AppendInjective
    <3> QED BY <3>2 DEF s, t, e, f
  <2>4. Part(i) = Part(j)
    BY <2>3 DEF Numbered
  <2> QED BY <1>1, <1>5, <2>3, <2>4, PartsDiffer
<1>6. CASE Part(i) = 0 /\ Part(j) # 0
  BY <1>6 DEF FullTitle, ReadsAsPart
<1>7. CASE Part(i) # 0 /\ Part(j) = 0
  BY <1>7 DEF FullTitle, ReadsAsPart
<1> QED BY <1>4, <1>5, <1>6, <1>7

LEMMA SplitIsWhole == SplitInv => SectionsCarryAll
<1> SUFFICES ASSUME SplitInv PROVE SectionsCarryAll
  OBVIOUS
<1>1. sections \in Seq(SectionType) /\ DOMAIN sections = 1 .. Len(sections)
  BY LenProperties DEF SplitInv, DocumentTypeOK
<1>2. ASSUME complete PROVE End(Len(sections)) = read
  <2>1. PICK e1, e2 \in Nat : InHand(e1, e2)
    BY DEF SplitInv
  <2>2. at = read /\ at \in Nat /\ NothingInHand /\ section.content = <<>>
    BY <1>2 DEF SplitInv, UnitsAhead, NothingInHand, DocumentTypeOK
  <2>3. End(Len(sections)) \in Nat
    <3>1. Len(sections) \in 0 .. Len(sections)
      BY <1>1, LenProperties
    <3> QED BY <1>1, <3>1, EndType DEF SplitInv
  <2>4. /\ End(Len(sections)) <= e1 /\ e1 <= e2 /\ e2 <= at
        /\ Span(End(Len(sections)), e1) = <<>> /\ Span(e1, e2) = <<>> /\ Span(e2, at) = <<>>
    BY <2>1, <2>2 DEF InHand, NothingInHand
  <2>5. End(Len(sections)) = e1
    BY <2>3, <2>4, SpanType
  <2>6. e1 = e2
    BY <2>4, SpanType
  <2>7. e2 = at
    BY <2>2, <2>4, SpanType
  <2> QED BY <2>2, <2>5, <2>6, <2>7
<1>3. NothingLost
  BY <1>1, <1>2 DEF SplitInv, Contiguous, NothingLost
<1>4. SectionsFit
  BY DEF SplitInv
<1> QED BY <1>1, <1>3, <1>4, TitlesDiffer DEF SectionsCarryAll

(* However a document is split, and whatever the tokenizer, its sections   *)
(* hold all of its text, in its order, under titles that differ; and what  *)
(* is counted before it is added stays within the limit.                   *)
THEOREM SplitsCarryAll == DocumentSpec => []SectionsCarryAll
<1>1. DocumentInit => SplitInv
  BY SplitInit
<1>2. SplitInv /\ [DocumentNext]_documentVars => SplitInv'
  BY SplitStep
<1>3. SplitInv => SectionsCarryAll
  BY SplitIsWhole
<1> QED BY <1>1, <1>2, <1>3, PTL DEF DocumentSpec

-----------------------------------------------------------------------------
(* All of them together *)

PartsInv ==
  /\ LimiterInv /\ TicketTypeOK /\ TuningTypeOK /\ BestIsHighest
  /\ SplitInv /\ BackupTypeOK /\ DumpsAsPromised /\ ApartInv

LEMMA PartsStart ==
  Init => /\ LimiterInit /\ TicketInit /\ TuningInit
          /\ DocumentInit /\ BackupInit /\ TenancyInit
  BY DEF Init, TuningStart

LEMMA PartsStep ==
  [Next]_vars => /\ [LimiterNext]_limiterVars /\ [TicketNext]_ticketVars
                 /\ [TuningNext]_tuningVars /\ [DocumentNext]_documentVars
                 /\ [BackupNext]_backupVars /\ [TenancyNext]_tenancyVars
<1>1. CASE UNCHANGED vars
  BY <1>1 DEF vars
<1>2. CASE Next
  BY <1>2 DEF Next
<1> QED BY <1>1, <1>2

LEMMA PartsStay == PartsInv /\ [Next]_vars => PartsInv'
<1> SUFFICES ASSUME PartsInv, [Next]_vars PROVE PartsInv'
  OBVIOUS
<1>1. LimiterInv'
  BY PartsStep, LimiterStep DEF PartsInv
<1>2. TicketTypeOK' /\ TuningTypeOK' /\ BestIsHighest'
  BY PartsStep, TicketTyped, TuningStep DEF PartsInv
<1>3. SplitInv'
  BY PartsStep, SplitStep DEF PartsInv
<1>4. BackupTypeOK' /\ DumpsAsPromised'
  BY PartsStep, BackupStep DEF PartsInv
<1>5. ApartInv'
  BY PartsStep, StepApart DEF PartsInv
<1> QED BY <1>1, <1>2, <1>3, <1>4, <1>5 DEF PartsInv

(* The state of every part has its type, whichever of them is running.     *)
THEOREM PartsAreTyped == Spec => []TypeOK
<1>1. Init => PartsInv
  BY PartsStart, LimiterStart, TicketStarts, TuningStarts, SplitInit, BackupStarts, InitApart DEF PartsInv
<1>2. PartsInv => TypeOK
  BY DEF PartsInv, LimiterInv, SplitInv, ApartInv, TypeOK
<1> QED BY <1>1, <1>2, PartsStay, PTL DEF Spec

(* What is proved of each part alone holds of it in the program that has   *)
(* all of them: every behaviour of Rules is one of each of its parts.      *)
THEOREM PartsTogether ==
  ASSUME MinConfidence > 50
  PROVE  Spec => /\ [](LimitIsExact /\ StakesAreFlagged /\ TunedAsPromised)
                 /\ [](SectionsCarryAll /\ DumpsAsPromised /\ TenantsApart)
                 /\ MoreIsNoLess
<1>1. Spec => /\ LimiterSpec /\ TicketSpec /\ TuningSpec
              /\ DocumentSpec /\ BackupSpec /\ TenancySpec
  BY PartsStart, PartsStep, PTL
     DEF Spec, LimiterSpec, TicketSpec, TuningSpec, DocumentSpec, BackupSpec, TenancySpec
<1>2. TicketSpec => []StakesAreFlagged
  BY StakesComeToAPerson
<1> QED BY <1>1, <1>2, LimitersAreExact, MoreIsNeverLess, TuningKeepsThePromise, SplitsCarryAll,
           BackupsAreKept, TenantsStayApart, PTL
=============================================================================
