------------------------------- MODULE Lemmas -------------------------------
(***************************************************************************)
(* Facts about numbers, sensitivity levels and the classifier that proofs  *)
(* about several components need.                                          *)
(***************************************************************************)
EXTENDS Classifier, WellFoundedInduction, TLAPS

----------------------------------------------------------------------------
(* Least and greatest elements                                             *)

\* A non-empty set with a natural number for each element has an element of
\* least number.
LEMMA LeastExists ==
  ASSUME NEW S, S # {}, NEW f, \A x \in S : f[x] \in Nat
  PROVE  \E x \in S : \A y \in S : f[x] <= f[y]
<1> DEFINE Less == {ss \in Nat \X Nat : ss[1] < ss[2]}
           T == {f[x] : x \in S}
<1>1. IsWellFoundedOn(Less, Nat)
  BY NatLessThanWellFounded DEF OpToRel
<1>2. T \subseteq Nat /\ T # {}
  OBVIOUS
<1>3. PICK m \in T : \A n \in T : ~ (<<n, m>> \in Less)
  <2> HIDE DEF T, Less
  <2> QED BY <1>1, <1>2, WFMin
<1>4. PICK x \in S : m = f[x]
  BY <1>3
<1>5. ASSUME NEW y \in S
      PROVE  f[x] <= f[y]
  <2>1. f[y] \in T /\ f[y] \in Nat /\ f[x] \in Nat
    OBVIOUS
  <2>2. ~ (f[y] < f[x])
    BY <2>1, <1>3, <1>4
  <2> QED BY <2>1, <2>2
<1> QED BY <1>5

\* A non-empty set of levels has a highest one.
LEMMA MaxOfLevels ==
    ASSUME NEW S \in SUBSET SensitivityLevel, S # {}
    PROVE  Max(S) \in S /\ \A x \in S : x <= Max(S)
<1>1. \E m \in S : \A x \in S : m >= x
  <2>1. \A x \in S : x = 0 \/ x = 1 \/ x = 2 \/ x = 3 \/ x = 4
    BY DEF SensitivityLevel, PUBLIC, SECRET
  <2>2. CASE 4 \in S
    BY <2>1, <2>2
  <2>3. CASE 4 \notin S /\ 3 \in S
    BY <2>1, <2>3
  <2>4. CASE 4 \notin S /\ 3 \notin S /\ 2 \in S
    BY <2>1, <2>4
  <2>5. CASE 4 \notin S /\ 3 \notin S /\ 2 \notin S /\ 1 \in S
    BY <2>1, <2>5
  <2>6. CASE 4 \notin S /\ 3 \notin S /\ 2 \notin S /\ 1 \notin S
    BY <2>1, <2>6
  <2> QED BY <2>2, <2>3, <2>4, <2>5, <2>6
<1>2. Max(S) \in S /\ \A x \in S : Max(S) >= x
  BY <1>1 DEF Max
<1> QED BY <1>2 DEF SensitivityLevel, PUBLIC, SECRET

LEMMA MaxOfTwo ==
    ASSUME NEW a \in Int, NEW b \in Int
    PROVE  Max({a, b}) = IF a >= b THEN a ELSE b
<1>1. \E m \in {a, b} : \A x \in {a, b} : m >= x
  OBVIOUS
<1>2. Max({a, b}) \in {a, b} /\ \A x \in {a, b} : Max({a, b}) >= x
  BY <1>1 DEF Max
<1> QED BY <1>2

LEMMA MinOfTwo ==
    ASSUME NEW a \in Int, NEW b \in Int
    PROVE  Min({a, b}) = IF a <= b THEN a ELSE b
<1>1. \E m \in {a, b} : \A x \in {a, b} : m <= x
  OBVIOUS
<1>2. Min({a, b}) \in {a, b} /\ \A x \in {a, b} : Min({a, b}) <= x
  BY <1>1 DEF Min
<1> QED BY <1>2

----------------------------------------------------------------------------
(* The classifier                                                          *)

\* The level of a text is at least that of every match, and never above
\* RESTRICTED.
LEMMA ClassifyFacts ==
    ASSUME NEW signals
    PROVE  /\ Classify(signals) \in INTERNAL..RESTRICTED
           /\ \A s \in Matches(signals) : LevelOf(s) <= Classify(signals)
<1> DEFINE levels == {INTERNAL} \cup {LevelOf(s) : s \in Matches(signals)}
<1>1. \A s : LevelOf(s) \in {CONFIDENTIAL, RESTRICTED}
  BY DEF LevelOf
<1>2. \A l \in levels : l \in INTERNAL..RESTRICTED
  BY <1>1 DEF INTERNAL, CONFIDENTIAL, RESTRICTED
<1>3. levels \in SUBSET SensitivityLevel /\ INTERNAL \in levels
  <2>1. INTERNAL..RESTRICTED \subseteq SensitivityLevel
    BY DEF SensitivityLevel, PUBLIC, INTERNAL, RESTRICTED, SECRET
  <2> QED BY <1>2, <2>1
<1>4. Classify(signals) = Max(levels)
  BY DEF Classify
<1>5. Max(levels) \in levels /\ \A x \in levels : x <= Max(levels)
  <2> HIDE DEF levels
  <2> QED BY <1>3, MaxOfLevels
<1> QED BY <1>2, <1>4, <1>5

\* A signal that is not behind a look-alike is matched, or another of its
\* kind is.
LEMMA SignalIsMatched ==
    ASSUME NEW signals \in SUBSET Signal, NEW s \in signals,
           s.kind # "vin_lookalike",
           s.kind = "vin" =>
               \A t \in signals : t.kind = "vin_lookalike" => s.from <= t.from
    PROVE  \E m \in Matches(signals) : m.kind = s.kind
<1>1. CASE s.kind # "vin"
  BY <1>1 DEF Matches, VinPattern
<1>2. CASE s.kind = "vin"
  <2> DEFINE vins == {t \in signals : t.kind = "vin"}
             from == [t \in vins |-> t.from]
  <2>1. vins # {} /\ \A t \in vins : from[t] \in Nat
    BY <1>2 DEF Signal
  <2>2. PICK m \in vins : \A t \in vins : from[m] <= from[t]
    <3> HIDE DEF vins, from
    <3> QED BY <2>1, LeastExists
  <2>3. m \in signals /\ m.kind = "vin" /\ m.from <= s.from
    BY <1>2, <2>2
  <2>4. ASSUME NEW t \in VinPattern(signals)
        PROVE  m.from <= t.from
    <3>1. m.from \in Nat /\ s.from \in Nat /\ t.from \in Nat
      BY <2>3 DEF VinPattern, Signal
    <3>2. CASE t.kind = "vin"
      BY <2>2, <3>2 DEF VinPattern
    <3>3. CASE t.kind = "vin_lookalike"
      BY <1>2, <2>3, <3>1, <3>3 DEF VinPattern
    <3> QED BY <3>2, <3>3 DEF VinPattern
  <2>5. m \in FirstVinMatch(signals)
    BY <2>3, <2>4 DEF FirstVinMatch, VinPattern
  <2> QED BY <1>2, <2>3, <2>5 DEF Matches
<1> QED BY <1>1, <1>2

\* So it counts for the level of the text.
LEMMA SignalCounts ==
    ASSUME NEW signals \in SUBSET Signal, NEW s \in signals,
           s.kind # "vin_lookalike",
           s.kind = "vin" =>
               \A t \in signals : t.kind = "vin_lookalike" => s.from <= t.from
    PROVE  LevelOf(s) <= Classify(signals)
<1>1. PICK m \in Matches(signals) : m.kind = s.kind
  BY SignalIsMatched
<1>2. LevelOf(m) = LevelOf(s)
  BY <1>1 DEF LevelOf
<1> QED BY <1>1, <1>2, ClassifyFacts

=============================================================================
