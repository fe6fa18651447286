--------------------------- MODULE RuleEngineProofs ---------------------------
(***************************************************************************)
(* What RuleEngine.tla guarantees for every rules file, every text and     *)
(* every set of categories, codes and words.                               *)
(***************************************************************************)
EXTENDS RuleEngine, FiniteSetTheorems, WellFoundedInduction, TLAPS

-----------------------------------------------------------------------------
(* Counting.                                                               *)

\* A non-empty, bounded set of naturals has a largest element.
LEMMA BoundedSetHasMaximum ==
    ASSUME NEW S \in SUBSET Nat, S # {}, NEW n \in Nat, \A s \in S : s <= n
    PROVE  \E m \in S : \A k \in S : k <= m
<1> DEFINE Above(m) == {k \in S : k > m}
           T == {Above(m) : m \in S}
<1>1. IsFiniteSet(S)
  BY FS_BoundedSetOfNaturals
<1>2. T \subseteq FiniteSubsetsOf(S)
  BY <1>1, FS_Subset DEF FiniteSubsetsOf
<1>3. T # {}
  OBVIOUS
<1>4. \E x \in T : \A y \in T : <<y, x>> \notin StrictSubsetOrdering(S)
  BY <1>2, <1>3, FS_StrictSubsetOrderingWellFounded, WFMin
<1>5. PICK m \in S :
         \A k \in S : <<Above(k), Above(m)>> \notin StrictSubsetOrdering(S)
  BY <1>4
<1>6. ASSUME NEW k \in S, k > m PROVE FALSE
  <2>1. Above(k) \subseteq Above(m)
    <3>1. \A j \in S : j > k => j > m
      BY <1>6
    <3> QED BY <3>1
  <2>2. k \in Above(m) /\ k \notin Above(k)
    BY <1>6
  <2> QED BY <2>1, <2>2, <1>5 DEF StrictSubsetOrdering
<1> QED BY <1>6

LEMMA KeywordRulesType ==
    ASSUME NEW doc \in RulesDocument, NEW c
    PROVE  KeywordRules(doc, c) \subseteq Words
<1>1. \A n \in DOMAIN doc.keywords : doc.keywords[n] \in KeywordEntry
  BY DEF RulesDocument
<1>2. \A n \in DOMAIN doc.keywords : doc.keywords[n].words \subseteq RawWords
  BY <1>1 DEF KeywordEntry
<1>3. SUFFICES ASSUME NEW n \in DOMAIN doc.keywords,
                      NEW raw \in doc.keywords[n].words,
                      normalize[raw] # Blank
               PROVE  normalize[raw] \in Words
  BY DEF KeywordRules
<1> QED BY <1>2, <1>3, RulesAssumption DEF RulesAssumption

LEMMA HitsType ==
    ASSUME NEW doc \in RulesDocument, NEW c, NEW text
    PROVE  Hits(doc, c, text) \in 0 .. Cardinality(Words)
<1>1. KeywordRules(doc, c) \cap text \in SUBSET Words
  BY KeywordRulesType
<1>2. IsFiniteSet(Words)
  BY RulesAssumption DEF RulesAssumption
<1> QED BY <1>1, <1>2, FS_Subset, FS_CardinalityType DEF Hits

LEMMA HitsNat ==
    ASSUME NEW doc \in RulesDocument, NEW c, NEW text
    PROVE  Hits(doc, c, text) \in Nat
BY HitsType, FS_CardinalityType, RulesAssumption DEF RulesAssumption

\* A category the file has no words for matches nothing.
LEMMA NoKeywordsNoHits ==
    ASSUME NEW doc, NEW c, NEW text, ~HasKeywords(doc, c)
    PROVE  Hits(doc, c, text) = 0
<1>1. KeywordRules(doc, c) = {}
  BY DEF HasKeywords, KeywordRules
<1> QED BY <1>1, FS_EmptySet DEF Hits

LEMMA MaxOtherHitsType ==
    ASSUME NEW doc \in RulesDocument, NEW c, NEW text
    PROVE  MaxOtherHits(doc, c, text) \in Nat
<1> DEFINE H == OtherHits(doc, c, text)
<1>1. Cardinality(Words) \in Nat
  BY FS_CardinalityType, RulesAssumption DEF RulesAssumption
<1>2. H \subseteq 0 .. Cardinality(Words)
  BY HitsType, <1>1 DEF OtherHits
<1>3. H # {}
  BY DEF OtherHits
<1>4. H \in SUBSET Nat /\ \A k \in H : k <= Cardinality(Words)
  BY <1>1, <1>2
<1> HIDE DEF H
<1>5. \E m \in H : \A k \in H : k <= m
  BY <1>1, <1>3, <1>4, BoundedSetHasMaximum
<1> QED BY <1>4, <1>5 DEF MaxOtherHits, H

-----------------------------------------------------------------------------
(* Arithmetic of the confidences.                                          *)

\* A record is not the empty sequence that stands for "none yet".
LEMMA CandidateIsSome == ASSUME NEW r \in Candidate PROVE r # <<>>
BY DEF Candidate

LEMMA ProductIsMonotone ==
    ASSUME NEW k \in Nat, NEW a \in Nat, NEW b \in Nat, a <= b
    PROVE  k * a \in Nat /\ k * a <= k * b
OBVIOUS

\* How doubles compare.
LEMMA LessIsStrict ==
    ASSUME NEW a, NEW b, Less(a, b)
    PROVE  ~Less(b, a) /\ a # b
BY DoublesAssumption DEF Less

\* What validateConfidence leaves: a number in its range, or none at all.
Checked(config) ==
    /\ config \in ConfidenceConfig
    /\ config.max = NaN \/ config.max \in 0 .. Unit
    /\ config.max # NaN => config.mccMin = NaN \/ config.mccMin \in 0 .. config.max
    /\ config.keywordBase \in Nat \cup {NaN, PosInf}
    /\ config.boostPerMatch \in Nat \cup {NaN, PosInf}

\* What it leaves of a file whose numbers are finite.
Sound(config) ==
    /\ config.max \in Nat /\ config.max <= Unit
    /\ config.mccBaseConfirmed \in Nat /\ config.mccBaseUnconfirmed \in Nat
    /\ config.mccBaseUnconfirmed <= config.mccBaseConfirmed
    /\ config.mccMin \in Nat /\ config.mccMin <= config.max
    /\ config.keywordBase \in Nat
    /\ config.boostPerMatch \in Nat
    /\ config.contradictionPenalty \in Nat

LEMMA NotOutsideRange ==
    ASSUME NEW x \in Double, NEW m \in Nat, NotOutside(x, m)
    PROVE  x = NaN \/ x \in 0 .. m
BY DoublesAssumption DEF NotOutside, Less, Double

LEMMA NotNegative ==
    ASSUME NEW x \in Double, ~Less(x, 0)
    PROVE  x \in Nat \cup {NaN, PosInf}
BY DoublesAssumption DEF Less, Double

LEMMA LoadedIsChecked ==
    ASSUME NEW doc \in RulesDocument, Loads(doc)
    PROVE  Checked(doc.confidence)
<1> DEFINE c == doc.confidence
<1>1. c \in ConfidenceConfig /\ ValidConfidence(c) /\ Unit \in Nat
  BY RulesAssumption DEF RulesDocument, Loads
<1>2. /\ c.max \in Double /\ c.mccMin \in Double /\ c.keywordBase \in Double
      /\ c.boostPerMatch \in Double
  BY <1>1 DEF ConfidenceConfig
<1>3. c.max = NaN \/ c.max \in 0 .. Unit
  BY <1>1, <1>2, NotOutsideRange DEF ValidConfidence
<1>4. c.max # NaN => c.mccMin = NaN \/ c.mccMin \in 0 .. c.max
  BY <1>1, <1>2, <1>3, NotOutsideRange DEF ValidConfidence
<1>5. c.keywordBase \in Nat \cup {NaN, PosInf} /\ c.boostPerMatch \in Nat \cup {NaN, PosInf}
  BY <1>1, <1>2, NotNegative DEF ValidConfidence, NotOutside
<1> QED BY <1>1, <1>3, <1>4, <1>5 DEF Checked

LEMMA FiniteIsSound ==
    ASSUME NEW doc \in RulesDocument, Loads(doc), Finite(doc.confidence)
    PROVE  Sound(doc.confidence)
<1> DEFINE c == doc.confidence
<1>1. ValidConfidence(c) /\ Unit \in Nat
  BY RulesAssumption DEF Loads
<1>2. /\ c.max \in Int /\ c.mccMin \in Int /\ c.keywordBase \in Int
      /\ c.mccBaseConfirmed \in Int /\ c.mccBaseUnconfirmed \in Int
      /\ c.boostPerMatch \in Int /\ c.contradictionPenalty \in Int
  BY DEF Finite
<1>3. \A a, b \in Int : Less(a, b) <=> a < b
  BY DoublesAssumption DEF Less
<1> HIDE DEF c
<1>4. /\ ~(c.max < 0) /\ ~(Unit < c.max)
      /\ ~(c.mccBaseConfirmed < 0) /\ ~(c.mccBaseUnconfirmed < 0)
      /\ ~(c.mccBaseConfirmed < c.mccBaseUnconfirmed)
      /\ ~(c.mccMin < 0) /\ ~(c.max < c.mccMin)
      /\ ~(c.keywordBase < 0)
      /\ ~(c.boostPerMatch < 0) /\ ~(c.contradictionPenalty < 0)
  BY <1>1, <1>2, <1>3 DEF ValidConfidence, NotOutside
<1> QED BY <1>1, <1>2, <1>4 DEF Sound, c

\* The cap keeps a value that is not negative in range, the floor any value.
InRange(config, v) == \/ v \in 0 .. Unit /\ ~Less(config.max, v)
                      \/ v = NaN

LEMMA CapRange ==
    ASSUME NEW config, Checked(config), NEW v \in Nat \cup {NaN, PosInf}
    PROVE  InRange(config, Cap(config, v))
BY DoublesAssumption, RulesAssumption DEF Checked, InRange, Cap, Smaller, Less

LEMMA CapMccRange ==
    ASSUME NEW config, Checked(config), NEW v \in Double
    PROVE  InRange(config, CapMcc(config, v))
<1> DEFINE u == Cap(config, v)
<1>1. CASE config.max = NaN
  <2>1. u = NaN
    BY <1>1 DEF Cap, Smaller
  <2> QED BY <2>1 DEF CapMcc, Larger, InRange
<1>2. CASE config.max \in 0 .. Unit /\ config.mccMin = NaN
  BY <1>2 DEF CapMcc, Larger, InRange
<1>3. CASE config.max \in 0 .. Unit /\ config.mccMin \in 0 .. config.max
  <2>1. u = NaN \/ u = NegInf \/ (u \in Int /\ u <= config.max)
    BY <1>3, DoublesAssumption, RulesAssumption DEF Cap, Smaller, Less, Double
  <2> HIDE DEF u
  <2>2. Larger(config.mccMin, u) = NaN \/ Larger(config.mccMin, u) \in 0 .. config.max
    BY <1>3, <2>1, DoublesAssumption, RulesAssumption DEF Larger, Less
  <2>3. CapMcc(config, v) = Larger(config.mccMin, u)
    BY DEF CapMcc, u
  <2> HIDE DEF u
  <2> QED BY <1>3, <2>2, <2>3, DoublesAssumption, RulesAssumption DEF InRange, Less
<1> QED BY <1>1, <1>2, <1>3, DoublesAssumption, RulesAssumption DEF Checked

\* Sums, products by a count and opposites of doubles are doubles.
LEMMA DoubleArithmetic ==
    /\ \A a, b \in Double : Plus(a, b) \in Double
    /\ \A a \in Double, n \in Nat : Times(a, n) \in Double
    /\ \A a \in Double : Opposite(a) \in Double
<1>1. \A a, b \in Double : Plus(a, b) \in Double
  BY DEF Plus, Double
<1>2. \A a \in Double, n \in Nat : Times(a, n) \in Double
  BY DEF Times, Double
<1>3. \A a \in Double : Opposite(a) \in Double
  BY DEF Opposite, Double
<1> QED BY <1>1, <1>2, <1>3

\* A confidence is in range or NaN, whatever the matches.
LEMMA MccConfidenceRange ==
    ASSUME NEW config, Checked(config), NEW same \in Nat, NEW other \in Nat
    PROVE  InRange(config, MccConfidence(config, same, other))
<1> DEFINE Base == IF same > 0 THEN config.mccBaseConfirmed ELSE config.mccBaseUnconfirmed
           B == Times(config.boostPerMatch, same)
           P == Opposite(Times(config.contradictionPenalty, other))
<1>1. Base \in Double /\ config.boostPerMatch \in Double
      /\ config.contradictionPenalty \in Double
  BY DEF Checked, ConfidenceConfig
<1>2. B \in Double /\ P \in Double
  BY <1>1, DoubleArithmetic
<1>3. MccConfidence(config, same, other) = CapMcc(config, Plus(Plus(Base, B), P))
  BY DEF MccConfidence
<1> HIDE DEF Base, B, P
<1>4. Plus(Plus(Base, B), P) \in Double
  BY <1>1, <1>2, DoubleArithmetic
<1> QED BY <1>3, <1>4, CapMccRange

\* What a candidate's confidence is before the cap.
Uncapped(config, hits) == Plus(config.keywordBase, Times(config.boostPerMatch, hits))

LEMMA UncappedRange ==
    ASSUME NEW config, Checked(config), NEW hits \in Nat
    PROVE  Uncapped(config, hits) \in Nat \cup {NaN, PosInf}
<1> DEFINE B == Times(config.boostPerMatch, hits)
<1>1. B \in Nat \cup {NaN, PosInf}
  <2>1. CASE config.boostPerMatch \in Nat
    BY <2>1, ProductIsMonotone DEF Times
  <2>2. CASE config.boostPerMatch \in {NaN, PosInf}
    BY <2>2, DoublesAssumption DEF Times
  <2> QED BY <2>1, <2>2 DEF Checked
<1>2. config.keywordBase \in Nat \cup {NaN, PosInf}
  BY DEF Checked
<1>3. Uncapped(config, hits) = Plus(config.keywordBase, B)
  BY DEF Uncapped
<1> HIDE DEF B
<1> QED BY <1>1, <1>2, <1>3, DoublesAssumption DEF Plus

LEMMA KeywordConfidenceRange ==
    ASSUME NEW config, Checked(config), NEW hits \in Nat
    PROVE  InRange(config, KeywordConfidence(config, hits))
BY UncappedRange, CapRange DEF KeywordConfidence, Uncapped

\* With finite numbers in the file a confidence is one.
LEMMA MccConfidenceSound ==
    ASSUME NEW config, Sound(config), NEW same \in Nat, NEW other \in Nat
    PROVE  LET base == IF same > 0 THEN config.mccBaseConfirmed
                                   ELSE config.mccBaseUnconfirmed
               v == base + config.boostPerMatch * same
                         - config.contradictionPenalty * other
               u == IF v <= config.max THEN v ELSE config.max
           IN /\ v \in Int
              /\ MccConfidence(config, same, other)
                   = IF u <= config.mccMin THEN config.mccMin ELSE u
<1> DEFINE base == IF same > 0 THEN config.mccBaseConfirmed
                               ELSE config.mccBaseUnconfirmed
           B == config.boostPerMatch * same
           P == config.contradictionPenalty * other
           v == base + B - P
           u == IF v <= config.max THEN v ELSE config.max
<1>1. /\ base \in Int /\ B \in Int /\ P \in Int
      /\ config.max \in Int /\ config.mccMin \in Int
  BY ProductIsMonotone DEF Sound
<1>2. Times(config.boostPerMatch, same) = B /\ Times(config.contradictionPenalty, other) = P
  BY DEF Times, Sound
<1>3. MccConfidence(config, same, other) = CapMcc(config, Plus(Plus(base, B), Opposite(P)))
  BY <1>2 DEF MccConfidence
<1> HIDE DEF base, B, P
<1>4. Plus(Plus(base, B), Opposite(P)) = v /\ v \in Int
  <2>1. Plus(base, B) = base + B /\ Opposite(P) = -P /\ base + B \in Int /\ -P \in Int
    BY <1>1 DEF Plus, Opposite
  <2> QED BY <1>1, <2>1 DEF Plus
<1> HIDE DEF v
<1>5. \A a, b \in Int : /\ Smaller(a, b) = (IF a <= b THEN a ELSE b)
                        /\ Larger(a, b) = (IF b <= a THEN a ELSE b)
  BY DoublesAssumption DEF Smaller, Larger, Less
<1>6. Cap(config, v) = u /\ u \in Int
  BY <1>1, <1>4, <1>5 DEF Cap
<1> HIDE DEF u
<1>7. CapMcc(config, v) = IF u <= config.mccMin THEN config.mccMin ELSE u
  BY <1>1, <1>5, <1>6 DEF CapMcc
<1> QED BY <1>3, <1>4, <1>7 DEF u, v, base, B, P

LEMMA KeywordConfidenceSound ==
    ASSUME NEW config, Sound(config), NEW hits \in Nat
    PROVE  KeywordConfidence(config, hits) \in Int
<1> DEFINE B == config.boostPerMatch * hits
<1>1. B \in Int /\ config.max \in Int /\ config.keywordBase \in Int
  BY ProductIsMonotone DEF Sound
<1>2. Times(config.boostPerMatch, hits) = B
  BY DEF Times, Sound
<1> HIDE DEF B
<1>3. Plus(config.keywordBase, B) \in Int
  BY <1>1 DEF Plus
<1> QED BY <1>1, <1>2, <1>3, DoublesAssumption DEF KeywordConfidence, Cap, Smaller

\* A confidence grows with the matches and falls with the contradictions.
LEMMA MccConfidenceMonotone ==
    ASSUME NEW config, Sound(config),
           NEW s1 \in Nat, NEW s2 \in Nat, s1 <= s2,
           NEW o1 \in Nat, NEW o2 \in Nat, o2 <= o1
    PROVE  /\ MccConfidence(config, s1, o1) \in Int /\ MccConfidence(config, s2, o2) \in Int
           /\ MccConfidence(config, s1, o1) <= MccConfidence(config, s2, o2)
<1> DEFINE Base(s) == IF s > 0 THEN config.mccBaseConfirmed
                               ELSE config.mccBaseUnconfirmed
           Value(s, o) == Base(s) + config.boostPerMatch * s
                              - config.contradictionPenalty * o
           Under(v) == IF v <= config.max THEN v ELSE config.max
           Above(v) == IF Under(v) <= config.mccMin THEN config.mccMin ELSE Under(v)
<1>1. Base(s1) \in Nat /\ Base(s2) \in Nat /\ Base(s1) <= Base(s2)
  BY DEF Sound
<1>2. /\ config.boostPerMatch * s1 \in Nat /\ config.boostPerMatch * s2 \in Nat
      /\ config.boostPerMatch * s1 <= config.boostPerMatch * s2
  BY ProductIsMonotone DEF Sound
<1>3. /\ config.contradictionPenalty * o1 \in Nat
      /\ config.contradictionPenalty * o2 \in Nat
      /\ config.contradictionPenalty * o2 <= config.contradictionPenalty * o1
  BY ProductIsMonotone DEF Sound
<1>4. Value(s1, o1) \in Int /\ Value(s2, o2) \in Int /\ Value(s1, o1) <= Value(s2, o2)
  <2> HIDE DEF Base
  <2> QED BY <1>1, <1>2, <1>3
<1>5. /\ MccConfidence(config, s1, o1) = Above(Value(s1, o1))
      /\ MccConfidence(config, s2, o2) = Above(Value(s2, o2))
  BY MccConfidenceSound
<1> HIDE DEF Value
<1> QED BY <1>4, <1>5 DEF Sound

\* More matches, no less confidence: with NaN or Infinity in the file too,
\* all candidates are then alike.
LEMMA KeywordConfidenceMonotone ==
    ASSUME NEW config, Checked(config),
           NEW h1 \in Nat, NEW h2 \in Nat, 0 < h1, h1 <= h2
    PROVE  \/ KeywordConfidence(config, h1) = KeywordConfidence(config, h2)
           \/ Less(KeywordConfidence(config, h1), KeywordConfidence(config, h2))
<1> DEFINE u1 == Uncapped(config, h1)
           u2 == Uncapped(config, h2)
<1>1. u1 = u2 \/ (u1 \in Int /\ u2 \in Int /\ u1 <= u2)
  <2>1. CASE config.boostPerMatch \in Nat /\ config.keywordBase \in Nat
    <3> DEFINE b1 == config.boostPerMatch * h1
               b2 == config.boostPerMatch * h2
    <3>1. b1 \in Nat /\ b2 \in Nat /\ b1 <= b2
      BY <2>1, ProductIsMonotone
    <3>2. Times(config.boostPerMatch, h1) = b1 /\ Times(config.boostPerMatch, h2) = b2
      BY <2>1 DEF Times
    <3> HIDE DEF b1, b2
    <3> QED BY <2>1, <3>1, <3>2 DEF Uncapped, Plus
  <2>2. CASE config.boostPerMatch \in Nat /\ config.keywordBase \in {NaN, PosInf}
    <3>1. Times(config.boostPerMatch, h1) \in Int /\ Times(config.boostPerMatch, h2) \in Int
      BY <2>2, ProductIsMonotone DEF Times
    <3>2. \A b \in Int : Plus(config.keywordBase, b) = config.keywordBase
      BY <2>2, DoublesAssumption DEF Plus
    <3> QED BY <3>1, <3>2 DEF Uncapped
  <2>3. CASE config.boostPerMatch \in {NaN, PosInf}
    <3>1. Times(config.boostPerMatch, h1) = Times(config.boostPerMatch, h2)
      BY <2>3, DoublesAssumption DEF Times
    <3> QED BY <3>1 DEF Uncapped
  <2> QED BY <2>1, <2>2, <2>3 DEF Checked
<1>2. /\ KeywordConfidence(config, h1) = Smaller(u1, config.max)
      /\ KeywordConfidence(config, h2) = Smaller(u2, config.max)
  BY DEF KeywordConfidence, Cap, Uncapped
<1> HIDE DEF u1, u2
<1>3. CASE u1 \in Int /\ u2 \in Int /\ u1 <= u2 /\ config.max \in Int
  BY <1>2, <1>3, DoublesAssumption DEF Smaller, Less
<1>4. CASE config.max = NaN
  BY <1>2, <1>4 DEF Smaller
<1>5. config.max \in Int \/ config.max = NaN
  BY RulesAssumption DEF Checked
<1> QED BY <1>1, <1>2, <1>3, <1>4, <1>5

\* A range is one of doubles; NaN comes of a file with a number that is none.
LEMMA InRangeIsDouble ==
    ASSUME NEW config, NEW v, InRange(config, v)
    PROVE  v \in Double
BY RulesAssumption DEF InRange, Double

\* A candidate is one, with its confidence in range.
LEMMA CandidateForType ==
    ASSUME NEW doc \in RulesDocument, Loads(doc), NEW c \in Categories, NEW text
    PROVE  /\ CandidateFor(doc, c, text) \in Candidate
           /\ InRange(doc.confidence, CandidateFor(doc, c, text).confidence)
           /\ Finite(doc.confidence) => CandidateFor(doc, c, text).confidence \in Int
<1> DEFINE hits == Hits(doc, c, text)
           v == KeywordConfidence(doc.confidence, hits)
<1>1. hits \in Nat
  BY HitsNat
<1>2. InRange(doc.confidence, v)
  BY <1>1, LoadedIsChecked, KeywordConfidenceRange
<1>3. Finite(doc.confidence) => v \in Int
  BY <1>1, FiniteIsSound, KeywordConfidenceSound
<1>4. v \in Double
  BY <1>2, InRangeIsDouble
<1>5. CandidateFor(doc, c, text) = [category |-> c, hits |-> hits, confidence |-> v]
  BY DEF CandidateFor
<1> HIDE DEF hits, v
<1> QED BY <1>1, <1>2, <1>3, <1>4, <1>5 DEF Candidate

LEMMA MccDecisionType ==
    ASSUME NEW doc \in RulesDocument, Loads(doc), NEW c \in Categories, NEW text
    PROVE  /\ MccDecision(doc, c, text) \in Decision
           /\ InRange(doc.confidence, MccDecision(doc, c, text).confidence)
           /\ Finite(doc.confidence) => MccDecision(doc, c, text).confidence \in Int
<1> DEFINE same == Hits(doc, c, text)
           other == MaxOtherHits(doc, c, text)
           v == MccConfidence(doc.confidence, same, other)
<1>1. same \in Nat /\ other \in Nat
  BY HitsNat, MaxOtherHitsType
<1>2. InRange(doc.confidence, v)
  BY <1>1, LoadedIsChecked, MccConfidenceRange
<1>3. Finite(doc.confidence) => v \in Int
  BY <1>1, FiniteIsSound, MccConfidenceMonotone
<1>4. v \in Double
  BY <1>2, InRangeIsDouble
<1>5. MccDecision(doc, c, text) = [category |-> c, confidence |-> v]
  BY DEF MccDecision
<1> HIDE DEF same, other, v
<1> QED BY <1>2, <1>3, <1>4, <1>5 DEF Decision

-----------------------------------------------------------------------------
(* The inductive invariant.                                                *)

NoMccRule(doc, code) == \A c \in Categories : ~MccRule(doc, code, c)

\* The categories the loop has passed before position n.
Passed(doc, n) == {doc.keywords[k].category : k \in 1 .. n - 1}

\* b is the leader of the categories in S, none when none of them matches.
IsLeader(doc, b, S, text) ==
    /\ b = <<>> => \A c \in S : Hits(doc, c, text) = 0
    /\ b # <<>> =>
          /\ b.category \in S
          /\ b = CandidateFor(doc, b.category, text)
          /\ b.hits > 0
          /\ \A d \in S \ {b.category} : Leads(doc, b.category, d, text)

\* What the loop maintains.
LoopInv ==
    phase = "scanning" =>
        /\ input \in Input
        /\ NoMccRule(document, input.code)
        /\ next \in 1 .. Len(document.keywords) + 1
        /\ IsLeader(document, best, Passed(document, next), input.text)

\* Where the answers come from.
AnswerInv ==
    /\ phase \in {"up", "scanning"} => Loads(document)
    /\ phase \in {"starting", "refused"} => input = <<>> /\ decision = <<>>
    /\ (/\ phase = "up" /\ input # <<>> /\ decision # <<>>
        /\ MccRule(document, input.code, decision.category))
       => decision = MccDecision(document, decision.category, input.text)

IInv == /\ TypeOK /\ ConfidenceInRange /\ LoopInv /\ AnswerInv
        /\ KeywordDecisionIsBest

-----------------------------------------------------------------------------
LEMMA InitIInv == Init => IInv
BY EngineAssumption
   DEF EngineAssumption, Init, IInv, TypeOK, ConfidenceInRange, LoopInv,
       AnswerInv, KeywordDecisionIsBest

\* The categories of a file that loads.
LEMMA CategoryType ==
    ASSUME NEW doc \in RulesDocument, Loads(doc), NEW n \in 1 .. Len(doc.keywords)
    PROVE  doc.keywords[n].category \in Categories
BY DEF RulesDocument, Loads, ValidKeywords

\* One turn of the loop passes the leadership on.
LEMMA LeaderPasses ==
    ASSUME NEW doc \in RulesDocument, Loads(doc),
           NEW n \in 1 .. Len(doc.keywords),
           NEW text,
           NEW b \in Candidate \cup {<<>>},
           IsLeader(doc, b, Passed(doc, n), text)
    PROVE  LET c == CandidateFor(doc, doc.keywords[n].category, text)
               beats == \/ b = <<>>
                        \/ Less(b.confidence, c.confidence)
                        \/ c.confidence = b.confidence /\ c.hits > b.hits
           IN IsLeader(doc,
                       IF FirstOccurrence(doc, n) /\ c.hits > 0 /\ beats
                          THEN c ELSE b,
                       Passed(doc, n + 1), text)
<1> DEFINE d == doc.keywords[n].category
           c == CandidateFor(doc, d, text)
           S == Passed(doc, n)
           beats == \/ b = <<>>
                    \/ Less(b.confidence, c.confidence)
                    \/ c.confidence = b.confidence /\ c.hits > b.hits
<1> SUFFICES IsLeader(doc, IF FirstOccurrence(doc, n) /\ c.hits > 0 /\ beats
                              THEN c ELSE b, Passed(doc, n + 1), text)
  OBVIOUS
<1>1. Passed(doc, n + 1) = S \cup {d}
  BY DEF Passed
<1>2. d \in Categories /\ c \in Candidate /\ c # <<>>
  BY CategoryType, CandidateForType, CandidateIsSome
<1>3. c.category = d /\ c.hits = Hits(doc, d, text) /\ c = CandidateFor(doc, c.category, text)
  BY DEF CandidateFor
<1>4. \A k : Hits(doc, k, text) \in Nat
  BY HitsNat
<1>5. FirstOccurrence(doc, n) <=> d \notin S
  BY DEF FirstOccurrence, Passed
<1>6. b # <<>> => /\ b.category \in S /\ b.hits > 0
                  /\ b = CandidateFor(doc, b.category, text)
                  /\ b.hits = Hits(doc, b.category, text)
                  /\ \A k \in S \ {b.category} : Leads(doc, b.category, k, text)
  BY DEF IsLeader, CandidateFor
<1>7. b = <<>> => \A k \in S : Hits(doc, k, text) = 0
  BY DEF IsLeader
<1> HIDE DEF d, c, S
<1>8. CASE ~FirstOccurrence(doc, n)
  <2>1. S \cup {d} = Passed(doc, n)
    BY <1>5, <1>8 DEF S
  <2> QED BY <2>1, <1>1, <1>8
<1>9. CASE FirstOccurrence(doc, n) /\ ~(c.hits > 0)
  <2>1. Hits(doc, d, text) = 0
    BY <1>3, <1>4, <1>9
  <2>2. b # <<>> => Leads(doc, b.category, d, text)
    BY <2>1, <1>6 DEF Leads
  <2> QED BY <2>1, <2>2, <1>1, <1>5, <1>6, <1>7, <1>9 DEF IsLeader
<1>10. CASE FirstOccurrence(doc, n) /\ c.hits > 0 /\ ~beats
  <2>1. b # <<>> /\ b \in Candidate
    BY <1>10
  <2>2. Hits(doc, d, text) <= b.hits
    <3>1. SUFFICES ASSUME b.hits < Hits(doc, d, text) PROVE FALSE
      BY <1>4, <1>6, <2>1
    <3>2. b.confidence = c.confidence \/ Less(b.confidence, c.confidence)
      BY <1>3, <1>4, <1>6, <2>1, <3>1, LoadedIsChecked, KeywordConfidenceMonotone
         DEF CandidateFor
    <3> QED BY <1>2, <1>3, <1>10, <2>1, <3>1, <3>2 DEF Candidate
  <2>3. Precedes(doc, b.category, d)
    BY <1>5, <1>6, <1>10, <2>1 DEF Precedes, Passed, S
  <2>4. Leads(doc, b.category, d, text)
    BY <1>4, <1>6, <2>1, <2>2, <2>3 DEF Leads
  <2>5. IsLeader(doc, b, S \cup {d}, text)
    BY <1>6, <2>1, <2>4 DEF IsLeader
  <2> QED BY <2>5, <1>1, <1>10
<1>11. CASE FirstOccurrence(doc, n) /\ c.hits > 0 /\ beats
  <2>1. CASE b = <<>>
    <3>1. \A k \in S : Hits(doc, k, text) < Hits(doc, d, text)
      BY <1>3, <1>4, <1>7, <1>11, <2>1
    <3>2. IsLeader(doc, c, S \cup {d}, text)
      BY <3>1, <1>2, <1>3, <1>11 DEF IsLeader, Leads
    <3> QED BY <3>2, <1>1, <1>11
  <2>2. CASE b # <<>>
    <3>1. b.hits < Hits(doc, d, text)
      <4>1. SUFFICES ASSUME Hits(doc, d, text) <= b.hits PROVE FALSE
        BY <1>4, <1>6, <2>2
      <4>2. c.confidence = b.confidence \/ Less(c.confidence, b.confidence)
        BY <1>3, <1>4, <1>6, <1>11, <2>2, <4>1, LoadedIsChecked, KeywordConfidenceMonotone
           DEF CandidateFor
      <4> QED BY <1>2, <1>3, <1>11, <2>2, <4>1, <4>2, LessIsStrict DEF Candidate
    <3>2. \A k \in S : Hits(doc, k, text) < Hits(doc, d, text)
      BY <1>4, <1>6, <2>2, <3>1 DEF Leads
    <3>3. IsLeader(doc, c, S \cup {d}, text)
      BY <3>2, <1>2, <1>3, <1>11 DEF IsLeader, Leads
    <3> QED BY <3>3, <1>1, <1>11
  <2> QED BY <2>1, <2>2
<1> QED BY <1>8, <1>9, <1>10, <1>11

\* Every step keeps the invariant.
LEMMA StepIInv == IInv /\ [Next]_vars => IInv'
<1> SUFFICES ASSUME IInv, [Next]_vars PROVE IInv'
  OBVIOUS
<1>0. document' = document /\ document \in RulesDocument
  BY EngineAssumption
     DEF EngineAssumption, IInv, TypeOK, Next, vars, Load, Refuse, Scan, Finish,
         ClassifyByMcc, BeginScan
<1>1. ASSUME Load PROVE IInv'
  BY <1>0, <1>1
     DEF Load, IInv, TypeOK, ConfidenceInRange, LoopInv, AnswerInv,
         KeywordDecisionIsBest
<1>2. ASSUME Refuse PROVE IInv'
  BY <1>0, <1>2
     DEF Refuse, IInv, TypeOK, ConfidenceInRange, LoopInv, AnswerInv,
         KeywordDecisionIsBest
<1>3. ASSUME Scan PROVE IInv'
  <2> DEFINE c == CandidateFor(document, document.keywords[next].category, input.text)
  <2>1. /\ Loads(document) /\ phase = "scanning" /\ phase' = "scanning"
        /\ input' = input /\ decision' = decision /\ next' = next + 1
        /\ next \in 1 .. Len(document.keywords)
        /\ best \in Candidate \cup {<<>>}
    BY <1>3 DEF Scan, IInv, TypeOK, LoopInv, AnswerInv
  <2>2. c \in Candidate
    BY <1>0, <2>1, CategoryType, CandidateForType
  <2>3. best' \in Candidate \cup {<<>>}
    BY <1>3, <2>1, <2>2 DEF Scan
  <2>4. TypeOK'
    BY <1>0, <1>3, <2>1, <2>3 DEF IInv, TypeOK, Scan
  <2>5. IsLeader(document, best', Passed(document, next + 1), input.text)
    <3>1. IsLeader(document, best, Passed(document, next), input.text)
      BY <2>1 DEF IInv, LoopInv
    <3> QED BY <3>1, <1>0, <1>3, <2>1, LeaderPasses DEF Scan, Beats
  <2>6. LoopInv'
    BY <1>0, <2>1, <2>5 DEF IInv, LoopInv
  <2>7. ConfidenceInRange' /\ AnswerInv' /\ KeywordDecisionIsBest'
    BY <1>0, <2>1 DEF IInv, ConfidenceInRange, AnswerInv, KeywordDecisionIsBest
  <2> QED BY <2>4, <2>6, <2>7 DEF IInv
<1>4. ASSUME Finish PROVE IInv'
  <2>1. /\ Loads(document) /\ phase = "scanning" /\ phase' = "up"
        /\ input' = input /\ next' = next /\ best' = best
        /\ input \in Input /\ NoMccRule(document, input.code)
        /\ next = Len(document.keywords) + 1
        /\ best \in Candidate \cup {<<>>}
        /\ IsLeader(document, best, Passed(document, next), input.text)
        /\ decision' = IF best = <<>> THEN [category |-> Undefined, confidence |-> 0]
                       ELSE [category |-> best.category,
                             confidence |-> best.confidence]
    BY <1>0, <1>4 DEF Finish, IInv, TypeOK, LoopInv, AnswerInv, RulesDocument
  <2>2. \A c : c \notin Passed(document, next) => Hits(document, c, input.text) = 0
    <3>1. ASSUME NEW c, HasKeywords(document, c) PROVE c \in Passed(document, next)
      BY <1>0, <2>1, <3>1 DEF HasKeywords, Passed, RulesDocument
    <3> QED BY <3>1, NoKeywordsNoHits
  <2>3. /\ decision' \in Decision
        /\ InRange(document.confidence, decision'.confidence)
        /\ Finite(document.confidence) => decision'.confidence \in Int
    <3>1. CASE best = <<>>
      <4>1. decision' = [category |-> Undefined, confidence |-> 0]
        BY <2>1, <3>1
      <4>2. ~Less(document.confidence.max, 0)
        BY <2>1 DEF Loads, ValidConfidence, NotOutside
      <4> QED BY <4>1, <4>2, EngineAssumption, RulesAssumption
              DEF Decision, Double, InRange
    <3>2. CASE best # <<>>
      <4>1. /\ best.category \in Categories /\ best.confidence \in Double
            /\ best = CandidateFor(document, best.category, input.text)
            /\ decision' = [category |-> best.category, confidence |-> best.confidence]
        BY <2>1, <3>2 DEF Candidate, IsLeader
      <4>2. /\ InRange(document.confidence, best.confidence)
            /\ Finite(document.confidence) => best.confidence \in Int
        BY <1>0, <2>1, <4>1, CandidateForType
      <4> QED BY <4>1, <4>2 DEF Decision
    <3> QED BY <3>1, <3>2
  <2>4. TypeOK'
    BY <1>0, <2>1, <2>3 DEF IInv, TypeOK
  <2>5. ConfidenceInRange'
    BY <1>0, <2>3, DoublesAssumption DEF ConfidenceInRange, InRange
  <2>6. AnswerInv'
    BY <1>0, <2>1, <2>3 DEF AnswerInv, NoMccRule, Decision
  <2>7. KeywordDecisionIsBest'
    <3>1. CASE best = <<>>
      <4>1. \A c : Hits(document, c, input.text) = 0
        BY <2>1, <2>2, <3>1 DEF IsLeader
      <4>2. decision'.category = Undefined /\ decision'.confidence = 0
        BY <2>1, <3>1
      <4> QED BY <1>0, <2>1, <4>1, <4>2 DEF KeywordDecisionIsBest
    <3>2. CASE best # <<>>
      <4> DEFINE c == best.category
      <4>1. /\ decision'.category = c /\ decision'.confidence = best.confidence
            /\ best.hits = Hits(document, c, input.text) /\ best.hits > 0
            /\ best.confidence = KeywordConfidence(document.confidence, best.hits)
        BY <2>1, <3>2 DEF IsLeader, CandidateFor
      <4>2. \A d \in Categories \ {c} : Leads(document, c, d, input.text)
        <5>1. \A d \in Passed(document, next) \ {c} : Leads(document, c, d, input.text)
          BY <2>1, <3>2 DEF IsLeader
        <5>2. \A d : d \notin Passed(document, next) => Leads(document, c, d, input.text)
          BY <2>2, <4>1 DEF Leads
        <5> QED BY <5>1, <5>2
      <4> QED BY <1>0, <2>1, <4>1, <4>2 DEF KeywordDecisionIsBest
    <3> QED BY <3>1, <3>2
  <2> QED BY <2>1, <2>4, <2>5, <2>6, <2>7 DEF IInv, LoopInv
<1>5. ASSUME NEW code \in Codes \cup {Null}, NEW text \in Texts,
             ClassifyByMcc(code, text)
      PROVE  IInv'
  <2>1. /\ Loads(document) /\ phase = "up" /\ phase' = "up"
        /\ input' = [code |-> code, text |-> text] /\ input' \in Input
        /\ next' = next /\ best' = best
    BY <1>5 DEF ClassifyByMcc, IInv, AnswerInv, Input
  <2>2. PICK c \in Categories : /\ MccRule(document, code, c)
                                /\ decision' = MccDecision(document, c, text)
    BY <1>5 DEF ClassifyByMcc
  <2>3. /\ decision' \in Decision
        /\ InRange(document.confidence, decision'.confidence)
        /\ Finite(document.confidence) => decision'.confidence \in Int
    BY <1>0, <2>1, <2>2, MccDecisionType
  <2>4. TypeOK'
    BY <1>0, <2>1, <2>3 DEF IInv, TypeOK
  <2>5. ConfidenceInRange'
    BY <1>0, <2>3, DoublesAssumption DEF ConfidenceInRange, InRange
  <2>6. AnswerInv'
    BY <1>0, <2>1, <2>2 DEF AnswerInv, MccDecision
  <2>7. KeywordDecisionIsBest'
    BY <1>0, <2>1, <2>2 DEF KeywordDecisionIsBest
  <2> QED BY <2>1, <2>4, <2>5, <2>6, <2>7 DEF IInv, LoopInv
<1>6. ASSUME NEW code \in Codes \cup {Null}, NEW text \in Texts,
             BeginScan(code, text)
      PROVE  IInv'
  <2>1. /\ Loads(document) /\ phase = "up" /\ phase' = "scanning"
        /\ input' = [code |-> code, text |-> text] /\ input' \in Input
        /\ NoMccRule(document, code)
        /\ next' = 1 /\ best' = <<>> /\ decision' = decision
    BY <1>6 DEF BeginScan, IInv, AnswerInv, NoMccRule, Input
  <2>2. TypeOK'
    BY <1>0, <2>1 DEF IInv, TypeOK
  <2>3. LoopInv'
    BY <1>0, <2>1 DEF LoopInv, IsLeader, Passed, RulesDocument
  <2>4. ConfidenceInRange' /\ AnswerInv' /\ KeywordDecisionIsBest'
    BY <1>0, <2>1 DEF IInv, ConfidenceInRange, AnswerInv, KeywordDecisionIsBest
  <2> QED BY <2>2, <2>3, <2>4 DEF IInv
<1>7. CASE UNCHANGED vars
  BY <1>7 DEF vars, IInv, TypeOK, ConfidenceInRange, LoopInv, AnswerInv,
              KeywordDecisionIsBest
<1> QED BY <1>1, <1>2, <1>3, <1>4, <1>5, <1>6, <1>7 DEF Next

THEOREM InductiveInvariant == Spec => []IInv
BY InitIInv, StepIInv, PTL DEF Spec

-----------------------------------------------------------------------------
\* Every variable keeps its type, and no category outside the enum gets in.
THEOREM TypeCorrect == Spec => []TypeOK
BY InductiveInvariant, PTL DEF IInv

\* RuleEngine.classify answers, for every file RulesLoader accepts, with a
\* confidence between 0 and 1 and not above the file's maximum, or with NaN; and
\* with NaN only if the file says NaN or Infinity for one of its numbers.
THEOREM RangeOfConfidence == Spec => []ConfidenceInRange
BY InductiveInvariant, PTL DEF IInv

\* RuleEngine.classify without an MCC rule answers with the category that has
\* most matches, the first of equals, though the cap can make confidences equal.
THEOREM BestKeywordDecision == Spec => []KeywordDecisionIsBest
BY InductiveInvariant, PTL DEF IInv

\* For every accepted file whose numbers are finite, an MCC answer of
\* RuleEngine.classify is monotone in the text's support.
THEOREM SupportIsMonotone == Spec => []SupportNeverHurts
<1>1. IInv => SupportNeverHurts
  <2> SUFFICES ASSUME IInv,
                      NEW c \in Categories, AnsweredByMcc(c), Finite(document.confidence),
                      NEW text \in Texts,
                      Hits(document, c, text) >= Hits(document, c, input.text),
                      MaxOtherHits(document, c, text)
                          <= MaxOtherHits(document, c, input.text)
               PROVE  MccDecision(document, c, text).confidence >= decision.confidence
    BY DEF SupportNeverHurts
  <2>1. document \in RulesDocument /\ Loads(document)
    BY EngineAssumption DEF EngineAssumption, IInv, TypeOK, AnswerInv, AnsweredByMcc
  <2>2. decision = MccDecision(document, c, input.text)
    BY DEF IInv, AnswerInv, AnsweredByMcc
  <2> DEFINE Value(t) == MccConfidence(document.confidence, Hits(document, c, t),
                                       MaxOtherHits(document, c, t))
  <2>3. /\ Value(input.text) \in Int /\ Value(text) \in Int
        /\ Value(input.text) <= Value(text)
    BY <2>1, FiniteIsSound, HitsNat, MaxOtherHitsType, MccConfidenceMonotone
  <2> QED BY <2>2, <2>3 DEF MccDecision
<1> QED BY <1>1, InductiveInvariant, PTL
=============================================================================
