------------------------- MODULE ModelArtifactsProofs -------------------------
(***************************************************************************)
(* The theorems of ModelArtifacts for every catalog, every configuration,  *)
(* and any number of exports, trainings, crashes and restarts: rows keep   *)
(* their shares, held-out merchants stay out of training, and an answer is *)
(* given under the label it was trained with.                              *)
(***************************************************************************)
EXTENDS ModelArtifacts, FiniteSetTheorems, FunctionTheorems, SequenceTheorems,
        WellFoundedInduction, TLAPS

-----------------------------------------------------------------------------
(* Sums of a function over a finite set.  The fold is defined by recursion:  *)
(* that it exists is shown first, and its equation used from then on.  The   *)
(* induction is over a set of subsets, from a smallest one outside it.       *)

LEMMA SubsetInduction ==
    ASSUME NEW S, IsFiniteSet(S), NEW Good,
           \A T \in SUBSET S :
              (\A U \in SUBSET T : U # T => U \in Good) => T \in Good
    PROVE  S \in Good
<1> DEFINE Bad == (SUBSET S) \ Good
<1> SUFFICES ASSUME S \notin Good PROVE FALSE
  OBVIOUS
<1>1. Bad \subseteq FiniteSubsetsOf(S) /\ Bad # {}
  BY FS_FiniteSubsetsOfFinite
<1> HIDE DEF Bad
<1>2. PICK T \in Bad : \A U \in Bad : <<U, T>> \notin StrictSubsetOrdering(S)
  BY <1>1, FS_StrictSubsetOrderingWellFounded, WFMin
<1> USE DEF Bad
<1>3. ASSUME NEW U \in SUBSET T, U # T PROVE U \in Good
  <2>1. T \in SUBSET S /\ U \in SUBSET S
    BY <1>2
  <2>2. <<U, T>> \in StrictSubsetOrdering(S)
    BY <1>3, <2>1 DEF StrictSubsetOrdering
  <2> QED
    BY <1>2, <2>1, <2>2
<1> QED
  BY <1>2, <1>3

First(s) == CHOOSE x \in s : TRUE

IsFold(g, f, S) ==
    g = [s \in SUBSET S |-> IF s = {} THEN 0 ELSE f[First(s)] + g[s \ {First(s)}]]

SumOver(f, S) == (CHOOSE g : IsFold(g, f, S))[S]

LEMMA SumIsFold == ASSUME NEW f PROVE SumOf(f) = SumOver(f, DOMAIN f)
BY Zenon DEF SumOf, MapThenSumSet, MapThenFoldSet, SumOver, IsFold, First

LEMMA FirstTaken ==
    ASSUME NEW s, s # {}
    PROVE  First(s) \in s /\ s \ {First(s)} \in SUBSET s /\ s \ {First(s)} # s
BY DEF First

LEMMA FoldEquation ==
    ASSUME NEW f, NEW S, NEW g, IsFold(g, f, S), NEW s \in SUBSET S
    PROVE  g[s] = IF s = {} THEN 0 ELSE f[First(s)] + g[s \ {First(s)}]
BY DEF IsFold

LEMMA FoldsAgree ==
    ASSUME NEW f, NEW S, IsFiniteSet(S), NEW g, IsFold(g, f, S),
           NEW T \in SUBSET S, NEW h, IsFold(h, f, T)
    PROVE  g[T] = h[T]
<1> DEFINE Good == {s \in SUBSET T : g[s] = h[s]}
<1>1. IsFiniteSet(T)
  BY FS_Subset
<1>2. ASSUME NEW s \in SUBSET T, \A U \in SUBSET s : U # s => U \in Good
      PROVE  s \in Good
  <2>1. /\ g[s] = IF s = {} THEN 0 ELSE f[First(s)] + g[s \ {First(s)}]
        /\ h[s] = IF s = {} THEN 0 ELSE f[First(s)] + h[s \ {First(s)}]
    BY FoldEquation
  <2>2. s # {} => g[s \ {First(s)}] = h[s \ {First(s)}]
    BY <1>2, FirstTaken
  <2> QED
    BY <2>1, <2>2
<1>3. T \in Good
  <2> HIDE DEF Good
  <2> QED
    BY <1>1, <1>2, SubsetInduction
<1> QED
  BY <1>3

LEMMA FoldExists ==
    ASSUME NEW f, NEW S, IsFiniteSet(S)
    PROVE  \E g : IsFold(g, f, S)
<1> DEFINE Good == {T \in SUBSET S : \E g : IsFold(g, f, T)}
           Fewer(s) == s \ {First(s)}
<1>1. ASSUME NEW T \in SUBSET S, \A U \in SUBSET T : U # T => U \in Good
      PROVE  T \in Good
  <2> DEFINE g == [s \in SUBSET T |->
                      IF s = {} THEN 0 ELSE f[First(s)] + SumOver(f, Fewer(s))]
             Chosen(U) == CHOOSE a : IsFold(a, f, U)
  <2>1. \A U \in SUBSET T : U # T => IsFold(Chosen(U), f, U) /\ IsFiniteSet(U)
    BY <1>1, FS_Subset
  <2>2. ASSUME NEW U \in SUBSET T, U # T PROVE g[U] = SumOver(f, U)
    <3>1. SumOver(f, U) = Chosen(U)[U]
      BY DEF SumOver
    <3>2. CASE U = {}
      <4>1. Chosen(U)[U] = 0
        BY <2>1, <2>2, <3>2, FoldEquation
      <4> QED
        BY <3>1, <3>2, <4>1
    <3>3. CASE U # {}
      <4>1. Fewer(U) \in SUBSET U /\ Fewer(U) \in SUBSET T /\ Fewer(U) # T
        BY <3>3, FirstTaken
      <4>2. Chosen(U)[U] = f[First(U)] + Chosen(U)[Fewer(U)]
        BY <2>1, <2>2, <3>3, FoldEquation
      <4>3. Chosen(U)[Fewer(U)] = Chosen(Fewer(U))[Fewer(U)]
        <5>1. IsFiniteSet(U) /\ IsFold(Chosen(U), f, U)
          BY <2>1, <2>2
        <5>2. IsFold(Chosen(Fewer(U)), f, Fewer(U))
          BY <2>1, <4>1
        <5> HIDE DEF Chosen, Fewer
        <5> QED
          BY <4>1, <5>1, <5>2, FoldsAgree
      <4>4. g[U] = f[First(U)] + SumOver(f, Fewer(U))
        BY <3>3
      <4> QED
        BY <3>1, <4>2, <4>3, <4>4 DEF SumOver
    <3> QED
      BY <3>2, <3>3
  <2>3. ASSUME NEW s \in SUBSET T, s # {}
        PROVE  g[s] = f[First(s)] + g[Fewer(s)]
    <3>1. Fewer(s) \in SUBSET T /\ Fewer(s) # T
      BY <2>3, FirstTaken
    <3> QED
      BY <2>2, <2>3, <3>1
  <2>4. g[{}] = 0
    OBVIOUS
  <2>5. IsFold(g, f, T)
    <3> DEFINE k == [s \in SUBSET T |->
                        IF s = {} THEN 0 ELSE f[First(s)] + g[Fewer(s)]]
    <3>1. ASSUME NEW s \in SUBSET T PROVE g[s] = k[s]
      <4>1. k[s] = IF s = {} THEN 0 ELSE f[First(s)] + g[Fewer(s)]
        OBVIOUS
      <4> HIDE DEF g, k, Fewer
      <4> QED
        BY <2>3, <2>4, <4>1
    <3>2. g = k
      BY <3>1
    <3> QED
      BY <3>2 DEF IsFold
  <2> QED
    BY <2>5
<1>2. S \in Good
  <2> HIDE DEF Good
  <2> QED
    BY <1>1, SubsetInduction
<1> QED
  BY <1>2

LEMMA SumStep ==
    ASSUME NEW f, NEW S, IsFiniteSet(S)
    PROVE  SumOver(f, S) =
              IF S = {} THEN 0 ELSE f[First(S)] + SumOver(f, S \ {First(S)})
<1> DEFINE g == CHOOSE a : IsFold(a, f, S)
           rest == S \ {First(S)}
           h == CHOOSE a : IsFold(a, f, rest)
<1>1. IsFold(g, f, S)
  BY FoldExists
<1>2. SumOver(f, S) = g[S] /\ SumOver(f, rest) = h[rest]
  BY DEF SumOver
<1>3. CASE S = {}
  BY <1>1, <1>2, <1>3, FoldEquation
<1>4. CASE S # {}
  <2>1. rest \in SUBSET S /\ IsFiniteSet(rest)
    BY <1>4, FS_Subset, FirstTaken
  <2>2. IsFold(h, f, rest)
    BY <2>1, FoldExists
  <2>3. g[S] = f[First(S)] + g[rest]
    BY <1>1, <1>4, FoldEquation
  <2> HIDE DEF g, h, rest
  <2>4. g[rest] = h[rest]
    BY <1>1, <2>1, <2>2, FoldsAgree
  <2> QED
    BY <1>2, <1>4, <2>3, <2>4 DEF rest
<1> QED
  BY <1>3, <1>4

LEMMA SumType ==
    ASSUME NEW S, IsFiniteSet(S), NEW f \in [S -> Int]
    PROVE  SumOver(f, S) \in Int
<1> DEFINE Good == {T \in SUBSET S : SumOver(f, T) \in Int}
<1>1. ASSUME NEW T \in SUBSET S, \A U \in SUBSET T : U # T => U \in Good
      PROVE  T \in Good
  <2>1. IsFiniteSet(T)
    BY FS_Subset
  <2>2. SumOver(f, T) =
           IF T = {} THEN 0 ELSE f[First(T)] + SumOver(f, T \ {First(T)})
    BY <2>1, SumStep
  <2>3. ASSUME T # {}
        PROVE  f[First(T)] \in Int /\ SumOver(f, T \ {First(T)}) \in Int
    BY <1>1, <2>3, FirstTaken
  <2> QED
    BY <2>2, <2>3
<1> HIDE DEF Good
<1>2. S \in Good
  BY <1>1, SubsetInduction
<1> QED
  BY <1>2 DEF Good

\* A sum is linear: h is a times f, plus g.
Combined(h, a, f, g, S) == \A c \in S : h[c] = a * f[c] + g[c]

LEMMA SumLinear ==
    ASSUME NEW S, IsFiniteSet(S), NEW f \in [S -> Int], NEW g \in [S -> Int],
           NEW a \in Int, NEW h \in [S -> Int], Combined(h, a, f, g, S)
    PROVE  SumOver(h, S) = a * SumOver(f, S) + SumOver(g, S)
<1> DEFINE Good == {T \in SUBSET S :
              /\ SumOver(f, T) \in Int /\ SumOver(g, T) \in Int
              /\ SumOver(h, T) = a * SumOver(f, T) + SumOver(g, T)}
<1>1. ASSUME NEW T \in SUBSET S, \A U \in SUBSET T : U # T => U \in Good
      PROVE  T \in Good
  <2> DEFINE first == First(T)
             rest == T \ {first}
  <2>1. IsFiniteSet(T)
    BY FS_Subset
  <2>2. CASE T = {}
    <3>1. SumOver(f, T) = 0 /\ SumOver(g, T) = 0 /\ SumOver(h, T) = 0
      BY <2>1, <2>2, SumStep
    <3>2. a * 0 + 0 = 0
      OBVIOUS
    <3> QED
      BY <3>1, <3>2
  <2>3. CASE T # {}
    <3>1. /\ SumOver(f, T) = f[first] + SumOver(f, rest)
          /\ SumOver(g, T) = g[first] + SumOver(g, rest)
          /\ SumOver(h, T) = h[first] + SumOver(h, rest)
      BY <2>1, <2>3, SumStep
    <3>2. first \in S /\ rest \in Good
      BY <1>1, <2>3, FirstTaken
    <3>3. ASSUME NEW x \in Int, NEW y \in Int, NEW u \in Int, NEW v \in Int
          PROVE  (a * x + y) + (a * u + v) = a * (x + u) + (y + v)
      <4>1. a * (x + u) = a * x + a * u
        OBVIOUS
      <4>2. a * x \in Int /\ a * u \in Int
        OBVIOUS
      <4> QED
        BY <4>1, <4>2
    <3>4. h[first] = a * f[first] + g[first] /\ f[first] \in Int /\ g[first] \in Int
      BY <3>2 DEF Combined
    <3>5. /\ SumOver(f, rest) \in Int /\ SumOver(g, rest) \in Int
          /\ SumOver(h, rest) = a * SumOver(f, rest) + SumOver(g, rest)
      BY <3>2
    <3> HIDE DEF first, rest
    <3>6. SumOver(f, T) \in Int /\ SumOver(g, T) \in Int
      BY <3>1, <3>4, <3>5
    <3>7. (a * f[first] + g[first]) + (a * SumOver(f, rest) + SumOver(g, rest))
             = a * (f[first] + SumOver(f, rest)) + (g[first] + SumOver(g, rest))
      BY <3>3, <3>4, <3>5
    <3>8. SumOver(h, T) = a * SumOver(f, T) + SumOver(g, T)
      BY Zenon, <3>1, <3>4, <3>5, <3>7
    <3> QED
      BY <3>6, <3>8
  <2> QED
    BY <2>2, <2>3
<1> HIDE DEF Good
<1>2. S \in Good
  BY <1>1, SubsetInduction
<1> QED
  BY <1>2 DEF Good

LEMMA SumMonotone ==
    ASSUME NEW S, IsFiniteSet(S), NEW f \in [S -> Int], NEW g \in [S -> Int],
           \A c \in S : f[c] <= g[c]
    PROVE  SumOver(f, S) <= SumOver(g, S)
<1> DEFINE Good == {T \in SUBSET S :
              /\ SumOver(f, T) \in Int /\ SumOver(g, T) \in Int
              /\ SumOver(f, T) <= SumOver(g, T)}
<1>1. ASSUME NEW T \in SUBSET S, \A U \in SUBSET T : U # T => U \in Good
      PROVE  T \in Good
  <2> DEFINE first == First(T)
             rest == T \ {first}
  <2>1. IsFiniteSet(T)
    BY FS_Subset
  <2>2. CASE T = {}
    <3>1. SumOver(f, T) = 0 /\ SumOver(g, T) = 0
      BY <2>1, <2>2, SumStep
    <3> QED
      BY <3>1
  <2>3. CASE T # {}
    <3>1. /\ SumOver(f, T) = f[first] + SumOver(f, rest)
          /\ SumOver(g, T) = g[first] + SumOver(g, rest)
      BY <2>1, <2>3, SumStep
    <3>2. first \in S /\ rest \in Good
      BY <1>1, <2>3, FirstTaken
    <3> HIDE DEF first, rest
    <3> QED
      BY <3>1, <3>2
  <2> QED
    BY <2>2, <2>3
<1> HIDE DEF Good
<1>2. S \in Good
  BY <1>1, SubsetInduction
<1> QED
  BY <1>2 DEF Good

LEMMA SumZero ==
    ASSUME NEW S, IsFiniteSet(S), NEW f \in [S -> Int], \A c \in S : f[c] = 0
    PROVE  SumOver(f, S) = 0
<1>1. SumOver(f, S) \in Int
  BY SumType
<1>2. Combined(f, 1, f, f, S)
  BY DEF Combined
<1> DEFINE sum == SumOver(f, S)
<1>3. sum = 1 * sum + sum
  BY <1>2, SumLinear
<1> HIDE DEF sum
<1>4. sum \in Int
  BY <1>1 DEF sum
<1>5. sum = 0
  BY <1>3, <1>4
<1> QED
  BY <1>5 DEF sum

LEMMA SumScaled ==
    ASSUME NEW S, IsFiniteSet(S), NEW f \in [S -> Int], NEW a \in Int,
           NEW h \in [S -> Int], \A c \in S : h[c] = a * f[c]
    PROVE  SumOver(h, S) = a * SumOver(f, S)
<1> DEFINE zero == [c \in S |-> 0]
<1>1. zero \in [S -> Int] /\ \A c \in S : zero[c] = 0
  OBVIOUS
<1>2. Combined(h, a, f, zero, S)
  <2>1. \A c \in S : a * f[c] \in Int /\ h[c] = a * f[c]
    OBVIOUS
  <2> QED
    BY <1>1, <2>1 DEF Combined
<1> HIDE DEF zero
<1>3. SumOver(h, S) = a * SumOver(f, S) + SumOver(zero, S)
  BY <1>1, <1>2, SumLinear
<1>4. SumOver(zero, S) = 0 /\ a * SumOver(f, S) \in Int
  BY <1>1, SumZero, SumType
<1> QED
  BY <1>3, <1>4

\* The sum of an indicator function counts its set.
LEMMA SumIndicator ==
    ASSUME NEW S, IsFiniteSet(S), NEW L \in SUBSET S, NEW f \in [S -> Int],
           \A c \in S : f[c] = IF c \in L THEN 1 ELSE 0
    PROVE  SumOver(f, S) = Cardinality(L)
<1> DEFINE Good == {T \in SUBSET S : SumOver(f, T) = Cardinality(L \cap T)}
<1>1. ASSUME NEW T \in SUBSET S, \A U \in SUBSET T : U # T => U \in Good
      PROVE  T \in Good
  <2> DEFINE first == First(T)
             rest == T \ {first}
  <2>1. IsFiniteSet(T)
    BY FS_Subset
  <2>2. CASE T = {}
    <3>1. L \cap T = {}
      BY <2>2
    <3> QED
      BY <2>1, <2>2, <3>1, SumStep, FS_EmptySet
  <2>3. CASE T # {}
    <3>1. SumOver(f, T) = f[first] + SumOver(f, rest)
      BY <2>1, <2>3, SumStep
    <3>2. first \in T /\ first \in S /\ SumOver(f, rest) = Cardinality(L \cap rest)
      BY <1>1, <2>3, FirstTaken
    <3>3. IsFiniteSet(L \cap T) /\ Cardinality(L \cap T) \in Nat
      BY <2>1, FS_Intersection, FS_CardinalityType
    <3>4. L \cap rest = (L \cap T) \ {first}
      OBVIOUS
    <3>5. Cardinality(L \cap rest) =
             IF first \in L \cap T THEN Cardinality(L \cap T) - 1 ELSE Cardinality(L \cap T)
      BY <3>3, <3>4, FS_RemoveElement
    <3> HIDE DEF first, rest
    <3> QED
      BY <3>1, <3>2, <3>3, <3>5
  <2> QED
    BY <2>2, <2>3
<1> HIDE DEF Good
<1>2. S \in Good
  BY <1>1, SubsetInduction
<1>3. L \cap S = L
  OBVIOUS
<1> QED
  BY <1>2, <1>3 DEF Good

LEMMA SumConstant ==
    ASSUME NEW S, IsFiniteSet(S), NEW k \in Int, NEW f \in [S -> Int],
           \A c \in S : f[c] = k
    PROVE  SumOver(f, S) = k * Cardinality(S)
<1> DEFINE one == [c \in S |-> 1]
           zero == [c \in S |-> 0]
<1>1. one \in [S -> Int] /\ zero \in [S -> Int]
  OBVIOUS
<1>2. Combined(f, k, one, zero, S)
  BY DEF Combined
<1>3. SumOver(one, S) = Cardinality(S)
  <2>1. S \in SUBSET S /\ \A c \in S : one[c] = IF c \in S THEN 1 ELSE 0
    OBVIOUS
  <2> HIDE DEF one
  <2> QED
    BY <1>1, <2>1, SumIndicator
<1>4. SumOver(zero, S) = 0
  BY <1>1, SumZero
<1> HIDE DEF one, zero
<1>5. SumOver(f, S) = k * SumOver(one, S) + SumOver(zero, S)
  BY <1>1, <1>2, SumLinear
<1>6. Cardinality(S) \in Nat
  BY FS_CardinalityType
<1> QED
  BY <1>3, <1>4, <1>5, <1>6

-----------------------------------------------------------------------------
(* The plans.                                                              *)

LEMMA LabelsFinite == IsFiniteSet(Labels) /\ Cardinality(Labels) \in Nat \ {0}
<1>1. Catalog \in Surjection(1 .. Len(Catalog), CatalogCategories)
  <2>1. Catalog \in [1 .. Len(Catalog) -> Nat \ {0}]
    BY CatalogAssumption
  <2>2. DOMAIN Catalog = 1 .. Len(Catalog)
    BY <2>1
  <2>3. Catalog \in [1 .. Len(Catalog) -> CatalogCategories]
    BY <2>1, <2>2 DEF CatalogCategories
  <2> QED
    BY <2>2, <2>3 DEF CatalogCategories, Surjection
<1>2. IsFiniteSet(1 .. Len(Catalog))
  <2>1. Len(Catalog) \in Int
    BY CatalogAssumption
  <2> QED
    BY <2>1, FS_Interval
<1>3. IsFiniteSet(CatalogCategories)
  BY <1>1, <1>2, FS_Surjection
<1>4. IsFiniteSet(Labels)
  BY <1>3, FS_AddElement DEF Labels
<1>5. Labels # {}
  BY DEF Labels
<1> QED
  BY <1>4, <1>5, FS_CardinalityType, FS_EmptySet

LEMMA LabelsAreNumbers == Labels \in SUBSET (Nat \ {0})
<1>1. \A i \in DOMAIN Catalog : Catalog[i] \in Nat \ {0}
  BY CatalogAssumption
<1> QED
  BY <1>1, CatalogAssumption DEF Labels, CatalogCategories

LEMMA Hundredths ==
    ASSUME NEW v \in Nat
    PROVE  v \div 100 \in Nat /\ v % 100 \in 0 .. 99 /\ v = 100 * (v \div 100) + (v % 100)
<1>1. v \div 100 \in Nat
  OBVIOUS
<1>2. v % 100 \in 0 .. 99
  OBVIOUS
<1>3. v = 100 * (v \div 100) + (v % 100)
  OBVIOUS
<1> QED
  BY <1>1, <1>2, <1>3

LEMMA ShareType ==
    /\ Share \in [Labels -> Int] /\ DOMAIN Share = Labels
    /\ \A c \in Labels : Share[c] \in Nat
    /\ SumOf(Share) <= 100
<1>1. Share \in [Labels -> 0 .. 100]
  BY CatalogAssumption
<1>2. SumOf(Share) <= 100
  BY CatalogAssumption
<1>3. 0 .. 100 \subseteq Nat
  OBVIOUS
<1> QED
  BY <1>1, <1>2, <1>3

Scaled(n) == [c \in Labels |-> Share[c] * n]

\* Every share is its whole part and its remainder; the whole parts leave as
\* much over as the remainders, where the shares make up the whole.
LEMMA WholeParts ==
    ASSUME NEW n \in Nat
    PROVE  /\ Floor(n) \in [Labels -> Nat] /\ Remainder(n) \in [Labels -> 0 .. 99]
           /\ \A c \in Labels : Share[c] * n = 100 * Floor(n)[c] + Remainder(n)[c]
           /\ SumOf(Floor(n)) \in Int /\ Left(n) \in Nat
           /\ SumOver(Remainder(n), Labels) \in Int
           /\ SumOf(Share) = 100 => 100 * Left(n) = SumOver(Remainder(n), Labels)
<1> DEFINE zero == [c \in Labels |-> 0]
<1>1. ASSUME NEW c \in Labels
      PROVE  /\ Share[c] * n \in Nat /\ Floor(n)[c] \in Nat /\ Remainder(n)[c] \in 0 .. 99
             /\ Share[c] * n = 100 * Floor(n)[c] + Remainder(n)[c]
  <2>1. Share[c] \in Nat
    BY ShareType
  <2>2. Share[c] * n \in Nat
    BY <2>1
  <2>3. Floor(n)[c] = (Share[c] * n) \div 100 /\ Remainder(n)[c] = (Share[c] * n) % 100
    BY DEF Floor, Remainder
  <2> QED
    BY <2>2, <2>3, Hundredths
<1>2. /\ Floor(n) \in [Labels -> Nat] /\ Remainder(n) \in [Labels -> 0 .. 99]
      /\ Scaled(n) \in [Labels -> Int]
      /\ \A c \in Labels : Scaled(n)[c] = 100 * Floor(n)[c] + Remainder(n)[c]
  <2>1. Floor(n) \in [Labels -> Nat]
    BY <1>1 DEF Floor
  <2>2. Remainder(n) \in [Labels -> 0 .. 99]
    BY <1>1 DEF Remainder
  <2>3. Scaled(n) \in [Labels -> Int]
    BY <1>1 DEF Scaled
  <2>4. \A c \in Labels : Scaled(n)[c] = Share[c] * n
    BY DEF Scaled
  <2> QED
    BY <1>1, <2>1, <2>2, <2>3, <2>4
<1>3. IsFiniteSet(Labels)
  BY LabelsFinite
<1>4. /\ Floor(n) \in [Labels -> Int] /\ Remainder(n) \in [Labels -> Int]
      /\ Share \in [Labels -> Int] /\ zero \in [Labels -> Int]
  <2>1. 0 .. 99 \subseteq Int /\ Nat \subseteq Int
    OBVIOUS
  <2> QED
    BY <1>2, <2>1, ShareType
<1>5. SumOver(Scaled(n), Labels)
         = 100 * SumOver(Floor(n), Labels) + SumOver(Remainder(n), Labels)
  <2>1. Combined(Scaled(n), 100, Floor(n), Remainder(n), Labels)
    BY <1>2 DEF Combined
  <2> QED
    BY <1>2, <1>3, <1>4, <2>1, SumLinear
<1>6. SumOver(Scaled(n), Labels) = n * SumOver(Share, Labels)
  <2>1. \A c \in Labels : Scaled(n)[c] = n * Share[c]
    <3>1. \A c \in Labels : Scaled(n)[c] = Share[c] * n /\ Share[c] \in Int
      BY <1>4 DEF Scaled
    <3> QED
      BY <3>1
  <2>2. n \in Int
    OBVIOUS
  <2> QED
    BY <1>2, <1>3, <1>4, <2>1, <2>2, SumScaled
<1>7. SumOver(Floor(n), Labels) \in Int /\ SumOver(Remainder(n), Labels) \in Int
  BY <1>3, <1>4, SumType
<1>8. SumOver(Remainder(n), Labels) >= 0
  <2>1. \A c \in Labels : zero[c] <= Remainder(n)[c] /\ zero[c] = 0
    BY <1>2
  <2> HIDE DEF zero
  <2> QED
    BY <1>3, <1>4, <1>7, <2>1, SumMonotone, SumZero
<1>9. SumOf(Floor(n)) = SumOver(Floor(n), Labels) /\ SumOf(Share) = SumOver(Share, Labels)
  <2>1. DOMAIN Floor(n) = Labels /\ DOMAIN Share = Labels
    BY <1>4
  <2> QED
    BY <2>1, SumIsFold
<1>10. SumOf(Share) \in Int /\ SumOf(Share) <= 100
  <2>1. SumOver(Share, Labels) \in Int
    BY <1>3, <1>4, SumType
  <2> QED
    BY <1>9, <2>1, ShareType
<1>11. Left(n) \in Nat /\ (SumOf(Share) = 100 => 100 * Left(n) = SumOver(Remainder(n), Labels))
  <2> DEFINE total == SumOf(Share)
             f == SumOver(Floor(n), Labels)
             r == SumOver(Remainder(n), Labels)
  <2>1. n * total = 100 * f + r
    BY <1>5, <1>6, <1>9
  <2>2. Left(n) = n - f
    BY <1>9 DEF Left
  <2>3. f \in Int /\ r \in Int /\ total \in Int
    BY <1>7, <1>10
  <2>4. r >= 0 /\ total <= 100
    BY <1>8, <1>10
  <2> HIDE DEF total, f, r
  <2>5. n * total <= 100 * n
    BY <2>3, <2>4
  <2>6. n - f \in Nat
    BY <2>1, <2>3, <2>4, <2>5
  <2>7. total = 100 => 100 * (n - f) = r
    BY <2>1, <2>3
  <2> QED
    BY <2>2, <2>6, <2>7 DEF total, r
<1> QED
  BY <1>1, <1>2, <1>7, <1>9, <1>11

LEMMA RowsAddUp ==
    ASSUME NEW n \in Nat, NEW lucky \in Lucky(n), NEW more \in AtRandom(Rest(n))
    PROVE  /\ Rows(n, lucky, more) \in [Labels -> Nat]
           /\ SumOf(Rows(n, lucky, more)) = n
<1> DEFINE one == [c \in Labels |-> IF c \in lucky THEN 1 ELSE 0]
           both == [c \in Labels |-> Floor(n)[c] + one[c]]
           rows == Rows(n, lucky, more)
<1>1. IsFiniteSet(Labels) /\ Cardinality(Labels) \in Nat
  BY LabelsFinite
<1>2. /\ Floor(n) \in [Labels -> Nat] /\ Left(n) \in Nat /\ SumOf(Floor(n)) \in Int
      /\ DOMAIN Floor(n) = Labels
  BY WholeParts
<1>3. more \in [Labels -> Nat] /\ SumOf(more) = Rest(n) /\ DOMAIN more = Labels
  <2>1. 0 .. Rest(n) \subseteq Nat
    OBVIOUS
  <2> QED
    BY <2>1 DEF AtRandom
<1>4. /\ one \in [Labels -> Int] /\ both \in [Labels -> Int] /\ rows \in [Labels -> Nat]
      /\ \A c \in Labels : one[c] = IF c \in lucky THEN 1 ELSE 0
      /\ \A c \in Labels : both[c] = Floor(n)[c] + one[c] /\ rows[c] = both[c] + more[c]
  BY <1>2, <1>3 DEF Rows
<1>5. DOMAIN rows = Labels
  BY DEF Rows
<1> HIDE DEF one, both, rows
<1>6. /\ Floor(n) \in [Labels -> Int] /\ more \in [Labels -> Int]
      /\ rows \in [Labels -> Int]
  BY <1>2, <1>3, <1>4
<1>7. SumOver(one, Labels) = Cardinality(lucky)
  BY <1>1, <1>4, SumIndicator DEF Lucky, kSubset
<1>8. SumOver(both, Labels) = 1 * SumOver(Floor(n), Labels) + SumOver(one, Labels)
  <2>1. Combined(both, 1, Floor(n), one, Labels)
    BY <1>4, <1>6 DEF Combined
  <2> QED
    BY <1>1, <1>4, <1>6, <2>1, SumLinear
<1>9. SumOver(rows, Labels) = 1 * SumOver(both, Labels) + SumOver(more, Labels)
  <2>1. Combined(rows, 1, both, more, Labels)
    BY <1>4, <1>6 DEF Combined
  <2> QED
    BY <1>1, <1>4, <1>6, <2>1, SumLinear
<1>10. /\ SumOf(Floor(n)) = SumOver(Floor(n), Labels) /\ SumOf(more) = SumOver(more, Labels)
       /\ SumOf(rows) = SumOver(rows, Labels)
  BY <1>2, <1>3, <1>5, SumIsFold
<1>11. Cardinality(lucky) = Extra(n)
  BY DEF Lucky, kSubset
<1>12. Extra(n) \in Nat
  BY <1>1, <1>2 DEF Extra, Smaller
<1>13. SumOf(rows) = SumOf(Floor(n)) + Cardinality(lucky) + Rest(n)
  <2>1. Cardinality(lucky) \in Int /\ Rest(n) \in Int
    BY <1>2, <1>11, <1>12 DEF Rest
  <2> QED
    BY <1>2, <1>3, <1>7, <1>8, <1>9, <1>10, <2>1
<1>14. SumOf(rows) = n
  BY <1>2, <1>11, <1>12, <1>13 DEF Rest, Left
<1> QED
  BY <1>4, <1>14 DEF rows

\* A category that gets a row more has a remainder: otherwise nothing outside
\* the lucky ones has one, and the remainders are too small for what is left.
LEMMA RowsAreClose ==
    ASSUME NEW n \in Nat, NEW lucky \in Lucky(n), NEW more \in AtRandom(Rest(n)),
           SumOf(Share) = 100, NEW c \in Labels
    PROVE  100 * Rows(n, lucky, more)[c] \in Share[c] * n - 99 .. Share[c] * n + 99
<1> DEFINE remainder == Remainder(n)
           size == Cardinality(Labels)
<1>1. IsFiniteSet(Labels) /\ size \in Nat \ {0}
  BY LabelsFinite
<1>2. /\ Floor(n)[c] \in Nat /\ remainder \in [Labels -> 0 .. 99]
      /\ Share[c] * n = 100 * Floor(n)[c] + remainder[c]
      /\ Left(n) \in Nat /\ SumOver(remainder, Labels) \in Int
      /\ 100 * Left(n) = SumOver(remainder, Labels)
  BY WholeParts
<1>3. remainder \in [Labels -> Int] /\ \A d \in Labels : remainder[d] \in 0 .. 99
  BY <1>2
<1> HIDE DEF remainder, size
<1>4. Left(n) < size
  <2> DEFINE most == [d \in Labels |-> 99]
  <2>1. most \in [Labels -> Int] /\ \A d \in Labels : remainder[d] <= most[d] /\ most[d] = 99
    BY <1>3
  <2> HIDE DEF most
  <2>2. SumOver(remainder, Labels) <= SumOver(most, Labels)
    BY <1>1, <1>3, <2>1, SumMonotone
  <2>3. SumOver(most, Labels) = 99 * size
    BY <1>1, <2>1, SumConstant DEF size
  <2> QED
    BY <1>1, <1>2, <2>2, <2>3
<1>5. Cardinality(lucky) = Left(n) /\ Rest(n) = 0
  BY <1>1, <1>2, <1>4 DEF Lucky, kSubset, Extra, Rest, Smaller, size
<1>6. more[c] = 0
  <2>1. more[c] \in 0 .. 0
    BY <1>5 DEF AtRandom
  <2> QED
    BY <2>1
<1>7. Rows(n, lucky, more)[c] = Floor(n)[c] + (IF c \in lucky THEN 1 ELSE 0)
  BY <1>2, <1>6 DEF Rows
<1>8. c \in lucky => remainder[c] > 0
  <2> SUFFICES ASSUME c \in lucky, remainder[c] <= 0 PROVE FALSE
    BY <1>3
  <2> DEFINE others == lucky \ {c}
             one == [d \in Labels |-> IF d \in others THEN 1 ELSE 0]
             most == [d \in Labels |-> 99 * one[d]]
  <2>1. IsFiniteSet(lucky) /\ Cardinality(others) = Cardinality(lucky) - 1
    BY <1>1, FS_Subset, FS_RemoveElement DEF Lucky, kSubset
  <2>2. /\ one \in [Labels -> Int] /\ most \in [Labels -> Int] /\ others \in SUBSET Labels
        /\ \A d \in Labels : one[d] = IF d \in others THEN 1 ELSE 0
        /\ \A d \in Labels : most[d] = 99 * one[d]
    BY DEF Lucky, kSubset
  <2>3. \A d \in Labels : remainder[d] <= most[d]
    <3>1. ASSUME NEW d \in Labels, d \notin others PROVE remainder[d] = 0
      <4>1. d = c \/ remainder[c] >= remainder[d]
        BY <3>1 DEF Lucky, remainder
      <4> QED
        BY <1>3, <4>1
    <3> HIDE DEF others, one, most
    <3> QED
      BY <1>3, <2>2, <3>1
  <2> HIDE DEF others, one, most
  <2>4. SumOver(remainder, Labels) <= SumOver(most, Labels)
    BY <1>1, <1>3, <2>2, <2>3, SumMonotone
  <2>5. SumOver(most, Labels) = 99 * SumOver(one, Labels)
    BY <1>1, <2>2, SumScaled
  <2>6. SumOver(one, Labels) = Cardinality(others)
    BY <1>1, <2>2, SumIndicator
  <2> QED
    BY <1>2, <1>5, <2>1, <2>4, <2>5, <2>6
<1> QED
  BY <1>2, <1>3, <1>7, <1>8

LEMMA PlansKeepShares ==
    ASSUME NEW cfg \in Config, NEW split \in Split, Plannable(cfg, split),
           NEW plan \in Plans(cfg, split)
    PROVE  /\ plan \in [Labels -> Nat] /\ SumOf(plan) = Total(cfg, split)
           /\ cfg.profile = "realistic" /\ SumOf(Share) = 100 =>
                 \A c \in Labels : 100 * plan[c] \in
                    Share[c] * Total(cfg, split) - 99 .. Share[c] * Total(cfg, split) + 99
<1>1. /\ cfg.profile \in {"balanced", "realistic"}
      /\ cfg.perCategory[split] \in Int /\ cfg.size[split] \in Int
  BY DEF Config
<1>2. IsFiniteSet(Labels) /\ Cardinality(Labels) \in Nat \ {0}
  BY LabelsFinite
<1>3. CASE cfg.profile = "balanced"
  <2> DEFINE k == cfg.perCategory[split]
  <2>1. plan = [c \in Labels |-> k]
    BY <1>3 DEF Plans
  <2>2. k * Cardinality(Labels) > 0 /\ Total(cfg, split) = k * Cardinality(Labels)
    BY <1>3 DEF Plannable, Total
  <2> HIDE DEF k
  <2>3. k \in Int
    BY <1>1 DEF k
  <2>4. k \in Nat
    BY <1>2, <2>2, <2>3
  <2>5. plan \in [Labels -> Nat] /\ plan \in [Labels -> Int] /\ DOMAIN plan = Labels
        /\ \A c \in Labels : plan[c] = k
    BY <2>1, <2>4
  <2>6. SumOver(plan, Labels) = k * Cardinality(Labels)
    BY <1>2, <2>3, <2>5, SumConstant
  <2> QED
    BY <1>3, <2>2, <2>5, <2>6, SumIsFold
<1>4. CASE cfg.profile = "realistic"
  <2> DEFINE n == cfg.size[split]
  <2>1. n \in Nat /\ Total(cfg, split) = n
    BY <1>1, <1>4 DEF Plannable, Total
  <2>2. plan \in RealisticCounts(n)
    BY <1>4 DEF Plans
  <2>3. PICK lucky \in Lucky(n), more \in AtRandom(Rest(n)) : plan = Rows(n, lucky, more)
    BY <2>2 DEF RealisticCounts
  <2> HIDE DEF n
  <2> QED
    BY <2>1, <2>3, RowsAddUp, RowsAreClose
<1> QED
  BY <1>1, <1>3, <1>4

-----------------------------------------------------------------------------
(* The columns of a model.  A finite set of numbers has an ascending order:  *)
(* the rank of a member is the number of members up to it, and every rank    *)
(* is taken.                                                                 *)

Ascending(s, S) ==
    LET places == 1 .. Cardinality(S) IN
    s \in [places -> S] /\ \A i, j \in places : i < j => s[i] < s[j]

LEMMA SomeAscending ==
    ASSUME NEW S \in SUBSET Nat, IsFiniteSet(S)
    PROVE  \E s : Ascending(s, S)
<1> DEFINE n == Cardinality(S)
           below(x) == {y \in S : y <= x}
           rank == [x \in S |-> Cardinality(below(x))]
<1>1. n \in Nat /\ IsFiniteSet(1 .. n) /\ Cardinality(1 .. n) = n
  <2>1. n \in Nat
    BY FS_CardinalityType
  <2> HIDE DEF n
  <2> QED
    BY <2>1, FS_Interval
<1>2. \A x \in S : IsFiniteSet(below(x)) /\ Cardinality(below(x)) \in 1 .. n
  <2> SUFFICES ASSUME NEW x \in S
               PROVE  IsFiniteSet(below(x)) /\ Cardinality(below(x)) \in 1 .. n
    OBVIOUS
  <2>1. below(x) \in SUBSET S /\ x \in below(x)
    OBVIOUS
  <2> HIDE DEF below
  <2>2. IsFiniteSet(below(x)) /\ Cardinality(below(x)) <= Cardinality(S)
    BY <2>1, FS_Subset
  <2>3. Cardinality(below(x)) \in Nat /\ Cardinality(below(x)) # 0
    BY <2>1, <2>2, FS_CardinalityType, FS_EmptySet
  <2> QED
    BY <1>1, <2>2, <2>3
<1>3. rank \in [S -> 1 .. n]
  BY <1>2
<1>4. ASSUME NEW x \in S, NEW y \in S, x < y PROVE rank[x] < rank[y]
  <2>1. below(x) \in SUBSET below(y) /\ below(x) # below(y)
    <3>1. y \in below(y) /\ y \notin below(x)
      BY <1>4
    <3>2. \A z \in below(x) : z \in below(y)
      BY <1>4
    <3> HIDE DEF below
    <3> QED
      BY <3>1, <3>2
  <2>2. rank[x] = Cardinality(below(x)) /\ rank[y] = Cardinality(below(y))
    OBVIOUS
  <2> HIDE DEF below, rank
  <2>3. Cardinality(below(x)) <= Cardinality(below(y))
        /\ Cardinality(below(x)) # Cardinality(below(y))
    BY <1>2, <2>1, FS_Subset
  <2>4. Cardinality(below(x)) \in Int /\ Cardinality(below(y)) \in Int
    BY <1>2
  <2> QED
    BY <2>2, <2>3, <2>4
<1> HIDE DEF rank, below
<1>5. rank \in Injection(S, 1 .. n)
  <2>1. \A x, y \in S : rank[x] = rank[y] => x = y
    <3>1. \A x, y \in S : x < y \/ y < x \/ x = y
      OBVIOUS
    <3>2. \A x \in S : rank[x] \in Int
      BY <1>3
    <3> QED
      BY <1>4, <3>1, <3>2
  <2> QED
    BY <1>3, <2>1, Fun_IsInj
<1>6. rank \in Surjection(S, 1 .. n)
  <2>1. Cardinality(S) = Cardinality(1 .. n)
    BY <1>1
  <2> HIDE DEF n
  <2> QED
    BY <1>1, <1>5, <2>1, FS_Injection
<1>7. \A i \in 1 .. n : \E x \in S : rank[x] = i
  BY <1>6, Fun_SurjectionProperties
<1> DEFINE s == [i \in 1 .. n |-> CHOOSE x \in S : rank[x] = i]
<1>8. \A i \in 1 .. n : s[i] \in S /\ rank[s[i]] = i
  BY <1>7
<1>9. s \in [1 .. n -> S]
  BY <1>7
<1> HIDE DEF s, n
<1>10. ASSUME NEW i \in 1 .. n, NEW j \in 1 .. n, i < j PROVE s[i] < s[j]
  <2>1. s[i] \in S /\ s[j] \in S /\ rank[s[i]] = i /\ rank[s[j]] = j
    BY <1>8
  <2>2. s[i] < s[j] \/ s[j] < s[i] \/ s[i] = s[j]
    <3>1. s[i] \in Nat /\ s[j] \in Nat
      BY <2>1
    <3> QED
      BY <3>1
  <2>3. s[j] < s[i] => rank[s[j]] < rank[s[i]]
    BY <1>4, <2>1
  <2>4. i \in Int /\ j \in Int
    OBVIOUS
  <2> QED
    BY <1>10, <2>1, <2>2, <2>3, <2>4
<1> QED
  BY <1>9, <1>10 DEF Ascending, n

\* The columns are the labels, one each.
LEMMA ClassesAreLabels ==
    ASSUME NEW S \in SUBSET Nat, IsFiniteSet(S)
    PROVE  /\ Classes(S) \in Seq(S) /\ Len(Classes(S)) = Cardinality(S)
           /\ ToSet(Classes(S)) = S
<1> DEFINE n == Cardinality(S)
           s == Classes(S)
<1>1. s = CHOOSE a \in [1 .. n -> S] : \A i, j \in 1 .. n : i < j => a[i] < a[j]
  BY DEF Classes
<1>2. \E a \in [1 .. n -> S] : \A i, j \in 1 .. n : i < j => a[i] < a[j]
  BY SomeAscending DEF Ascending
<1>3. n \in Nat /\ IsFiniteSet(1 .. n) /\ Cardinality(1 .. n) = n
  <2>1. n \in Nat
    BY FS_CardinalityType
  <2> HIDE DEF n
  <2> QED
    BY <2>1, FS_Interval
<1> HIDE DEF s, n
<1>4. s \in [1 .. n -> S] /\ \A i, j \in 1 .. n : i < j => s[i] < s[j]
  BY <1>1, <1>2
<1>5. s \in Injection(1 .. n, S)
  <2>1. ASSUME NEW i \in 1 .. n, NEW j \in 1 .. n, s[i] = s[j] PROVE i = j
    <3>1. s[i] \in Nat /\ s[j] \in Nat
      BY <1>4
    <3>2. ~ (i < j) /\ ~ (j < i)
      BY <1>4, <2>1, <3>1
    <3> QED
      BY <1>3, <3>2
  <2> QED
    BY <1>4, <2>1, Fun_IsInj
<1>6. s \in Surjection(1 .. n, S)
  <2>1. Cardinality(1 .. n) = Cardinality(S)
    BY <1>3 DEF n
  <2> QED
    BY <1>5, <2>1, FS_Injection
<1>7. DOMAIN s = 1 .. n /\ \A x \in S : \E i \in 1 .. n : s[i] = x
  <2>1. DOMAIN s = 1 .. n
    BY <1>4
  <2> QED
    BY <1>6, <2>1 DEF Surjection
<1>8. ToSet(s) = S
  BY <1>4, <1>7 DEF ToSet
<1>9. s \in Seq(S) /\ Len(s) = n
  BY <1>3, <1>4, <1>7
<1> QED
  BY <1>8, <1>9 DEF s, n

\* The orders the columns of a model may have.
Orders == {Classes(S) : S \in SUBSET (Labels \cup {Cut})}

LEMMA OrderOf ==
    ASSUME NEW a \in Orders
    PROVE  /\ ToSet(a) \in SUBSET (Labels \cup {Cut}) /\ a = Classes(ToSet(a))
           /\ IsFiniteSet(ToSet(a)) /\ Len(a) = Cardinality(ToSet(a))
<1>1. PICK S \in SUBSET (Labels \cup {Cut}) : a = Classes(S)
  BY DEF Orders
<1>2. IsFiniteSet(Labels \cup {Cut})
  BY LabelsFinite, FS_AddElement
<1>3. IsFiniteSet(S)
  BY <1>1, <1>2, FS_Subset
<1>4. S \in SUBSET Nat
  BY LabelsAreNumbers DEF Cut
<1> QED
  BY <1>1, <1>3, <1>4, ClassesAreLabels

\* With as many columns as there are labels and no cut one, the columns are
\* the labels, in their order.
LEMMA SameOrder ==
    ASSUME NEW a \in Orders, NEW b \in Orders, ToSet(a) = Labels,
           Cut \notin ToSet(b), Len(a) = Len(b)
    PROVE  a = b
<1>1. ToSet(b) \in SUBSET Labels
  BY OrderOf
<1>2. Cardinality(Labels) = Cardinality(ToSet(b)) /\ IsFiniteSet(Labels)
  BY OrderOf
<1>3. Labels = ToSet(b)
  BY <1>1, <1>2, FS_Subset
<1> QED
  BY <1>3, OrderOf

-----------------------------------------------------------------------------
(* The pools.  At least one group is held out and one is not; a shuffle     *)
(* names a group once, so its two parts have none in common.                *)

LEMMA RoundedType == ASSUME NEW n \in Int PROVE RoundHundredths(n) \in Int
<1> DEFINE q == n \div 100
           up == n % 100 > 50 \/ (n % 100 = 50 /\ q % 2 = 1)
<1>1. q \in Int
  OBVIOUS
<1>2. RoundHundredths(n) = IF up THEN q + 1 ELSE q
  BY DEF RoundHundredths
<1> HIDE DEF q, up
<1> QED
  BY <1>1, <1>2

LEMMA SomeHeldOut ==
    ASSUME NEW n \in Nat, n > 1, NEW ratio \in Int
    PROVE  HeldOut(n, ratio) \in 1 .. n - 1
<1>1. n * ratio \in Int
  OBVIOUS
<1>2. RoundHundredths(n * ratio) \in Int
  BY <1>1, RoundedType
<1> QED
  BY <1>2 DEF HeldOut, Smaller, Larger

LEMMA ShuffleIsInjective ==
    ASSUME NEW seed \in Seeds, NEW c \in CatalogCategories
    PROVE  /\ Shuffle[seed][c] \in Seq(Groups[c])
           /\ Len(Shuffle[seed][c]) = Cardinality(Groups[c])
           /\ \A i, j \in 1 .. Len(Shuffle[seed][c]) :
                 Shuffle[seed][c][i] = Shuffle[seed][c][j] => i = j
<1> DEFINE s == Shuffle[seed][c]
           n == Len(s)
<1>1. /\ s \in Seq(Groups[c]) /\ {s[i] : i \in DOMAIN s} = Groups[c]
      /\ n = Cardinality(Groups[c])
  BY CatalogAssumption
<1> HIDE DEF s
<1>2. n \in Nat /\ DOMAIN s = 1 .. n /\ s \in [1 .. n -> Groups[c]]
  BY <1>1
<1> HIDE DEF n
<1>3. s \in Surjection(1 .. n, Groups[c])
  BY <1>1, <1>2 DEF Surjection
<1>4. IsFiniteSet(1 .. n) /\ Cardinality(1 .. n) = Cardinality(Groups[c])
  BY <1>1, <1>2, FS_Interval
<1>5. s \in Injection(1 .. n, Groups[c])
  BY <1>3, <1>4, FS_SurjSameCardinalityImpliesInj
<1>6. \A i, j \in 1 .. n : s[i] = s[j] => i = j
  BY <1>5, Fun_InjectionProperties
<1> QED
  BY <1>1, <1>6 DEF s, n

LEMMA FirstPart ==
    ASSUME NEW S, NEW s \in Seq(S), NEW k \in 1 .. Len(s) - 1
    PROVE  /\ SubSeq(s, 1, k) \in Seq(S) /\ Len(SubSeq(s, 1, k)) = k
           /\ \A i \in 1 .. k : SubSeq(s, 1, k)[i] = s[i]
<1>1. SubSeq(s, 1, k) \in Seq(S) /\ Len(SubSeq(s, 1, k)) = k
  OBVIOUS
<1>2. \A i \in 1 .. k : SubSeq(s, 1, k)[i] = s[i]
  OBVIOUS
<1> QED
  BY <1>1, <1>2

LEMMA SecondPart ==
    ASSUME NEW S, NEW s \in Seq(S), NEW k \in 1 .. Len(s) - 1
    PROVE  LET t == SubSeq(s, k + 1, Len(s)) IN
           /\ t \in Seq(S) /\ Len(t) = Len(s) - k
           /\ \A i \in 1 .. Len(s) - k : t[i] = s[k + i]
<1>1. /\ SubSeq(s, k + 1, Len(s)) \in Seq(S)
      /\ Len(SubSeq(s, k + 1, Len(s))) = Len(s) - k
  OBVIOUS
<1>2. \A i \in 1 .. Len(s) - k : SubSeq(s, k + 1, Len(s))[i] = s[k + i]
  OBVIOUS
<1> QED
  BY <1>1, <1>2

LEMMA PoolsAreDisjoint ==
    ASSUME NEW cfg \in Config, cfg.strategy = "holdout", NEW c \in CatalogCategories,
           Cardinality(Groups[c]) > 1, NEW split \in {"validation", "test"}
    PROVE  Pool(cfg, "train", c) \cap Pool(cfg, split, c) = {}
<1> DEFINE s == Shuffle[cfg.seed][c]
           n == Len(s)
           held == HeldOut(n, cfg.ratio)
           evaluation == SubSeq(s, 1, held)
           train == SubSeq(s, held + 1, n)
<1>1. cfg.seed \in Seeds /\ cfg.ratio \in Int
  BY DEF Config
<1>2. /\ s \in Seq(Groups[c]) /\ n > 1
      /\ \A i, j \in 1 .. n : s[i] = s[j] => i = j
  BY <1>1, ShuffleIsInjective
<1>3. n \in Nat /\ \A i \in 1 .. n : s[i] \in Groups[c]
  BY <1>2
<1>4. /\ Pool(cfg, "train", c) = SetOf(IF train = <<>> THEN s ELSE train)
      /\ Pool(cfg, split, c) = SetOf(IF evaluation = <<>> THEN s ELSE evaluation)
  BY <1>2, <1>3 DEF Pool
<1> HIDE DEF s, n
<1>5. held \in 1 .. n - 1
  BY <1>1, <1>2, <1>3, SomeHeldOut
<1> HIDE DEF held
<1>6. /\ evaluation \in Seq(Groups[c]) /\ Len(evaluation) = held
      /\ \A i \in 1 .. held : evaluation[i] = s[i]
  BY <1>2, <1>3, <1>5, FirstPart DEF n
<1>7. /\ train \in Seq(Groups[c]) /\ Len(train) = n - held
      /\ \A i \in 1 .. n - held : train[i] = s[held + i]
  BY <1>2, <1>3, <1>5, SecondPart DEF n
<1> HIDE DEF train, evaluation
<1>8. /\ train # <<>> /\ DOMAIN train = 1 .. n - held
      /\ evaluation # <<>> /\ DOMAIN evaluation = 1 .. held
  BY <1>3, <1>5, <1>6, <1>7
<1>9. Pool(cfg, "train", c) = SetOf(train) /\ Pool(cfg, split, c) = SetOf(evaluation)
  BY <1>4, <1>8
<1>10. ASSUME NEW i \in 1 .. n - held, NEW j \in 1 .. held, train[i] = evaluation[j]
       PROVE  FALSE
  <2>1. held + i \in 1 .. n /\ j \in 1 .. n /\ held + i # j
    BY <1>3, <1>5
  <2>2. s[held + i] = s[j]
    BY <1>6, <1>7, <1>10
  <2> QED
    BY <1>2, <2>1, <2>2
<1> QED
  BY <1>8, <1>9, <1>10 DEF SetOf

-----------------------------------------------------------------------------
(* The inductive invariant: what a file, a model and the locals of each      *)
(* program hold, whoever wrote them and when.                                *)

\* The rows of a CSV file come from the pools of its split.
CsvOk(csv, split) ==
    /\ csv = [state |-> csv.state, cfg |-> csv.cfg, labels |-> csv.labels, used |-> csv.used]
    /\ csv.labels \in SUBSET (Labels \cup {Cut})
    /\ csv.labels # {} => csv.cfg \in Config
    /\ \A c \in CatalogCategories : csv.used[c] \subseteq Pool(csv.cfg, split, c)

\* The columns of a model are in order; it has seen the pools of training.
ModelOk(model) ==
    model.state = "whole" =>
        /\ model.columns \in Orders
        /\ model.cfg \in Config
        /\ \A c \in CatalogCategories : model.seen[c] \subseteq Pool(model.cfg, "train", c)

DataInv == data = [s \in Split |-> data[s]] /\ \A s \in Split : CsvOk(data[s], s)

PlanOk ==
    exporter.plan # Null =>
        /\ exporter.at <= 3 /\ Splits[exporter.at] \in Split
        /\ Plannable(exporter.cfg, Splits[exporter.at])
        /\ exporter.plan \in Plans(exporter.cfg, Splits[exporter.at])
        /\ CsvOk(exporter.csv, Splits[exporter.at]) /\ exporter.csv.cfg \in Config

ExporterInv ==
    exporter # Null =>
        /\ exporter = [cfg |-> exporter.cfg, at |-> exporter.at, plan |-> exporter.plan,
                       csv |-> exporter.csv]
        /\ exporter.cfg \in Config
        /\ PlanOk

ArtifactInv ==
    /\ artifact = [a \in ToSet(Artifacts) |-> artifact[a]]
    /\ \A a \in ToSet(Artifacts) : ModelOk(artifact[a])

TrainerInv ==
    trainer # Null =>
        /\ trainer = [model |-> trainer.model, at |-> trainer.at, open |-> trainer.open]
        /\ ModelOk(trainer.model)

\* The labels the service has loaded are all there are, in their order.
ServiceInv ==
    /\ service = [pc |-> service.pc, labels |-> service.labels, columns |-> service.columns]
    /\ service.pc \in {"loaded", "up"} =>
          service.labels \in Orders /\ ToSet(service.labels) = Labels
    /\ service.pc = "up" => service.columns \in Orders

ReportInv ==
    report # Null =>
        /\ report.labels \in Orders /\ report.columns \in Orders
        /\ Len(report.labels) = Len(report.columns)

IInv == DataInv /\ ExporterInv /\ ArtifactInv /\ TrainerInv /\ ServiceInv /\ ReportInv

LEMMA PoolOfNothing ==
    \A split \in Split : CsvOk(NoCsv, split)
BY DEF CsvOk, NoCsv, NoGroups

LEMMA InitIInv == Init => IInv
<1> SUFFICES ASSUME Init PROVE IInv
  OBVIOUS
<1>1. DataInv
  BY PoolOfNothing DEF Init, DataInv
<1>2. ExporterInv /\ TrainerInv /\ ReportInv
  BY DEF Init, ExporterInv, TrainerInv, ReportInv
<1>3. ArtifactInv
  <2>1. ModelOk(NoModel)
    BY DEF ModelOk, NoModel
  <2> QED
    BY <2>1 DEF Init, ArtifactInv
<1>4. ServiceInv
  BY DEF Init, ServiceInv, Down
<1> QED
  BY <1>1, <1>2, <1>3, <1>4 DEF IInv

\* What no step touches keeps its part of the invariant.
LEMMA Frames ==
    ASSUME IInv
    PROVE  /\ UNCHANGED data => DataInv'
           /\ UNCHANGED exporter => ExporterInv'
           /\ UNCHANGED artifact => ArtifactInv'
           /\ UNCHANGED trainer => TrainerInv'
           /\ UNCHANGED service => ServiceInv'
           /\ UNCHANGED report => ReportInv'
<1>1. UNCHANGED data => DataInv'
  BY DEF IInv, DataInv
<1>2. UNCHANGED exporter => ExporterInv'
  BY DEF IInv, ExporterInv, PlanOk
<1>3. UNCHANGED artifact => ArtifactInv'
  BY DEF IInv, ArtifactInv
<1>4. UNCHANGED trainer => TrainerInv'
  BY DEF IInv, TrainerInv
<1>5. UNCHANGED service => ServiceInv'
  BY DEF IInv, ServiceInv
<1>6. UNCHANGED report => ReportInv'
  BY DEF IInv, ReportInv
<1> QED
  BY <1>1, <1>2, <1>3, <1>4, <1>5, <1>6

LEMMA NoExporter == ASSUME exporter' = Null PROVE ExporterInv'
BY DEF ExporterInv

LEMMA PlannedLabels ==
    ASSUME NEW cfg \in Config, NEW split \in Split, NEW plan,
           NEW used \in Used(cfg, split, plan)
    PROVE  CsvOk([state |-> "whole", cfg |-> cfg, labels |-> LabelsOf(plan), used |-> used],
                 split)
<1>1. LabelsOf(plan) \in SUBSET (Labels \cup {Cut})
  BY DEF LabelsOf
<1>2. \A c \in CatalogCategories : used[c] \subseteq Pool(cfg, split, c)
  BY DEF Used
<1> QED
  BY <1>1, <1>2 DEF CsvOk

LEMMA PartIsOk ==
    ASSUME NEW csv, NEW split, CsvOk(csv, split), csv.cfg \in Config, NEW part \in PartsOf(csv)
    PROVE  CsvOk(part, split)
<1>1. PICK some \in SUBSET (csv.labels \cup {Cut}) :
         part = [csv EXCEPT !.state = "partial", !.labels = some,
                            !.used = [c \in CatalogCategories |->
                                         IF c \in some THEN csv.used[c] ELSE {}]]
  BY DEF PartsOf
<1> DEFINE used == [c \in CatalogCategories |-> IF c \in some THEN csv.used[c] ELSE {}]
<1>2. part = [state |-> "partial", cfg |-> csv.cfg, labels |-> some, used |-> used]
  BY <1>1 DEF CsvOk
<1>3. \A c \in CatalogCategories : used[c] \subseteq Pool(csv.cfg, split, c)
  BY DEF CsvOk
<1>4. some \in SUBSET (Labels \cup {Cut})
  BY DEF CsvOk
<1> HIDE DEF used
<1> QED
  BY <1>2, <1>3, <1>4 DEF CsvOk

\* A file that is overwritten by one of its split.
LEMMA OneCsv ==
    ASSUME DataInv, NEW split, NEW csv, CsvOk(csv, split),
           data' = [data EXCEPT ![split] = csv]
    PROVE  DataInv'
<1>1. data = [s \in Split |-> data[s]] /\ \A s \in Split : CsvOk(data[s], s)
  BY DEF DataInv
<1>2. data' = [s \in Split |-> data'[s]]
  BY <1>1
<1>3. \A s \in Split : data'[s] = IF s = split THEN csv ELSE data[s]
  BY <1>1
<1>4. \A s \in Split : CsvOk(data'[s], s)
  BY <1>1, <1>3
<1> QED
  BY <1>2, <1>4 DEF DataInv

LEMMA ExportStep ==
    ASSUME IInv, ExportNext
    PROVE  DataInv' /\ ExporterInv'
<1>1. ASSUME NEW cfg \in Configs, Export(cfg) PROVE DataInv' /\ ExporterInv'
  <2>1. exporter' = [cfg |-> cfg, at |-> 1, plan |-> Null, csv |-> Null]
    BY <1>1 DEF Export
  <2>2. cfg \in Config
    BY ArtifactsAssumption
  <2> QED
    BY <1>1, <2>1, <2>2, Frames DEF Export, ExporterInv, PlanOk
<1>2. ASSUME NEW split \in Split, GenerateSplit(split) PROVE DataInv' /\ ExporterInv'
  <2>1. /\ exporter # Null /\ split = Splits[exporter.at] /\ exporter.at <= 3
        /\ Plannable(exporter.cfg, split)
    BY <1>2 DEF GenerateSplit, Exporting
  <2>2. PICK plan \in Plans(exporter.cfg, split) : \E used \in Used(exporter.cfg, split, plan) :
           exporter' = [exporter EXCEPT !.plan = plan,
                           !.csv = [state |-> "whole", cfg |-> exporter.cfg,
                                    labels |-> LabelsOf(plan), used |-> used]]
    BY <1>2 DEF GenerateSplit
  <2>3. PICK used \in Used(exporter.cfg, split, plan) :
           exporter' = [exporter EXCEPT !.plan = plan,
                           !.csv = [state |-> "whole", cfg |-> exporter.cfg,
                                    labels |-> LabelsOf(plan), used |-> used]]
    BY <2>2
  <2>4. exporter.cfg \in Config
        /\ exporter = [cfg |-> exporter.cfg, at |-> exporter.at, plan |-> exporter.plan,
                       csv |-> exporter.csv]
    BY <2>1 DEF IInv, ExporterInv
  <2> DEFINE csv == [state |-> "whole", cfg |-> exporter.cfg,
                     labels |-> LabelsOf(plan), used |-> used]
  <2>5. CsvOk(csv, split) /\ csv.cfg \in Config
    BY <2>4, PlannedLabels
  <2>6. exporter' = [cfg |-> exporter.cfg, at |-> exporter.at, plan |-> plan, csv |-> csv]
    BY <2>3, <2>4
  <2> HIDE DEF csv
  <2>7. ExporterInv'
    BY <2>1, <2>4, <2>5, <2>6 DEF ExporterInv, PlanOk
  <2> QED
    BY <1>2, <2>7, Frames DEF GenerateSplit
<1>3. ASSUME NEW split \in Split, GenerateFails(split) PROVE DataInv' /\ ExporterInv'
  BY <1>3, NoExporter, Frames DEF GenerateFails
<1>4. ASSUME NEW split \in Split, WriteSplit(split) PROVE DataInv' /\ ExporterInv'
  <2>1. /\ exporter # Null /\ split = Splits[exporter.at] /\ exporter.plan # Null
        /\ data' = [data EXCEPT ![split] = exporter.csv]
        /\ exporter' = [exporter EXCEPT !.at = @ + 1, !.plan = Null, !.csv = Null]
    BY <1>4 DEF WriteSplit, Exporting
  <2>2. /\ exporter = [cfg |-> exporter.cfg, at |-> exporter.at, plan |-> exporter.plan,
                       csv |-> exporter.csv]
        /\ exporter.cfg \in Config /\ CsvOk(exporter.csv, split)
    BY <2>1 DEF IInv, ExporterInv, PlanOk
  <2>3. exporter' = [cfg |-> exporter.cfg, at |-> exporter.at + 1, plan |-> Null, csv |-> Null]
    BY <2>1, <2>2
  <2>4. ExporterInv'
    BY <2>2, <2>3 DEF ExporterInv, PlanOk
  <2>5. DataInv'
    BY <2>1, <2>2, OneCsv DEF IInv
  <2> QED
    BY <2>4, <2>5
<1>5. CASE OpenExportMetadata
  <2>1. exporter # Null /\ exporter.at = 4 /\ exporter' = [exporter EXCEPT !.at = 5]
    BY <1>5 DEF OpenExportMetadata
  <2>2. /\ exporter = [cfg |-> exporter.cfg, at |-> exporter.at, plan |-> exporter.plan,
                       csv |-> exporter.csv]
        /\ exporter.cfg \in Config /\ PlanOk
    BY <2>1 DEF IInv, ExporterInv
  <2>3. exporter.plan = Null
    <3>1. ~ (4 <= 3)
      OBVIOUS
    <3> QED
      BY <2>1, <2>2, <3>1 DEF PlanOk
  <2>4. exporter' = [cfg |-> exporter.cfg, at |-> 5, plan |-> Null, csv |-> exporter.csv]
    BY <2>1, <2>2, <2>3
  <2>5. ExporterInv'
    BY <2>2, <2>4 DEF ExporterInv, PlanOk
  <2> QED
    BY <1>5, <2>5, Frames DEF OpenExportMetadata
<1>6. CASE WriteExportMetadata
  BY <1>6, NoExporter, Frames DEF WriteExportMetadata
<1>7. CASE ExportDies
  <2>1. exporter # Null /\ exporter' = Null
    BY <1>7 DEF ExportDies
  <2>2. CASE UNCHANGED data
    BY <2>1, <2>2, NoExporter, Frames
  <2>3. ASSUME exporter.plan # Null, NEW part \in PartsOf(exporter.csv),
               data' = [data EXCEPT ![Splits[exporter.at]] = part]
        PROVE  DataInv'
    <3>1. CsvOk(exporter.csv, Splits[exporter.at]) /\ exporter.csv.cfg \in Config
      BY <2>1, <2>3 DEF IInv, ExporterInv, PlanOk
    <3>2. CsvOk(part, Splits[exporter.at])
      BY <3>1, PartIsOk
    <3> QED
      BY <2>3, <3>2, OneCsv DEF IInv
  <2> QED
    BY <1>7, <2>1, <2>2, <2>3, NoExporter DEF ExportDies
<1> QED
  BY <1>1, <1>2, <1>3, <1>4, <1>5, <1>6, <1>7 DEF ExportNext

\* The columns of a model are an order of the labels it was trained with.
LEMMA TrainStep ==
    ASSUME IInv, Train
    PROVE  TrainerInv'
<1> DEFINE csv == data["train"]
           model == [state |-> "whole", columns |-> Classes(csv.labels),
                     seen |-> csv.used, cfg |-> csv.cfg]
<1>1. trainer' = [model |-> model, at |-> 1, open |-> FALSE] /\ csv.labels # {}
  BY DEF Train, Readable
<1>2. CsvOk(csv, "train")
  BY DEF IInv, DataInv, Split
<1> HIDE DEF csv
<1>3. Classes(csv.labels) \in Orders
  BY <1>2 DEF CsvOk, Orders
<1>4. csv.cfg \in Config /\ \A c \in CatalogCategories : csv.used[c] \subseteq Pool(csv.cfg, "train", c)
  BY <1>1, <1>2 DEF CsvOk
<1>5. ModelOk(model)
  BY <1>3, <1>4 DEF ModelOk
<1> HIDE DEF model
<1> QED
  BY <1>1, <1>5 DEF TrainerInv

\* An artifact that is overwritten.
LEMMA OneArtifact ==
    ASSUME ArtifactInv, NEW a, NEW model, ModelOk(model),
           artifact' = [artifact EXCEPT ![a] = model]
    PROVE  ArtifactInv'
<1>1. /\ artifact = [b \in ToSet(Artifacts) |-> artifact[b]]
      /\ \A b \in ToSet(Artifacts) : ModelOk(artifact[b])
  BY DEF ArtifactInv
<1>2. artifact' = [b \in ToSet(Artifacts) |-> artifact'[b]]
  BY <1>1
<1>3. \A b \in ToSet(Artifacts) : artifact'[b] = IF b = a THEN model ELSE artifact[b]
  BY <1>1
<1>4. \A b \in ToSet(Artifacts) : ModelOk(artifact'[b])
  BY <1>1, <1>3
<1> QED
  BY <1>2, <1>4 DEF ArtifactInv

LEMMA ArtifactStep ==
    ASSUME IInv, OpenArtifact \/ WriteArtifact \/ TrainDies
    PROVE  ArtifactInv' /\ TrainerInv'
<1>1. CASE OpenArtifact
  <2>1. /\ trainer # Null /\ trainer' = [trainer EXCEPT !.open = TRUE]
        /\ artifact' = [artifact EXCEPT ![Artifacts[trainer.at]] =
                           [NoModel EXCEPT !.state = "partial"]]
    BY <1>1 DEF OpenArtifact
  <2>2. ModelOk([NoModel EXCEPT !.state = "partial"])
    BY DEF ModelOk, NoModel
  <2>3. trainer = [model |-> trainer.model, at |-> trainer.at, open |-> trainer.open]
        /\ ModelOk(trainer.model)
    BY <2>1 DEF IInv, TrainerInv
  <2>4. trainer' = [model |-> trainer.model, at |-> trainer.at, open |-> TRUE]
    BY <2>1, <2>3
  <2>5. TrainerInv'
    BY <2>3, <2>4 DEF TrainerInv
  <2> QED
    BY <2>1, <2>2, <2>5, OneArtifact DEF IInv
<1>2. CASE WriteArtifact
  <2>1. /\ trainer # Null
        /\ artifact' = [artifact EXCEPT ![Artifacts[trainer.at]] = trainer.model]
        /\ trainer' = IF trainer.at = Len(Artifacts) THEN Null
                      ELSE [trainer EXCEPT !.at = @ + 1, !.open = FALSE]
    BY <1>2 DEF WriteArtifact
  <2>2. trainer = [model |-> trainer.model, at |-> trainer.at, open |-> trainer.open]
        /\ ModelOk(trainer.model)
    BY <2>1 DEF IInv, TrainerInv
  <2>3. trainer' = Null
        \/ trainer' = [model |-> trainer.model, at |-> trainer.at + 1, open |-> FALSE]
    BY <2>1, <2>2
  <2>4. TrainerInv'
    BY <2>2, <2>3 DEF TrainerInv
  <2> QED
    BY <2>1, <2>2, <2>4, OneArtifact DEF IInv
<1>3. CASE TrainDies
  BY <1>3, Frames DEF TrainDies, TrainerInv
<1> QED
  BY <1>1, <1>2, <1>3

LEMMA ServiceStep ==
    ASSUME IInv, Load \/ CreateSession \/ Restart
    PROVE  ServiceInv'
<1>1. \A a \in {"labels", "onnx"} : artifact[a].state = "whole" => artifact[a].columns \in Orders
  <2>1. {"labels", "onnx"} \subseteq ToSet(Artifacts)
    <3>1. /\ Artifacts[3] = "labels" /\ Artifacts[2] = "onnx"
          /\ DOMAIN Artifacts = 1 .. 5
      BY DEF Artifacts
    <3> QED
      BY <3>1 DEF ToSet
  <2> QED
    BY <2>1 DEF IInv, ArtifactInv, ModelOk
<1>2. ASSUME service' = Down PROVE ServiceInv'
  BY <1>2 DEF ServiceInv, Down
<1>3. CASE Load
  <2>1. /\ service' = [pc |-> "loaded", labels |-> artifact["labels"].columns, columns |-> <<>>]
        /\ artifact["labels"].state = "whole"
        /\ ToSet(artifact["labels"].columns) = Labels
    BY <1>3 DEF Load, Down, ExactLabels
  <2>2. artifact["labels"].columns \in Orders
    BY <1>1, <2>1
  <2> QED
    BY <2>1, <2>2 DEF ServiceInv
<1>4. CASE CreateSession
  <2>1. CASE artifact["onnx"].state = "whole"
    <3>1. service' = [service EXCEPT !.pc = "up", !.columns = artifact["onnx"].columns]
          /\ service.pc = "loaded"
      BY <1>4, <2>1 DEF CreateSession
    <3>2. /\ service = [pc |-> service.pc, labels |-> service.labels,
                        columns |-> service.columns]
          /\ service.labels \in Orders /\ ToSet(service.labels) = Labels
      BY <3>1 DEF IInv, ServiceInv
    <3>3. service' = [pc |-> "up", labels |-> service.labels,
                      columns |-> artifact["onnx"].columns]
      BY <3>1, <3>2
    <3>4. artifact["onnx"].columns \in Orders
      BY <1>1, <2>1
    <3> QED
      BY <3>2, <3>3, <3>4 DEF ServiceInv
  <2>2. CASE artifact["onnx"].state # "whole"
    BY <1>2, <1>4, <2>2 DEF CreateSession
  <2> QED
    BY <2>1, <2>2
<1>5. CASE Restart
  BY <1>2, <1>5 DEF Restart
<1> QED
  BY <1>3, <1>4, <1>5

LEMMA EvaluateStep ==
    ASSUME IInv, NEW split, Evaluate(split)
    PROVE  ReportInv'
<1>1. \A a \in {"labels", "onnx"} : artifact[a].columns \in Orders
  <2>1. {"labels", "onnx"} \subseteq ToSet(Artifacts)
    <3>1. /\ Artifacts[3] = "labels" /\ Artifacts[2] = "onnx"
          /\ DOMAIN Artifacts = 1 .. 5
      BY DEF Artifacts
    <3> QED
      BY <3>1 DEF ToSet
  <2>2. \A a \in {"labels", "onnx"} : artifact[a].state = "whole"
    BY DEF Evaluate
  <2> QED
    BY <2>1, <2>2 DEF IInv, ArtifactInv, ModelOk
<1>2. /\ report' = [labels |-> artifact["labels"].columns, columns |-> artifact["onnx"].columns]
      /\ Len(artifact["onnx"].columns) = Len(artifact["labels"].columns)
  BY DEF Evaluate, HasProbabilities
<1> QED
  BY <1>1, <1>2 DEF ReportInv

LEMMA NextIInv == IInv /\ [Next]_vars => IInv'
<1> SUFFICES ASSUME IInv, [Next]_vars PROVE IInv'
  OBVIOUS
<1>1. CASE ExportNext
  <2>1. UNCHANGED <<artifact, trainer, service, report>>
    BY <1>1 DEF ExportNext, ExportVars, Export, GenerateSplit, GenerateFails, WriteSplit,
                OpenExportMetadata, WriteExportMetadata, ExportDies
  <2> QED
    BY <1>1, <2>1, ExportStep, Frames DEF IInv
<1>2. CASE Train
  <2>1. UNCHANGED <<data, exporter, artifact, service, report>>
    BY <1>2 DEF Train, TrainVars
  <2> QED
    BY <1>2, <2>1, TrainStep, Frames DEF IInv
<1>3. CASE OpenArtifact \/ WriteArtifact \/ TrainDies
  <2>1. UNCHANGED <<data, exporter, service, report>>
    BY <1>3 DEF OpenArtifact, WriteArtifact, TrainDies, TrainVars
  <2> QED
    BY <1>3, <2>1, ArtifactStep, Frames DEF IInv
<1>4. CASE Load \/ CreateSession \/ Restart
  <2>1. UNCHANGED <<data, exporter, artifact, trainer, report>>
    BY <1>4 DEF Load, CreateSession, Restart, ServiceVars
  <2> QED
    BY <1>4, <2>1, ServiceStep, Frames DEF IInv
<1>5. ASSUME NEW split \in Split, Evaluate(split) PROVE IInv'
  <2>1. UNCHANGED <<data, exporter, artifact, trainer, service>>
    BY <1>5 DEF Evaluate
  <2>2. ReportInv'
    BY <1>5, EvaluateStep
  <2> QED
    BY <2>1, <2>2, Frames DEF IInv
<1>6. CASE UNCHANGED vars
  BY <1>6, Frames DEF vars, IInv
<1> QED
  BY <1>1, <1>2, <1>3, <1>4, <1>5, <1>6 DEF Next

\* What every file, model and program of the tool chain holds, in every state
\* that exports, trainings, deaths and restarts reach.
THEOREM ArtifactsInvariant == Spec => []IInv
<1>1. Init => IInv
  BY InitIInv
<1>2. IInv /\ [Next]_vars => IInv'
  BY NextIInv
<1> QED
  BY <1>1, <1>2, PTL DEF Spec

-----------------------------------------------------------------------------
(* What follows from the invariant.                                        *)

\* Every row the exporter plans is asked for, and a category is within one row
\* of its share: for any catalog, any shares and any size of a data set.
THEOREM SharesKept == Spec => []SharesAreKept
<1>1. IInv => SharesAreKept
  <2> SUFFICES ASSUME IInv, exporter # Null, exporter.plan # Null
               PROVE  /\ SumOf(exporter.plan) = Total(exporter.cfg, Splits[exporter.at])
                      /\ exporter.cfg.profile = "realistic" /\ SumOf(Share) = 100 =>
                            \A c \in Labels : 100 * exporter.plan[c] \in
                               Share[c] * SumOf(exporter.plan) - 99
                                  .. Share[c] * SumOf(exporter.plan) + 99
    BY DEF SharesAreKept
  <2>1. /\ exporter.cfg \in Config /\ Splits[exporter.at] \in Split
        /\ Plannable(exporter.cfg, Splits[exporter.at])
        /\ exporter.plan \in Plans(exporter.cfg, Splits[exporter.at])
    BY DEF IInv, ExporterInv, PlanOk
  <2> QED
    BY <2>1, PlansKeepShares
<1> QED
  BY <1>1, ArtifactsInvariant, PTL

\* With merchants held out, none that a model was trained on is in the
\* validation or test file of its configuration: for any number of groups, any
\* ratio, any shuffle, and any runs that overwrote the files since.
THEOREM NoLeaks == Spec => []NoMerchantLeaks
<1>1. IInv => NoMerchantLeaks
  <2> DEFINE model == artifact["pipeline"]
  <2> SUFFICES ASSUME IInv, NEW s \in {"validation", "test"}, NEW c \in CatalogCategories,
                      model.state = "whole", data[s].cfg = model.cfg,
                      model.cfg.strategy = "holdout", Cardinality(Groups[c]) > 1
               PROVE  model.seen[c] \cap data[s].used[c] = {}
    BY DEF NoMerchantLeaks
  <2>1. model.cfg \in Config /\ model.seen[c] \subseteq Pool(model.cfg, "train", c)
    <3>1. "pipeline" \in ToSet(Artifacts)
      <4>1. Artifacts[1] = "pipeline" /\ DOMAIN Artifacts = 1 .. 5
        BY DEF Artifacts
      <4> QED
        BY <4>1 DEF ToSet
    <3> QED
      BY <3>1 DEF IInv, ArtifactInv, ModelOk
  <2>2. data[s].used[c] \subseteq Pool(model.cfg, s, c)
    <3>1. s \in Split
      BY DEF Split
    <3> QED
      BY <3>1 DEF IInv, DataInv, CsvOk
  <2>3. Pool(model.cfg, "train", c) \cap Pool(model.cfg, s, c) = {}
    BY <2>1, PoolsAreDisjoint
  <2> QED
    BY <2>1, <2>2, <2>3
<1> QED
  BY <1>1, ArtifactsInvariant, PTL

\* The service answers under the labels the columns were trained with, and a
\* report with all the labels is about them, whatever trainings the files come
\* from: as many columns as labels, none cut, are the labels in their order.
THEOREM LabelledAnswers == Spec => []AnswersAreLabelled
<1>1. IInv => AnswersAreLabelled
  <2> SUFFICES ASSUME IInv
               PROVE  /\ Answers /\ Cut \notin ToSet(service.columns)
                            => service.labels = service.columns
                      /\ report # Null /\ ToSet(report.labels) = Labels
                            /\ Cut \notin ToSet(report.columns)
                            => report.labels = report.columns
    BY DEF AnswersAreLabelled
  <2>1. ASSUME Answers, Cut \notin ToSet(service.columns)
        PROVE  service.labels = service.columns
    <3>1. /\ service.labels \in Orders /\ ToSet(service.labels) = Labels
          /\ service.columns \in Orders /\ Len(service.labels) = Len(service.columns)
      BY <2>1 DEF IInv, ServiceInv, Answers
    <3> QED
      BY <2>1, <3>1, SameOrder
  <2>2. ASSUME report # Null, ToSet(report.labels) = Labels, Cut \notin ToSet(report.columns)
        PROVE  report.labels = report.columns
    <3>1. /\ report.labels \in Orders /\ report.columns \in Orders
          /\ Len(report.labels) = Len(report.columns)
      BY <2>2 DEF IInv, ReportInv
    <3> QED
      BY <2>2, <3>1, SameOrder
  <2> QED
    BY <2>1, <2>2
<1> QED
  BY <1>1, ArtifactsInvariant, PTL
=============================================================================
