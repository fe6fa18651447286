----------------------------- MODULE RulesLoader -----------------------------
(***************************************************************************)
(* The rules file of the classifier service: what RulesLoader.load makes   *)
(* of it, and which files it refuses (the service then does not start).    *)
(*                                                                         *)
(* Confidences are doubles (JavaDoubles), Unit standing for 1.0; a rules   *)
(* file can also say NaN or Infinity, which Jackson takes for a double    *)
(* and which the loader's < and > do not all refuse.  A text is the set of *)
(* words it contains as substrings, so the normaliser is only asked which  *)
(* word a line of the file stands for.                                     *)
(***************************************************************************)
EXTENDS JavaDoubles, Sequences, FiniteSets

CONSTANTS
    Categories,   \* TransactionCategory
    Codes,        \* MCC codes, trimmed; Blank is the empty one
    Words,        \* normalised words
    RawWords,     \* words as written in the file
    normalize,    \* [RawWords -> Words \cup {Blank}]
    Blank,        \* the empty string
    Unsupported,  \* a category name that is not in the enum, or none
    Unit

ConfidenceConfig ==
    [mccBaseConfirmed: Double, mccBaseUnconfirmed: Double, keywordBase: Double,
     boostPerMatch: Double, contradictionPenalty: Double, mccMin: Double,
     max: Double]

MccEntry == [code: Codes \cup {Blank}, category: Categories \cup {Unsupported}]
KeywordEntry == [category: Categories \cup {Unsupported}, words: SUBSET RawWords]
RulesDocument == [mcc: Seq(MccEntry), keywords: Seq(KeywordEntry),
                  confidence: ConfidenceConfig]

ASSUME RulesAssumption ==
    /\ IsFiniteSet(Words)
    /\ normalize \in [RawWords -> Words \cup {Blank}]
    /\ Unit \in Nat
    /\ Blank \notin Words \cup Codes
    /\ Unsupported \notin Categories

\* x < 0.0 || x > most is false: so it is for x = NaN, and for most = NaN.
NotOutside(x, most) == ~Less(x, 0) /\ ~Less(most, x)

\* Mutants: a check of validateConfidence left out.
MinAboveMaxAllowed(c) ==
    /\ NotOutside(c.max, Unit)
    /\ NotOutside(c.mccBaseConfirmed, c.max)
    /\ NotOutside(c.mccBaseUnconfirmed, c.max)
    /\ ~Less(c.mccBaseConfirmed, c.mccBaseUnconfirmed)
    /\ ~Less(c.mccMin, 0)
    /\ NotOutside(c.keywordBase, c.max)
    /\ ~Less(c.boostPerMatch, 0) /\ ~Less(c.contradictionPenalty, 0)
UnconfirmedAboveConfirmedAllowed(c) ==
    /\ NotOutside(c.max, Unit)
    /\ NotOutside(c.mccBaseConfirmed, c.max)
    /\ NotOutside(c.mccBaseUnconfirmed, c.max)
    /\ NotOutside(c.mccMin, c.max) /\ ~Less(c.mccBaseUnconfirmed, c.mccMin)
    /\ NotOutside(c.keywordBase, c.max)
    /\ ~Less(c.boostPerMatch, 0) /\ ~Less(c.contradictionPenalty, 0)

\* validateConfidence does not throw.
ValidConfidence(c) ==
    /\ NotOutside(c.max, Unit)
    /\ NotOutside(c.mccBaseConfirmed, c.max)
    /\ NotOutside(c.mccBaseUnconfirmed, c.max)
    /\ ~Less(c.mccBaseConfirmed, c.mccBaseUnconfirmed)
    /\ NotOutside(c.mccMin, c.max)
    /\ ~Less(c.mccBaseUnconfirmed, c.mccMin)
    /\ NotOutside(c.keywordBase, c.max)
    /\ ~Less(c.boostPerMatch, 0)
    /\ ~Less(c.contradictionPenalty, 0)

\* Mutant: an unknown category is let through.
KeywordsUnchecked(doc) == doc.keywords \in Seq(KeywordEntry)

\* buildMccRules and parseCategory do not throw.
ValidMcc(doc) ==
    \A n \in DOMAIN doc.mcc : /\ doc.mcc[n].code # Blank
                              /\ doc.mcc[n].category \in Categories
ValidKeywords(doc) ==
    \A n \in DOMAIN doc.keywords : doc.keywords[n].category \in Categories

Loads(doc) == ValidConfidence(doc.confidence) /\ ValidMcc(doc) /\ ValidKeywords(doc)

\* The map of MCC codes: of two entries for a code the later one counts.
MccRule(doc, code, c) ==
    \E n \in DOMAIN doc.mcc :
        /\ doc.mcc[n].code = code /\ doc.mcc[n].category = c
        /\ \A m \in DOMAIN doc.mcc : doc.mcc[m].code = code => m <= n

\* The words of a category, from all its entries, normalised, each once.
KeywordRules(doc, c) ==
    {normalize[raw] : raw \in UNION {doc.keywords[n].words :
         n \in {m \in DOMAIN doc.keywords : doc.keywords[m].category = c}}} \ {Blank}

\* keywordPriority is a LinkedHashSet: a category counts where it first occurs.
FirstOccurrence(doc, n) ==
    \A m \in 1 .. n - 1 : doc.keywords[m].category # doc.keywords[n].category
=============================================================================
