------------------------------ MODULE RuleEngine ------------------------------
(***************************************************************************)
(* The rule strategy of the classifier service: start-up with a rules      *)
(* file, then one classification after the other.  The loop over           *)
(* keywordPriority is a step per category, so that what it maintains can   *)
(* be stated.                                                              *)
(***************************************************************************)
EXTENDS RulesLoader

CONSTANTS Documents,  \* the rules files considered
          Texts,      \* the texts considered, as the words they contain
          Undefined,  \* TransactionCategory.UNDEFINED
          Null

ASSUME EngineAssumption ==
    /\ Documents \subseteq RulesDocument
    /\ Texts \subseteq SUBSET Words
    /\ Undefined \in Categories
    /\ Null \notin Categories \cup Codes

VARIABLES
    document,  \* the rules file
    phase,     \* of the service: starting, refused, up, scanning keywords
    input,     \* the request being classified, or the last one
    next,      \* loop position in keywordPriority
    best,      \* best candidate so far
    decision   \* the last answer

vars == <<document, phase, input, next, best, decision>>

Input == [code: Codes \cup {Null}, text: Texts]
Candidate == [category: Categories, hits: Nat, confidence: Double]
Decision == [category: Categories, confidence: Double]

TypeOK ==
    /\ document \in Documents
    /\ phase \in {"starting", "refused", "up", "scanning"}
    /\ input \in Input \cup {<<>>}
    /\ next \in Nat
    /\ best \in Candidate \cup {<<>>}
    /\ decision \in Decision \cup {<<>>}

Init ==
    /\ document \in Documents
    /\ phase = "starting"
    /\ input = <<>> /\ next = 0 /\ best = <<>> /\ decision = <<>>

\* countKeywordHits, maxOtherCategoryHits.
Hits(doc, c, text) == Cardinality(KeywordRules(doc, c) \cap text)
HasKeywords(doc, c) == \E n \in DOMAIN doc.keywords : doc.keywords[n].category = c
OtherHits(doc, c, text) ==
    {0} \cup {Hits(doc, o, text) : o \in {d \in Categories \ {c} : HasKeywords(doc, d)}}
MaxOtherHits(doc, c, text) ==
    CHOOSE m \in OtherHits(doc, c, text) : \A k \in OtherHits(doc, c, text) : k <= m

Cap(config, v) == Smaller(v, config.max)
CapMcc(config, v) == Larger(config.mccMin, Cap(config, v))

MccConfidence(config, same, other) ==
    CapMcc(config,
           Plus(Plus(IF same > 0 THEN config.mccBaseConfirmed
                                 ELSE config.mccBaseUnconfirmed,
                     Times(config.boostPerMatch, same)),
                Opposite(Times(config.contradictionPenalty, other))))

KeywordConfidence(config, hits) ==
    Cap(config, Plus(config.keywordBase, Times(config.boostPerMatch, hits)))

\* The answers for a text: with category c by MCC, and c as a candidate.
MccDecision(doc, c, text) ==
    [category |-> c,
     confidence |-> MccConfidence(doc.confidence, Hits(doc, c, text),
                                  MaxOtherHits(doc, c, text))]
CandidateFor(doc, c, text) ==
    [category |-> c, hits |-> Hits(doc, c, text),
     confidence |-> KeywordConfidence(doc.confidence, Hits(doc, c, text))]

-----------------------------------------------------------------------------
Load ==
    /\ phase = "starting" /\ Loads(document)
    /\ phase' = "up"
    /\ UNCHANGED <<document, input, next, best, decision>>

\* The constructor throws: the service does not start.
Refuse ==
    /\ phase = "starting" /\ ~Loads(document)
    /\ phase' = "refused"
    /\ UNCHANGED <<document, input, next, best, decision>>

\* resolveByMcc finds a category: it is the answer.
ClassifyByMcc(code, text) ==
    /\ phase = "up"
    /\ input' = [code |-> code, text |-> text]
    /\ \E c \in Categories :
          /\ MccRule(document, code, c)
          /\ decision' = MccDecision(document, c, text)
    /\ UNCHANGED <<document, phase, next, best>>

BeginScan(code, text) ==
    /\ phase = "up"
    /\ \A c \in Categories : ~MccRule(document, code, c)
    /\ input' = [code |-> code, text |-> text]
    /\ phase' = "scanning"
    /\ next' = 1
    /\ best' = <<>>
    /\ UNCHANGED <<document, decision>>

\* Mutant: >= for >, the last of equals wins.
BeatsOrEquals(c) == best = <<>> \/ ~Less(c.confidence, best.confidence)

\* A candidate replaces the best one so far.  (Double.compare takes NaN for
\* equal to NaN.)
Beats(c) ==
    \/ best = <<>>
    \/ Less(best.confidence, c.confidence)
    \/ c.confidence = best.confidence /\ c.hits > best.hits

\* One turn of the loop over keywordPriority.
Scan ==
    /\ phase = "scanning" /\ next <= Len(document.keywords)
    /\ LET c == CandidateFor(document, document.keywords[next].category, input.text) IN
       best' = IF FirstOccurrence(document, next) /\ c.hits > 0 /\ Beats(c)
               THEN c ELSE best
    /\ next' = next + 1
    /\ UNCHANGED <<document, phase, input, decision>>

Finish ==
    /\ phase = "scanning" /\ next > Len(document.keywords)
    /\ phase' = "up"
    /\ decision' = IF best = <<>> THEN [category |-> Undefined, confidence |-> 0]
                   ELSE [category |-> best.category, confidence |-> best.confidence]
    /\ UNCHANGED <<document, input, next, best>>

Next ==
    \/ Load \/ Refuse \/ Scan \/ Finish
    \/ \E code \in Codes \cup {Null}, text \in Texts :
          ClassifyByMcc(code, text) \/ BeginScan(code, text)

Spec == Init /\ [][Next]_vars

-----------------------------------------------------------------------------
(* What the core service relies on.                                        *)

\* The file's confidences are finite numbers.
Finite(c) == {c.mccBaseConfirmed, c.mccBaseUnconfirmed, c.keywordBase,
              c.boostPerMatch, c.contradictionPenalty, c.mccMin, c.max} \subseteq Int

\* With every rules file the loader accepts, a confidence is a probability and
\* does not exceed the file's maximum: boosts, penalties and the MCC floor can
\* not carry it out of the range (validateConfidence with cap and capMcc).
\* Only a file that says NaN or Infinity somewhere can make it NaN.
ConfidenceInRange ==
    decision # <<>> =>
        \/ decision.confidence \in 0 .. Unit
              /\ ~Less(document.confidence.max, decision.confidence)
        \/ decision.confidence = NaN /\ ~Finite(document.confidence)

\* The category an answered request got by its MCC code.
AnsweredByMcc(c) ==
    /\ phase = "up" /\ decision # <<>> /\ input # <<>>
    /\ MccRule(document, input.code, c) /\ decision.category = c

\* Support never hurts and contradiction never helps an MCC decision: a text
\* with at least its matches and at most its contradictions gets at least its
\* confidence, across the switch from the unconfirmed to the confirmed base.
\* (With mcc_base_confirmed = NaN, which the loader accepts, a match hurts.)
SupportNeverHurts ==
    \A c \in Categories : AnsweredByMcc(c) /\ Finite(document.confidence) =>
        \A text \in Texts :
            /\ Hits(document, c, text) >= Hits(document, c, input.text)
            /\ MaxOtherHits(document, c, text) <= MaxOtherHits(document, c, input.text)
            => MccDecision(document, c, text).confidence >= decision.confidence

\* Category c stands in keywordPriority before category d.
Precedes(doc, c, d) ==
    \E n \in DOMAIN doc.keywords :
        /\ doc.keywords[n].category = c
        /\ \A m \in 1 .. n : doc.keywords[m].category # d

\* Category c has more matches in the text than d, or as many and stands first.
Leads(doc, c, d, text) ==
    \/ Hits(doc, d, text) < Hits(doc, c, text)
    \/ Hits(doc, d, text) = Hits(doc, c, text) /\ Precedes(doc, c, d)

\* Without an MCC rule the answer is the category with most matches, the first
\* in the file among equals, and UNDEFINED exactly when nothing matches: the
\* cap on the confidence, which makes candidates equal, does not change that.
KeywordDecisionIsBest ==
    (/\ phase = "up" /\ decision # <<>> /\ input # <<>>
     /\ \A c \in Categories : ~MccRule(document, input.code, c))
    => LET c == decision.category  hits == Hits(document, c, input.text) IN
       \/ /\ hits > 0
          /\ decision.confidence = KeywordConfidence(document.confidence, hits)
          /\ \A d \in Categories \ {c} : Leads(document, c, d, input.text)
       \/ /\ c = Undefined /\ decision.confidence = 0
          /\ \A d \in Categories : Hits(document, d, input.text) = 0

-----------------------------------------------------------------------------
(* What the documentation says and the code does not do.                   *)

\* docs/services/classifier-service.md: the answer's confidence is in the
\* range 0.0 to 1.0.
AnswersAreProbabilities ==
    decision # <<>> => decision.confidence \in 0 .. Unit
=============================================================================
