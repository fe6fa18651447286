---------------------------- MODULE MCRuleEngine ----------------------------
(* Rules files for TLC: the shipped confidences and a grid that crosses      *)
(* every check of the loader, with numbers that are none, over small sets    *)
(* of MCC and keyword rules.                                                 *)
EXTENDS RuleEngine

CONSTANTS food, transport, undefined, mcc1, mcc2,
          coffee, metro, ticket, Coffee, dash

\* "Coffee" normalises to coffee, a dash to nothing.
MCNormalize == [w \in RawWords |-> IF w = Coffee THEN coffee
                                   ELSE IF w = dash THEN Blank ELSE w]

Shipped == [mccBaseConfirmed |-> 95, mccBaseUnconfirmed |-> 75,
            keywordBase |-> 85, boostPerMatch |-> 5,
            contradictionPenalty |-> 7, mccMin |-> 55, max |-> 99]

Grid == [mccBaseConfirmed: {50, 100}, mccBaseUnconfirmed: {-1, 50, 100},
         keywordBase: {0, 60}, boostPerMatch: {-1, 30},
         contradictionPenalty: {-1, 40}, mccMin: {-1, 0, 100},
         max: {50, 100, 101}]

\* The shipped file with one number that is none, and, for a maximum that is
\* none, with an infinite one beside it.
Specials == {[Shipped EXCEPT ![f] = v] :
                 f \in DOMAIN Shipped, v \in {NaN, PosInf, NegInf}}
            \cup {[Shipped EXCEPT !.max = NaN, ![f] = PosInf] : f \in DOMAIN Shipped}

Mcc(code, c) == [code |-> code, category |-> c]
Key(c, ws) == [category |-> c, words |-> ws]

MccShapes == {<<Mcc(mcc1, food)>>,
              <<Mcc(mcc1, food), Mcc(mcc2, undefined), Mcc(mcc1, transport)>>,
              <<Mcc(Blank, food)>>, <<Mcc(mcc2, Unsupported)>>}
KeywordShapes ==
    {<<>>, <<Key(Unsupported, {coffee})>>,
     <<Key(food, {coffee, Coffee, dash}), Key(transport, {metro, ticket}),
       Key(food, {ticket})>>,
     <<Key(transport, {metro}), Key(food, {coffee}), Key(undefined, {ticket})>>}

MCDocuments == [mcc: MccShapes, keywords: KeywordShapes,
                confidence: Grid \cup {Shipped} \cup Specials]
MCTexts == SUBSET Words
=============================================================================
