--------------------------- MODULE MCModelArtifacts ---------------------------
EXTENDS ModelArtifacts

CONSTANTS g1, g2, g3, g4

\* BANKING, FOOD and UNDEFINED by name; the catalog begins with FOOD.
MCCatalog == <<2, 1>>
MCGroups == [c \in {1, 2} |-> IF c = 1 THEN {g1, g2, g3} ELSE {g4}]
MCShare == [c \in {1, 2, 3} |-> CASE c = 1 -> 50 [] c = 2 -> 30 [] c = 3 -> 20]
MCSeeds == {0, 1}
MCShuffle == [seed \in MCSeeds |-> [c \in {1, 2} |->
    IF c = 2 THEN <<g4>> ELSE IF seed = 0 THEN <<g2, g3, g1>> ELSE <<g1, g2, g3>>]]

Base == [profile |-> "realistic", strategy |-> "holdout",
         perCategory |-> [s \in Split |-> 1], size |-> [s \in Split |-> 2],
         amountMin |-> 10, amountMax |-> 50, users |-> 1, ratio |-> 18, seed |-> 0]

\* Two categories only (the third has too small a share); all of them, with all
\* but one group held out; a validation split that cannot be planned.
MCConfigs == {
    [Base EXCEPT !.seed = 1],
    [Base EXCEPT !.profile = "balanced", !.ratio = 99],
    [Base EXCEPT !.strategy = "mixed", !.size["train"] = 3, !.size["validation"] = 0],
    [Base EXCEPT !.ratio = 100]}
=============================================================================
