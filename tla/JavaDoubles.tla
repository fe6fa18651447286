----------------------------- MODULE JavaDoubles -----------------------------
(***************************************************************************)
(* Java's double, as far as the rule strategy can tell its values apart:   *)
(* finite numbers are integers (hundredths; their rounding is left out),   *)
(* and there are the three values that are no finite numbers, with which   *)
(* comparisons, sums and Math.min and Math.max behave in their own way.    *)
(***************************************************************************)
EXTENDS Integers

CONSTANTS NaN, PosInf, NegInf

ASSUME DoublesAssumption ==
    /\ NaN \notin Int /\ PosInf \notin Int /\ NegInf \notin Int
    /\ NaN # PosInf /\ NaN # NegInf /\ PosInf # NegInf

Double == Int \cup {NaN, PosInf, NegInf}

\* a < b: false whenever one of them is NaN.
Less(a, b) ==
    \/ a \in Int /\ b \in Int /\ a < b
    \/ a = NegInf /\ b \in Int \cup {PosInf}
    \/ a \in Int /\ b = PosInf

Plus(a, b) ==
    IF a \in Int /\ b \in Int THEN a + b
    ELSE IF a = NaN \/ b = NaN \/ {a, b} = {PosInf, NegInf} THEN NaN
    ELSE IF a \in Int THEN b ELSE a

Opposite(a) ==
    IF a \in Int THEN -a
    ELSE IF a = PosInf THEN NegInf ELSE IF a = NegInf THEN PosInf ELSE NaN

\* a * n for a count n: infinity times none is NaN.
Times(a, n) == IF a \in Int THEN a * n ELSE IF n = 0 THEN NaN ELSE a

\* Math.min and Math.max: NaN if one of them is.
Smaller(a, b) == IF a = NaN \/ b = NaN THEN NaN ELSE IF Less(b, a) THEN b ELSE a
Larger(a, b) == IF a = NaN \/ b = NaN THEN NaN ELSE IF Less(a, b) THEN b ELSE a
=============================================================================
