----------------------------- MODULE PythonNumbers -----------------------------
(***************************************************************************)
(* Rounding as Python does it, for ratios given in hundredths.             *)
(***************************************************************************)
EXTENDS Integers

\* round(n / 100): a half goes to the even neighbour.
RoundHundredths(n) ==
    LET q == n \div 100  r == n % 100 IN
    IF r > 50 \/ (r = 50 /\ q % 2 = 1) THEN q + 1 ELSE q

Larger(a, b) == IF a >= b THEN a ELSE b

Smaller(a, b) == IF a <= b THEN a ELSE b
=============================================================================
