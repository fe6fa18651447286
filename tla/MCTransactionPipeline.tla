------------------------ MODULE MCTransactionPipeline ------------------------
(* Small instances of TransactionPipeline for TLC. *)
EXTENDS TransactionPipeline, TLC

CONSTANTS t1, t2, food, other

Ans(c, p) == [category |-> c, confidence |-> p]

\* One transaction that is below the threshold of 9, or at it once the
\* classifier has been restarted, and, in the larger runs, one always at it.
MCMlAnswers == [t \in Tx |-> IF t = t1 THEN {Ans(food, 8), Ans(food, 9)}
                                       ELSE {Ans(other, 9)}]
\* A confident answer and the agent's fallback.
MCLlmAnswers == {Ans(food, 9), Ans(other, 0)}

Symmetric == Permutations(Workers)
=============================================================================
