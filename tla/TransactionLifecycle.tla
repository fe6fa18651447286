------------------------ MODULE TransactionLifecycle ------------------------
(***************************************************************************)
(* What the core service promises about one transaction, as its REST API   *)
(* shows it: the transaction appears once, already settled by the ML       *)
(* classifier, pending at the LLM, or failed; a pending or failed one can  *)
(* only become labelled by the LLM, and a label of the LLM can only be     *)
(* replaced by another one.  What the ML classifier settled changes only   *)
(* for a transaction that the classifier, restarted between two deliveries *)
(* of its event, has decided both ways: the LLM, asked by the delivery     *)
(* that was lost, answers after the one that was not.                      *)
(***************************************************************************)
CONSTANTS
    Tx,
    Disputed    \* the transactions the classifier may decide both ways

VARIABLE state

States == {"absent", "pending", "failed", "ml", "llm"}

Init == state = [t \in Tx |-> "absent"]

\* handleRawTransaction commits.
Record(t) ==
    /\ state[t] = "absent"
    /\ \E s \in {"pending", "failed", "ml"} : state' = [state EXCEPT ![t] = s]

\* handleLlmClassifierResponse commits.
Label(t) ==
    /\ \/ state[t] \in {"pending", "failed"}
       \/ state[t] = "ml" /\ t \in Disputed
    /\ state' = [state EXCEPT ![t] = "llm"]

Next == \E t \in Tx : Record(t) \/ Label(t)

Spec == Init /\ [][Next]_state
=============================================================================
