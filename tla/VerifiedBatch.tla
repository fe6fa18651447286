---------------------------- MODULE VerifiedBatch ----------------------------
(***************************************************************************)
(* The transaction tester against the core service: a batch is published   *)
(* event by event while the listener threads of the core already record    *)
(* it, and the REST API is paged through while rows are inserted and       *)
(* labelled.  The LLM agent is one step here (ClassifierAgent has it in    *)
(* detail): a request is answered in order, or its answer is lost.         *)
(***************************************************************************)
EXTENDS UserBootstrap, TransactionTester

vars == <<storeVars, coreVars, testerVars>>

Init == StoreInit([t \in Tx |-> Null]) /\ CoreInit /\ TesterInit

\* process of the agent, with its publish.
Answer ==
    /\ Len(responses) < Len(requests)
    /\ responses' = Append(responses, requests[Len(responses) + 1])
    /\ UNCHANGED <<raw, users, accounts, row, requests, lost, faults>>

Next ==
    \/ CoreNext /\ UNCHANGED testerVars
    \/ TesterNext /\ UNCHANGED coreVars
    \/ Answer /\ UNCHANGED <<coreVars, testerVars>>

Spec == Init /\ [][Next]_vars

\* The script runs until it ends: sends and requests have timeouts.  Nothing is
\* assumed of the core: a verification must end without it.
FairSpec == Spec /\ WF_vars(Script /\ UNCHANGED coreVars)

TypeOK == StoreTypeOK /\ CoreTypeOK /\ TesterTypeOK
=============================================================================
