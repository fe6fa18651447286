---------------------------- MODULE LabelledBatch ----------------------------
(***************************************************************************)
(* The core service and the LLM agent together: a batch of events lies in  *)
(* raw-transactions, the core records it with several listener threads,    *)
(* and the agent labels what the ML classifier was not sure about.  The    *)
(* two share the request and response topics and nothing else.             *)
(***************************************************************************)
EXTENDS UserBootstrap, ClassifierAgent

CONSTANT Sent   \* bound: the contents of raw-transactions tried

ASSUME SentAssumption == Sent \subseteq [Tx -> Event \cup {Null}]

vars == <<storeVars, coreVars, agentVars>>

Init ==
    /\ \E events \in Sent : StoreInit(events)
    /\ CoreInit /\ AgentInit

Next ==
    \/ CoreNext /\ UNCHANGED agentVars
    \/ AgentNext /\ UNCHANGED coreVars

Spec == Init /\ [][Next]_vars

\* Listener threads keep running: every call they make is bounded by a timeout
\* (HTTP, database, orTimeout, the producer's max.block.ms).  No fault, and no
\* particular answer of the LLM, has to happen.
Fairness ==
    /\ WF_vars(Process /\ UNCHANGED coreVars)
    /\ WF_vars(ApplyResponse /\ UNCHANGED agentVars)
    /\ \A w \in Workers : WF_vars(Handle(w) /\ UNCHANGED agentVars)

FairSpec == Spec /\ Fairness

TypeOK == StoreTypeOK /\ CoreTypeOK /\ AgentTypeOK

\* From the pending row to the label: it is labelled in the end, by the LLM or
\* by the fallback, unless its request or response was lost, given up, or
\* consumed before the row was committed.
PendingIsLabelled ==
    \A t \in Tx : (StatusOf(t) = "pending") ~>
        \/ StatusOf(t) = "llm"
        \/ \E what \in {"request", "response", "dropped"} : <<t, what>> \in lost
=============================================================================
