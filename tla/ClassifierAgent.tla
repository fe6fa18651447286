--------------------------- MODULE ClassifierAgent ---------------------------
(***************************************************************************)
(* The transaction classifier agent in detail: ClassificationService       *)
(* .process with its retries, the LLM call under orTimeout, and the        *)
(* listener container around it.  One instance, one listener thread.       *)
(*                                                                         *)
(* A failed attempt is one that throws for any reason, the publish of the  *)
(* answer included.  A call that times out goes on by itself: orTimeout    *)
(* completes the future, it does not stop the supplier.                    *)
(*                                                                         *)
(* Abstracted: what an answer says (TransactionPipeline's LlmAnswers); an  *)
(* answer parseClassification refuses is a failed call.                    *)
(***************************************************************************)
EXTENDS CoreStore

CONSTANTS
    MaxLlmAttempts,   \* app.llm.retry.max-attempts, at least 1
    MaxDeliveries     \* deliveries the container's error handler allows

ASSUME AgentAssumption ==
    /\ MaxLlmAttempts \in Nat \ {0} /\ MaxDeliveries \in Nat \ {0}

VARIABLES
    configured,  \* isConfigured: there is an API key
    agent,       \* the listener thread: [pc, attempt]
    position,    \* requests delivered and done with
    committed,   \* the committed offset
    delivery,    \* failed deliveries of the request at the position
    delivered,   \* history: deliveries of a transaction's requests
    running      \* a timed-out call still runs

agentVars == <<configured, agent, position, committed, delivery, delivered, running>>

AgentInit ==
    /\ configured \in BOOLEAN
    /\ agent = [pc |-> "idle", attempt |-> 0]
    /\ position = 0 /\ committed = 0 /\ delivery = 0
    /\ delivered = [t \in Tx |-> 0]
    /\ running = FALSE

AgentTypeOK ==
    /\ configured \in BOOLEAN
    /\ agent \in [pc: {"idle", "calling", "answered", "backoff", "fallback", "done"},
                  attempt: 0 .. MaxLlmAttempts]
    /\ position \in 0 .. Len(requests) /\ committed \in 0 .. position
    /\ delivery \in 0 .. MaxDeliveries - 1
    /\ delivered \in [Tx -> Nat] /\ running \in BOOLEAN

Current == requests[position + 1]
Storeless == UNCHANGED storeVars

\* Mutant: without a key, process returns.
ReceiveUnconfiguredReturns ==
    /\ agent.pc = "idle" /\ position < Len(requests)
    /\ delivered' = [delivered EXCEPT ![Current] = @ + 1]
    /\ agent' = IF configured THEN [pc |-> "calling", attempt |-> 1]
                ELSE [pc |-> "done", attempt |-> 0]
    /\ UNCHANGED <<configured, position, committed, delivery, running>> /\ Storeless

\* process begins: the first attempt, or at once the fallback without a key.
Receive ==
    /\ agent.pc = "idle" /\ position < Len(requests)
    /\ delivered' = [delivered EXCEPT ![Current] = @ + 1]
    /\ agent' = IF configured THEN [pc |-> "calling", attempt |-> 1]
                ELSE [pc |-> "fallback", attempt |-> 0]
    /\ UNCHANGED <<configured, position, committed, delivery, running>> /\ Storeless

\* The call answers in time and parseClassification accepts it.
CallReturns ==
    /\ agent.pc = "calling"
    /\ agent' = [agent EXCEPT !.pc = "answered"]
    /\ UNCHANGED <<configured, position, committed, delivery, delivered, running>>
    /\ Storeless

\* catch (ex: Throwable): after the last attempt the fallback.
AfterFailure == [agent EXCEPT !.pc = IF agent.attempt < MaxLlmAttempts
                                     THEN "backoff" ELSE "fallback"]

\* An error, an empty or an unacceptable answer.
CallFails ==
    /\ agent.pc = "calling"
    /\ agent' = AfterFailure
    /\ UNCHANGED <<configured, position, committed, delivery, delivered, running>>
    /\ Storeless

\* orTimeout: as a failure for the attempt, but the call runs on.
CallTimesOut ==
    /\ agent.pc = "calling"
    /\ agent' = AfterFailure
    /\ running' = TRUE
    /\ UNCHANGED <<configured, position, committed, delivery, delivered>>
    /\ Storeless

\* Its late answer goes to a future that is already completed.
LateAnswer ==
    /\ running
    /\ running' = FALSE
    /\ UNCHANGED <<configured, agent, position, committed, delivery, delivered>>
    /\ Storeless

\* Mutant: no return after the publish: the loop goes on.
PublishAnswerAndGoOn ==
    /\ agent.pc = "answered"
    /\ responses' = Append(responses, Current)
    /\ agent' = AfterFailure
    /\ UNCHANGED <<configured, position, committed, delivery, delivered, running>>
    /\ UNCHANGED <<raw, users, accounts, row, requests, lost, faults>>

\* responseProducer.publish, then return.
PublishAnswer ==
    /\ agent.pc = "answered"
    /\ responses' = Append(responses, Current)
    /\ agent' = [agent EXCEPT !.pc = "done"]
    /\ UNCHANGED <<configured, position, committed, delivery, delivered, running>>
    /\ UNCHANGED <<raw, users, accounts, row, requests, lost, faults>>

\* The publish throws inside the attempt: the LLM is asked again.
PublishAnswerThrows ==
    /\ agent.pc = "answered"
    /\ Fault
    /\ agent' = AfterFailure
    /\ UNCHANGED <<configured, position, committed, delivery, delivered, running>>
    /\ UNCHANGED <<raw, users, accounts, row, requests, responses, lost>>

\* The future of the send is ignored: a send that fails later is lost.
ResponseLost ==
    /\ agent.pc \in {"answered", "fallback"}
    /\ Fault
    /\ lost' = lost \cup {<<Current, "response">>}
    /\ agent' = [agent EXCEPT !.pc = "done"]
    /\ UNCHANGED <<configured, position, committed, delivery, delivered, running>>
    /\ UNCHANGED <<raw, users, accounts, row, requests, responses>>

\* The back-off passes: the next attempt.
Retry ==
    /\ agent.pc = "backoff"
    /\ agent' = [pc |-> "calling", attempt |-> agent.attempt + 1]
    /\ UNCHANGED <<configured, position, committed, delivery, delivered, running>>
    /\ Storeless

\* Mutant: an interrupted back-off returns without an answer.
InterruptedReturns ==
    /\ agent.pc = "backoff"
    /\ Fault
    /\ agent' = [agent EXCEPT !.pc = "done"]
    /\ UNCHANGED <<configured, position, committed, delivery, delivered, running>>
    /\ UNCHANGED <<raw, users, accounts, row, requests, responses, lost>>

\* Thread.sleep is interrupted (shutdown): break, and the fallback.
Interrupted ==
    /\ agent.pc = "backoff"
    /\ Fault
    /\ agent' = [agent EXCEPT !.pc = "fallback"]
    /\ UNCHANGED <<configured, position, committed, delivery, delivered, running>>
    /\ UNCHANGED <<raw, users, accounts, row, requests, responses, lost>>

PublishFallback ==
    /\ agent.pc = "fallback"
    /\ responses' = Append(responses, Current)
    /\ agent' = [agent EXCEPT !.pc = "done"]
    /\ UNCHANGED <<configured, position, committed, delivery, delivered, running>>
    /\ UNCHANGED <<raw, users, accounts, row, requests, lost, faults>>

\* The fallback's publish is outside the loop: process throws, the request is
\* delivered again, or skipped after the last delivery.
PublishFallbackThrows ==
    /\ agent.pc = "fallback"
    /\ Fault
    /\ IF delivery + 1 < MaxDeliveries
       THEN /\ delivery' = delivery + 1
            /\ agent' = [pc |-> "idle", attempt |-> 0]
            /\ UNCHANGED lost
       ELSE /\ delivery' = 0
            /\ agent' = [agent EXCEPT !.pc = "done"]
            /\ lost' = lost \cup {<<Current, "response">>}
    /\ UNCHANGED <<configured, position, committed, delivered, running>>
    /\ UNCHANGED <<raw, users, accounts, row, requests, responses>>

\* consume returns.
Done ==
    /\ agent.pc = "done"
    /\ position' = position + 1
    /\ delivery' = 0
    /\ agent' = [pc |-> "idle", attempt |-> 0]
    /\ UNCHANGED <<configured, committed, delivered, running>> /\ Storeless

\* The container commits after the records of a poll.
CommitOffset ==
    /\ committed < position
    /\ committed' = position
    /\ UNCHANGED <<configured, agent, position, delivery, delivered, running>> /\ Storeless

\* Mutant: a restart begins with the first request again.
AgentCrashToBeginning ==
    /\ agent.pc # "idle" \/ committed < position
    /\ Fault
    /\ agent' = [pc |-> "idle", attempt |-> 0]
    /\ position' = 0 /\ delivery' = 0 /\ running' = FALSE
    /\ UNCHANGED <<configured, committed, delivered>>
    /\ UNCHANGED <<raw, users, accounts, row, requests, responses, lost>>

\* The agent dies: its calls with it; it restarts from the committed offset.
AgentCrash ==
    /\ agent.pc # "idle" \/ committed < position
    /\ Fault
    /\ agent' = [pc |-> "idle", attempt |-> 0]
    /\ position' = committed /\ delivery' = 0 /\ running' = FALSE
    /\ UNCHANGED <<configured, committed, delivered>>
    /\ UNCHANGED <<raw, users, accounts, row, requests, responses, lost>>

Process ==
    \/ Receive \/ CallReturns \/ CallFails \/ CallTimesOut
    \/ PublishAnswer \/ PublishAnswerThrows \/ ResponseLost
    \/ Retry \/ Interrupted \/ PublishFallback \/ PublishFallbackThrows \/ Done

AgentNext == Process \/ LateAnswer \/ CommitOffset \/ AgentCrash

-----------------------------------------------------------------------------
AnswersTo(t) == Cardinality({i \in 1 .. Len(responses) : responses[i] = t})

\* A request the agent is done with has been answered, by the LLM or by the
\* fallback, whatever failed on the way (retries, an interrupted back-off, a
\* publish that throws), unless the send itself was lost or given up.
DoneIsAnswered ==
    \A i \in 1 .. position : AnswersTo(requests[i]) > 0 \/ <<requests[i], "response">> \in lost

\* A delivery of a request is answered at most once: no attempt, no publish that
\* threw and no call that was given up answers it a second time.
DeliveryIsBounded ==
    \A t \in Tx : AnswersTo(t) <= delivered[t]
=============================================================================
