------------------------- MODULE LabelledBatchProofs -------------------------
(***************************************************************************)
(* The theorems of LabelledBatch, for every batch of events and any number *)
(* of users, listener threads, faults and attempts: one account for each   *)
(* user, and one answer for each delivery of a request.                    *)
(***************************************************************************)
EXTENDS LabelledBatch, UserBootstrapProofs, FiniteSetTheorems

Working == agent.pc \in {"calling", "answered", "backoff", "fallback"}

\* The agent has a request while it is busy, and waits only between attempts.
AgentInv ==
    /\ agent.pc # "idle" => position < Len(requests)
    /\ agent.pc = "backoff" => agent.attempt < MaxLlmAttempts

\* The delivery under way has not been answered; the one that is done has.
Answers ==
    /\ DeliveryIsBounded /\ DoneIsAnswered
    /\ Working => AnswersTo(Current) < delivered[Current]
    /\ agent.pc = "done" => AnswersTo(Current) > 0 \/ <<Current, "response">> \in lost

Inv == TypeOK /\ CoreInv /\ AgentInv

-----------------------------------------------------------------------------
(* The agent's steps.                                                      *)

\* The agent reads requests and writes responses.
LEMMA AgentTopics ==
    ASSUME TypeOK, AgentInv, AgentNext
    PROVE  /\ UNCHANGED <<raw, users, accounts, row, requests>>
           /\ \/ UNCHANGED responses
              \/ Working /\ responses' = Append(responses, Current)
           /\ lost \subseteq lost'
           /\ lost' \subseteq Tx \X {"event", "request", "response", "dropped"}
           /\ faults' \in 0 .. MaxFaults
<1>1. agent.pc # "idle" => Current \in Tx
  BY DEF TypeOK, StoreTypeOK, AgentTypeOK, AgentInv, Current
<1> QED
  BY <1>1, StoreAssumption
     DEF TypeOK, StoreTypeOK, AgentNext, Process, Receive, CallReturns, CallFails,
         CallTimesOut, PublishAnswer, PublishAnswerThrows, ResponseLost, Retry,
         Interrupted, PublishFallback, PublishFallbackThrows, Done, LateAnswer,
         CommitOffset, AgentCrash, Storeless, storeVars, Fault, Working

LEMMA AgentTypeStep ==
    ASSUME TypeOK, AgentInv, AgentNext
    PROVE  AgentTypeOK' /\ AgentInv'
<1>1. /\ agent \in [pc: {"idle", "calling", "answered", "backoff", "fallback", "done"},
                    attempt: 0 .. MaxLlmAttempts]
      /\ position \in 0 .. Len(requests) /\ committed \in 0 .. position
      /\ delivery \in 0 .. MaxDeliveries - 1 /\ Len(requests) \in Nat
      /\ configured \in BOOLEAN /\ running \in BOOLEAN
      /\ delivered \in [Tx -> Nat]
      /\ MaxLlmAttempts \in Nat \ {0} /\ MaxDeliveries \in Nat \ {0}
  BY AgentAssumption DEF TypeOK, StoreTypeOK, AgentTypeOK
<1>2. requests' = requests
  BY AgentTopics
<1>3. CASE Receive
  <2>1. delivered' \in [Tx -> Nat]
    <3>1. Current \in Tx
      BY <1>1, <1>3 DEF Receive, Current, TypeOK, StoreTypeOK
    <3> QED
      BY <1>1, <1>3, <3>1 DEF Receive
  <2> QED
    BY <1>1, <1>2, <1>3, <2>1 DEF Receive, AgentTypeOK, AgentInv
<1>4. CASE CallReturns \/ CallFails \/ CallTimesOut \/ PublishAnswer
           \/ PublishAnswerThrows \/ ResponseLost
  BY <1>1, <1>2, <1>4
     DEF CallReturns, CallFails, CallTimesOut, PublishAnswer, PublishAnswerThrows,
         ResponseLost, AfterFailure, AgentTypeOK, AgentInv
<1>5. CASE Retry \/ Interrupted \/ PublishFallback \/ PublishFallbackThrows
  BY <1>1, <1>2, <1>5
     DEF Retry, Interrupted, PublishFallback, PublishFallbackThrows, AgentTypeOK,
         AgentInv
<1>6. CASE Done
  BY <1>1, <1>2, <1>6 DEF Done, AgentTypeOK, AgentInv
<1>8. CASE LateAnswer
  BY <1>1, <1>2, <1>8 DEF LateAnswer, AgentTypeOK, AgentInv
<1>9. CASE CommitOffset
  BY <1>1, <1>2, <1>9 DEF CommitOffset, AgentTypeOK, AgentInv
<1>7. CASE AgentCrash
  <2>1. position' = committed /\ committed' = committed /\ committed \in 0 .. Len(requests)
    BY <1>1, <1>7 DEF AgentCrash
  <2>2. /\ position' \in 0 .. Len(requests') /\ committed' \in 0 .. position'
        /\ delivery' \in 0 .. MaxDeliveries - 1
    BY <1>1, <1>2, <1>7, <2>1 DEF AgentCrash
  <2>3. agent' \in [pc: {"idle", "calling", "answered", "backoff", "fallback", "done"},
                    attempt: 0 .. MaxLlmAttempts] /\ agent'.pc = "idle"
    BY <1>1, <1>7 DEF AgentCrash
  <2>4. configured' \in BOOLEAN /\ running' \in BOOLEAN /\ delivered' \in [Tx -> Nat]
    BY <1>1, <1>7 DEF AgentCrash
  <2> QED
    BY <2>2, <2>3, <2>4, Zenon DEF AgentTypeOK, AgentInv
<1> QED
  BY <1>3, <1>4, <1>5, <1>6, <1>7, <1>8, <1>9 DEF AgentNext, Process

-----------------------------------------------------------------------------
(* The invariant of the whole.                                             *)

LEMMA Initially ==
    Init => Inv
<1> SUFFICES ASSUME Init PROVE Inv
  OBVIOUS
<1>1. StoreTypeOK /\ CoreTypeOK /\ CoreInv
  BY CoreInitially, SentAssumption DEF Init
<1>2. AgentTypeOK /\ AgentInv
  <2>1. Len(requests) = 0 /\ MaxLlmAttempts \in Nat /\ MaxDeliveries - 1 \in Nat
    BY AgentAssumption DEF Init, StoreInit
  <2> QED
    <3>1. /\ position \in 0 .. Len(requests) /\ committed \in 0 .. position
          /\ delivery \in 0 .. MaxDeliveries - 1
      BY <2>1 DEF Init, AgentInit
    <3>2. agent \in [pc: {"idle", "calling", "answered", "backoff", "fallback", "done"},
                     attempt: 0 .. MaxLlmAttempts] /\ agent.pc = "idle"
      BY <2>1 DEF Init, AgentInit
    <3> QED
      BY <3>1, <3>2 DEF Init, AgentInit, AgentTypeOK, AgentInv
<1> QED
  BY <1>1, <1>2 DEF Inv, TypeOK

LEMMA Inductive ==
    Inv /\ [Next]_vars => Inv'
<1> SUFFICES ASSUME Inv, [Next]_vars PROVE Inv'
  OBVIOUS
<1>1. TypeOK /\ StoreTypeOK /\ CoreTypeOK /\ AgentTypeOK /\ CoreInv /\ AgentInv
  BY DEF Inv, TypeOK
<1>2. CASE CoreNext /\ UNCHANGED agentVars
  <2>1. requests' \in Seq(Tx) /\ Len(requests') >= Len(requests)
    <3>1. requests \in Seq(Tx)
      BY <1>1 DEF StoreTypeOK
    <3>2. UNCHANGED requests \/ \E t \in Tx : requests' = Append(requests, t)
      BY <1>1, <1>2, CoreTopics
    <3> QED
      BY <3>1, <3>2
  <2>2. StoreTypeOK'
    BY <1>1, <1>2, <2>1, CoreTopics, CoreTypeStep DEF StoreTypeOK
  <2>3. CoreTypeOK'
    BY <1>1, <1>2, CoreTopics, CoreTypeStep DEF CoreTypeOK, Calls
  <2>4. AgentTypeOK' /\ AgentInv'
    BY <1>1, <1>2, <2>1 DEF AgentTypeOK, AgentInv, agentVars, StoreTypeOK
  <2> QED
    BY <1>1, <1>2, <2>2, <2>3, <2>4, CoreInvStep DEF Inv, TypeOK
<1>3. CASE AgentNext /\ UNCHANGED coreVars
  <2>1. responses' \in Seq(Tx) /\ Len(responses') >= Len(responses)
    <3>1. Working => Current \in Tx
      BY <1>1 DEF Working, StoreTypeOK, AgentTypeOK, AgentInv, Current
    <3> QED
      BY <1>1, <1>3, <3>1, AgentTopics DEF StoreTypeOK
  <2>2. StoreTypeOK'
    BY <1>1, <1>3, <2>1, AgentTopics DEF StoreTypeOK
  <2>3. CoreTypeOK'
    BY <1>1, <1>3, <2>1 DEF CoreTypeOK, coreVars, StoreTypeOK
  <2>4. CoreInv'
    BY <1>1, <1>3, AgentTopics, CoreInvStays DEF coreVars
  <2> QED
    BY <1>1, <1>3, <2>2, <2>3, <2>4, AgentTypeStep DEF Inv, TypeOK
<1>4. CASE UNCHANGED vars
  <2>1. UNCHANGED <<storeVars, coreVars, agentVars>>
    BY <1>4 DEF vars
  <2>2. CoreInv'
    BY <1>1, <2>1, CoreInvStays DEF storeVars, coreVars
  <2>3. TypeOK' /\ AgentInv'
    BY <1>1, <2>1
       DEF storeVars, coreVars, agentVars, TypeOK, StoreTypeOK, CoreTypeOK,
           AgentTypeOK, AgentInv
  <2> QED
    BY <2>2, <2>3 DEF Inv
<1> QED
  BY <1>2, <1>3, <1>4 DEF Next

\* Whatever the threads, the agent and the faults do, every variable keeps its
\* type: no attempt beyond the last one, no position beyond the topic's end.
THEOREM TypeCorrect == Spec => []TypeOK
<1>1. Inv => TypeOK
  BY DEF Inv
<1> QED
  BY <1>1, Initially, Inductive, PTL DEF Spec

\* However many transactions of a new user the listener threads handle at once,
\* there is one user and one account, although ensureUserAndAccount reads and
\* inserts without a lock.
THEOREM OneAccount == Spec => []OneAccountPerUser
<1>1. Inv => OneAccountPerUser
  BY DEF Inv, CoreInv, Tables, OneAccountPerUser
<1> QED
  BY <1>1, Initially, Inductive, PTL DEF Spec

\* The race for a new user costs a transaction one delivery at most: it fails
\* once, and then finds the user and the account committed.
THEOREM OneRetry == Spec => []RacesCostOneDelivery
<1>1. Inv => RacesCostOneDelivery
  <2> SUFFICES ASSUME Inv, NEW t \in Tx PROVE attempts[t] <= 1
    BY DEF RacesCostOneDelivery
  <2>1. attempts[t] \in 0 .. MaxAttempts /\ (attempts[t] > 0 => attempts[t] = 1)
    BY DEF Inv, TypeOK, CoreTypeOK, CoreInv, Retried
  <2> QED
    BY <2>1, BootstrapAssumption
<1> QED
  BY <1>1, Initially, Inductive, PTL DEF Spec

-----------------------------------------------------------------------------
(* Answers and deliveries.                                                 *)

\* One more answer counts for its own transaction and for no other.
LEMMA AnswersAppended ==
    ASSUME responses \in Seq(Tx), NEW t \in Tx, responses' = Append(responses, t),
           NEW x \in Tx
    PROVE  AnswersTo(x)' = IF x = t THEN AnswersTo(x) + 1 ELSE AnswersTo(x)
<1> DEFINE n == Len(responses)
           At(r) == {i \in 1 .. Len(r) : r[i] = x}
           old == At(responses)
           new == At(responses')
<1>1. n \in Nat /\ Len(responses') = n + 1 /\ responses'[n + 1] = t
  OBVIOUS
<1>2. \A i \in 1 .. n : responses'[i] = responses[i]
  OBVIOUS
<1>3. new = IF x = t THEN old \cup {n + 1} ELSE old
  BY <1>1, <1>2
<1>4. IsFiniteSet(old) /\ n + 1 \notin old
  <2>1. IsFiniteSet(1 .. n)
    BY <1>1, FS_Interval
  <2>2. old \subseteq 1 .. n
    OBVIOUS
  <2> QED
    BY <1>1, <2>1, <2>2, FS_Subset
<1>5. Cardinality(old \cup {n + 1}) = Cardinality(old) + 1
  BY <1>4, FS_AddElement
<1>6. AnswersTo(x) = Cardinality(old) /\ AnswersTo(x)' = Cardinality(new)
  BY DEF AnswersTo
<1> HIDE DEF old, new
<1> QED
  BY <1>3, <1>5, <1>6

LEMMA AnswersCount ==
    ASSUME responses \in Seq(Tx), NEW x \in Tx
    PROVE  AnswersTo(x) \in Nat
<1> DEFINE old == {i \in 1 .. Len(responses) : responses[i] = x}
<1>1. IsFiniteSet(1 .. Len(responses)) /\ old \subseteq 1 .. Len(responses)
  BY FS_Interval
<1>2. IsFiniteSet(old)
  BY <1>1, FS_Subset
<1> QED
  BY <1>2, FS_CardinalityType DEF AnswersTo

Answered(t) == AnswersTo(t) > 0 \/ <<t, "response">> \in lost
Due(t) == AnswersTo(t) < delivered[t]

LEMMA AnswersStep ==
    ASSUME Inv, Answers, [Next]_vars
    PROVE  Answers'
<1> DEFINE t == Current
<1>1. /\ responses \in Seq(Tx) /\ requests \in Seq(Tx)
      /\ position \in 0 .. Len(requests) /\ committed \in 0 .. position
      /\ delivered \in [Tx -> Nat]
      /\ TypeOK /\ AgentInv
  BY DEF Inv, TypeOK, StoreTypeOK, AgentTypeOK
<1>2. agent.pc # "idle" => t \in Tx
  BY <1>1 DEF AgentInv, Current
<1>3. /\ \A x \in Tx : AnswersTo(x) <= delivered[x]
      /\ \A i \in 1 .. position : Answered(requests[i])
      /\ Working => Due(t)
      /\ agent.pc = "done" => Answered(t)
  BY DEF Answers, DeliveryIsBounded, DoneIsAnswered, Answered, Due
<1>4. \A x \in Tx : AnswersTo(x) \in Nat
  BY <1>1, AnswersCount
<1>5. SUFFICES /\ \A x \in Tx : AnswersTo(x)' <= delivered'[x]
               /\ \A i \in 1 .. position' : Answered(requests[i])'
               /\ Working' => Due(t)'
               /\ agent'.pc = "done" => Answered(t)'
  BY DEF Answers, DeliveryIsBounded, DoneIsAnswered, Answered, Due
<1> DEFINE Goal == /\ \A x \in Tx : AnswersTo(x)' <= delivered'[x]
                   /\ \A i \in 1 .. position' : Answered(requests[i])'
                   /\ Working' => Due(t)'
                   /\ agent'.pc = "done" => Answered(t)'
<1>6. ASSUME UNCHANGED <<agent, position, delivered, responses>>, lost \subseteq lost',
             \A i \in 1 .. Len(requests) : requests'[i] = requests[i]
      PROVE  Goal
  <2>1. \A x : AnswersTo(x)' = AnswersTo(x) /\ (Answered(x) => Answered(x)')
    BY <1>6 DEF AnswersTo, Answered
  <2>2. \A i \in 1 .. position' : Answered(requests[i])'
    <3> SUFFICES ASSUME NEW i \in 1 .. position' PROVE Answered(requests[i])'
      OBVIOUS
    <3>1. i \in 1 .. position /\ i \in 1 .. Len(requests)
      BY <1>1, <1>6
    <3> QED
      BY <1>3, <1>6, <2>1, <3>1
  <2>3. agent.pc # "idle" => t' = t
    BY <1>1, <1>6 DEF Current, AgentInv
  <2>4. (Working <=> Working') /\ (Working => agent.pc # "idle")
    BY <1>6 DEF Working
  <2> QED
    <3>1. \A x \in Tx : AnswersTo(x)' <= delivered'[x]
      BY <1>3, <1>6, <2>1
    <3>2. Working' => Due(t)'
      BY <1>3, <1>6, <2>1, <2>3, <2>4 DEF Due
    <3>3. agent'.pc = "done" => Answered(t)'
      BY <1>3, <1>6, <2>1, <2>3
    <3> QED
      BY <2>2, <3>1, <3>2, <3>3
<1>7. CASE CoreNext /\ UNCHANGED agentVars
  <2>1. UNCHANGED requests \/ \E q \in Tx : requests' = Append(requests, q)
    BY <1>7, CoreTopics DEF Inv, TypeOK
  <2>2. \A i \in 1 .. Len(requests) : requests'[i] = requests[i]
    <3>1. CASE UNCHANGED requests
      BY <3>1
    <3>2. ASSUME NEW q \in Tx, requests' = Append(requests, q)
          PROVE  \A i \in 1 .. Len(requests) : requests'[i] = requests[i]
      BY <1>1, <3>2
    <3> QED
      BY <2>1, <3>1, <3>2
  <2> QED
    BY <1>6, <1>7, <2>2, CoreTopics DEF agentVars, Inv, TypeOK
<1>8. CASE UNCHANGED vars
  BY <1>6, <1>8 DEF vars, storeVars, agentVars
<1>9. CASE AgentNext /\ UNCHANGED coreVars
  <2>1. UNCHANGED requests /\ lost \subseteq lost'
        /\ (responses' = responses \/ (Working /\ responses' = Append(responses, t)))
    BY <1>1, <1>9, AgentTopics
  <2>2. ASSUME NEW x \in Tx PROVE Answered(x) => Answered(x)'
    <3>1. AnswersTo(x)' >= AnswersTo(x) /\ AnswersTo(x)' \in Nat
      <4>1. CASE responses' = responses
        BY <4>1, <1>4 DEF AnswersTo
      <4>2. CASE Working /\ responses' = Append(responses, t)
        <5>1. t \in Tx
          BY <4>2, <1>2 DEF Working
        <5>2. AnswersTo(x)' = IF x = t THEN AnswersTo(x) + 1 ELSE AnswersTo(x)
          BY <1>1, <4>2, <5>1, AnswersAppended
        <5> QED
          BY <1>4, <5>2
      <4> QED
        BY <2>1, <4>1, <4>2
    <3> QED
      BY <1>4, <2>1, <3>1 DEF Answered
  <2>3. \A i \in 1 .. position : requests[i] \in Tx /\ Answered(requests[i])'
    <3> SUFFICES ASSUME NEW i \in 1 .. position
                 PROVE  requests[i] \in Tx /\ Answered(requests[i])'
      OBVIOUS
    <3>1. requests[i] \in Tx
      BY <1>1
    <3>2. PICK x \in Tx : x = requests[i]
      BY <3>1
    <3>3. Answered(x)'
      BY <1>3, <2>2, <3>2
    <3> QED
      BY <2>1, <3>1, <3>2, <3>3
  <2>4. ASSUME UNCHANGED responses, UNCHANGED position,
               \A x \in Tx : delivered'[x] >= delivered[x] /\ delivered'[x] \in Nat,
               agent.pc # "idle",
               Working' => Working, agent'.pc = "done" => <<t, "response">> \in lost'
        PROVE  Goal
    <3>1. t' = t /\ t \in Tx
      BY <1>2, <2>1, <2>4 DEF Current
    <3>2. \A x \in Tx : AnswersTo(x)' = AnswersTo(x)
      BY <2>4 DEF AnswersTo
    <3>3. Working' => Due(t)'
      <4>1. PICK x \in Tx : x = t
        BY <3>1
      <4>2. Working' => Due(x)'
        BY <1>1, <1>3, <1>4, <2>4, <3>2, <4>1 DEF Due
      <4> QED
        BY <3>1, <4>1, <4>2
    <3>4. agent'.pc = "done" => Answered(t)'
      BY <2>4, <3>1 DEF Answered
    <3>5. \A x \in Tx : AnswersTo(x)' <= delivered'[x]
      BY <1>1, <1>3, <1>4, <2>4, <3>2
    <3> QED
      BY <2>3, <2>4, <3>3, <3>4, <3>5
  <2>5. CASE Receive
    <3>1. /\ Current \in Tx /\ Current' = Current
          /\ delivered' = [delivered EXCEPT ![t] = delivered[t] + 1]
          /\ UNCHANGED <<position, responses>> /\ agent'.pc # "done"
      BY <1>1, <2>5 DEF Receive, Current, Storeless, storeVars
    <3>2. \A x \in Tx : AnswersTo(x)' = AnswersTo(x)
      BY <3>1 DEF AnswersTo
    <3>3. Due(t)'
      <4>1. PICK x \in Tx : x = t
        BY <3>1
      <4>2. Due(x)'
        BY <1>1, <1>3, <1>4, <3>1, <3>2, <4>1 DEF Due
      <4> QED
        BY <3>1, <4>1, <4>2
    <3>4. \A x \in Tx : AnswersTo(x)' <= delivered'[x]
      BY <1>1, <1>3, <1>4, <3>1, <3>2
    <3> QED
      BY <2>3, <3>1, <3>3, <3>4
  <2>6. CASE CallReturns \/ CallFails \/ CallTimesOut \/ PublishAnswerThrows
             \/ Retry \/ Interrupted
    <3>1. UNCHANGED <<responses, position, delivered>> /\ Working /\ agent'.pc # "done"
      BY <1>1, <2>6
         DEF CallReturns, CallFails, CallTimesOut, PublishAnswerThrows, Retry,
             Interrupted, Storeless, storeVars, Working, AfterFailure, TypeOK,
             AgentTypeOK
    <3> QED
      BY <1>1, <2>4, <3>1 DEF Working
  <2>7. CASE PublishAnswer \/ PublishFallback
    <3>1. /\ Working /\ agent'.pc = "done" /\ UNCHANGED <<position, delivered>>
          /\ responses' = Append(responses, t)
      BY <1>1, <2>7 DEF PublishAnswer, PublishFallback, Working, TypeOK, AgentTypeOK
    <3>2. t \in Tx /\ t' = t
      BY <1>2, <2>1, <3>1 DEF Working, Current
    <3>3. \A x \in Tx : AnswersTo(x)' = IF x = t THEN AnswersTo(x) + 1 ELSE AnswersTo(x)
      BY <1>1, <3>1, <3>2, AnswersAppended
    <3>4. \A x \in Tx : AnswersTo(x)' <= delivered'[x]
      <4> SUFFICES ASSUME NEW x \in Tx PROVE AnswersTo(x)' <= delivered'[x]
        OBVIOUS
      <4>1. x = t => AnswersTo(x) < delivered[x]
        BY <1>3, <3>1 DEF Due
      <4> QED
        BY <1>1, <1>3, <1>4, <3>1, <3>3, <4>1
    <3>5. Answered(t)'
      <4>1. PICK x \in Tx : x = t
        BY <3>2
      <4>2. AnswersTo(x)' > 0
        BY <1>4, <3>3, <4>1
      <4> QED
        BY <3>2, <4>1, <4>2 DEF Answered
    <3>6. ~Working'
      BY <3>1 DEF Working
    <3> QED
      BY <2>3, <3>1, <3>4, <3>5, <3>6
  <2>8. CASE ResponseLost \/ PublishFallbackThrows
    <3>1. /\ UNCHANGED <<responses, position, delivered>>
          /\ Working /\ ~Working'
          /\ agent'.pc = "done" => <<t, "response">> \in lost'
      BY <1>1, <2>8 DEF ResponseLost, PublishFallbackThrows, Working, TypeOK,
         AgentTypeOK
    <3> QED
      BY <1>1, <2>4, <3>1 DEF Working
  <2>9. CASE Done
    <3>1. /\ agent.pc = "done" /\ position' = position + 1 /\ agent'.pc = "idle"
          /\ UNCHANGED <<responses, delivered>>
      BY <2>9 DEF Done, Storeless, storeVars
    <3>2. \A i \in 1 .. position' : i \in 1 .. position \/ requests[i] = t
      BY <1>1, <3>1 DEF Current
    <3>3. t \in Tx /\ Answered(t)
      BY <1>2, <1>3, <3>1
    <3>4. \A i \in 1 .. position' : Answered(requests[i])'
      <4> SUFFICES ASSUME NEW i \in 1 .. position', requests[i] = t
                   PROVE  Answered(requests[i])'
        BY <2>3, <3>2
      <4>1. PICK x \in Tx : x = t
        BY <3>3
      <4>2. Answered(x)'
        BY <2>2, <3>3, <4>1
      <4> QED
        BY <2>1, <4>1, <4>2
    <3>5. \A x \in Tx : AnswersTo(x)' <= delivered'[x]
      BY <1>3, <3>1 DEF AnswersTo
    <3> QED
      BY <3>1, <3>4, <3>5 DEF Working
  <2>10. CASE LateAnswer \/ CommitOffset
    BY <1>6, <2>1, <2>10 DEF LateAnswer, CommitOffset, Storeless, storeVars
  <2>11. CASE AgentCrash
    <3>1. /\ position' = committed /\ agent'.pc = "idle"
          /\ UNCHANGED <<responses, delivered>>
      BY <2>11 DEF AgentCrash
    <3>2. \A i \in 1 .. position' : i \in 1 .. position
      BY <1>1, <3>1
    <3>3. \A x \in Tx : AnswersTo(x)' <= delivered'[x]
      BY <1>3, <3>1 DEF AnswersTo
    <3> QED
      BY <2>3, <3>1, <3>2, <3>3 DEF Working
  <2> QED
    BY <1>9, <2>5, <2>6, <2>7, <2>8, <2>9, <2>10, <2>11 DEF AgentNext, Process
<1> QED
  BY <1>7, <1>8, <1>9 DEF Next

LEMMA AnswersInitially ==
    Init => Answers
<1> SUFFICES ASSUME Init PROVE Answers
  OBVIOUS
<1>1. agent.pc = "idle" /\ position = 0 /\ responses = <<>>
  BY DEF Init, StoreInit, AgentInit
<1>2. \A t \in Tx : AnswersTo(t) = 0
  <2>1. \A t : {i \in 1 .. Len(responses) : responses[i] = t} = {}
    BY <1>1
  <2> QED
    BY <2>1, FS_EmptySet DEF AnswersTo
<1>3. \A t \in Tx : delivered[t] = 0
  BY DEF Init, AgentInit
<1> QED
  BY <1>1, <1>2, <1>3 DEF Answers, DeliveryIsBounded, DoneIsAnswered, Working

\* A request the agent is done with has been answered, by the LLM or by the
\* fallback, whatever failed on the way, unless the send itself was lost or
\* given up.
THEOREM EveryRequestAnswered == Spec => []DoneIsAnswered
<1>1. Answers => DoneIsAnswered
  BY DEF Answers
<1> QED
  BY <1>1, Initially, Inductive, AnswersInitially, AnswersStep, PTL DEF Spec

\* A delivery of a request is answered once at most: no attempt, no publish that
\* threw and no call that was given up answers it a second time.
THEOREM OneAnswerPerDelivery == Spec => []DeliveryIsBounded
<1>1. Answers => DeliveryIsBounded
  BY DEF Answers
<1> QED
  BY <1>1, Initially, Inductive, AnswersInitially, AnswersStep, PTL DEF Spec
=============================================================================
