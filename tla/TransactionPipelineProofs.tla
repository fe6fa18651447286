---------------------- MODULE TransactionPipelineProofs ----------------------
(***************************************************************************)
(* The theorems of TransactionPipeline for every set of transactions,      *)
(* every number of instances, every classifier, and every bound: type      *)
(* correctness first, then the safety properties, from an inductive        *)
(* invariant that says what each thread, row and log can hold.             *)
(***************************************************************************)
EXTENDS TransactionPipeline, FiniteSetTheorems, TLAPS

-----------------------------------------------------------------------------
(* Type correctness.                                                       *)

LEMMA RecordTypes ==
    ASSUME NEW t \in Tx
    PROVE  /\ Idle \in Handler
           /\ \A a \in MlAnswers[t] : Accepted(a) \in Row /\ Deferred(a) \in Row
           /\ \A s \in Status : Unclassified(s) \in Row
           /\ \A a \in LlmAnswers : Answered(t, a) \in Row
BY PipelineAssumption
   DEF Idle, Handler, Accepted, Deferred, Unclassified, Answered, Labelled, Row,
       Status, Answer

LEMMA InitTypeOK == Init => TypeOK
<1> SUFFICES ASSUME Init PROVE TypeOK
  OBVIOUS
<1>1. Idle \in Handler
  BY DEF Idle, Handler
<1>2. handler \in [CoreTopics -> [Workers -> Handler]]
  BY <1>1 DEF Init
<1>3. \A c \in CoreTopics, w \in Workers : handler[c][w].pc = "idle"
  BY DEF Init, Idle
<1> QED
  BY <1>2, <1>3, PipelineAssumption DEF Init, TypeOK, Topics, CoreTopics

LEMMA NestedUpdate ==
    ASSUME NEW A, NEW B, NEW S, NEW f \in [A -> [B -> S]],
           NEW a \in A, NEW b \in B, NEW v \in S
    PROVE  [f EXCEPT ![a][b] = v] \in [A -> [B -> S]]
OBVIOUS

LEMMA PositionType ==
    ASSUME TypeOK, NEW c \in Topics, NEW t \in Tx, NEW i \in Nat,
           pos' = [pos EXCEPT ![c][t] = i]
    PROVE  pos' \in [Topics -> [Tx -> Nat]]
<1>1. pos \in [Topics -> [Tx -> Nat]]
  BY DEF TypeOK
<1> QED
  BY <1>1, NestedUpdate

\* How the container's four moves change positions, attempts and threads.
LEMMA MoveOnType ==
    ASSUME TypeOK, NEW c \in CoreTopics, NEW t \in Tx, MoveOn(c, t)
    PROVE  /\ pos' \in [Topics -> [Tx -> Nat]]
           /\ attempts' \in [CoreTopics -> [Tx -> 0 .. MaxAttempts - 1]]
<1>1. c \in Topics /\ pos[c][t] + 1 \in Nat
  BY DEF TypeOK, Topics, CoreTopics
<1>2. pos' \in [Topics -> [Tx -> Nat]]
  BY <1>1, PositionType DEF MoveOn
<1>3. 0 \in 0 .. MaxAttempts - 1
  BY PipelineAssumption
<1>4. attempts' \in [CoreTopics -> [Tx -> 0 .. MaxAttempts - 1]]
  BY <1>3, NestedUpdate DEF TypeOK, MoveOn
<1> QED
  BY <1>2, <1>4

HandlerTypeOK ==
    /\ handler \in [CoreTopics -> [Workers -> Handler]]
    /\ \A c \in CoreTopics, w \in Workers :
          handler[c][w].pc # "idle" => /\ handler[c][w].tx \in Tx
                                       /\ handler[c][w].pc # "checked" =>
                                             handler[c][w].entity \in Row

LEMMA LossType ==
    ASSUME TypeOK, NEW t \in Tx
    PROVE  \A l \in {"raw", "req", "resp", "not found"} :
              losses \cup {<<t, l>>} \subseteq Tx \X Losses
<1> SUFFICES ASSUME NEW l \in {"raw", "req", "resp", "not found"}
             PROVE  losses \cup {<<t, l>>} \subseteq Tx \X Losses
  OBVIOUS
<1>1. <<t, l>> \in Tx \X Losses
  BY DEF Losses
<1> QED
  BY <1>1 DEF TypeOK

LEMMA FaultType == TypeOK /\ Fault => faults' \in 0 .. MaxFaults
BY PipelineAssumption DEF TypeOK, Fault

LEMMA ProceedType ==
    ASSUME TypeOK, NEW c \in CoreTopics, NEW w \in Workers, NEW h \in Handler,
           h.pc # "idle" => h.tx \in Tx /\ (h.pc # "checked" => h.entity \in Row),
           Proceed(c, w, h)
    PROVE  HandlerTypeOK'
BY DEF TypeOK, Proceed, HandlerTypeOK

LEMMA IdleType ==
    ASSUME TypeOK, NEW c \in CoreTopics, NEW w \in Workers,
           handler' = [handler EXCEPT ![c][w] = Idle]
    PROVE  HandlerTypeOK'
BY DEF TypeOK, Idle, Handler, HandlerTypeOK

LEMMA AckType ==
    ASSUME TypeOK, NEW c \in CoreTopics, NEW w \in Workers,
           handler[c][w].pc # "idle", Ack(c, w)
    PROVE  /\ HandlerTypeOK'
           /\ pos' \in [Topics -> [Tx -> Nat]]
           /\ attempts' \in [CoreTopics -> [Tx -> 0 .. MaxAttempts - 1]]
<1>1. HandlerTypeOK'
  BY IdleType DEF Ack
<1>2. handler[c][w].tx \in Tx
  BY DEF TypeOK
<1> QED
  BY <1>1, <1>2, MoveOnType DEF Ack, TypeOK

LEMMA NackType ==
    ASSUME TypeOK, NEW c \in CoreTopics, NEW w \in Workers,
           handler[c][w].pc # "idle", Nack(c, w), faults' \in 0 .. MaxFaults
    PROVE  TypeOK'
<1>1. HandlerTypeOK'
  BY IdleType DEF Nack
<1>2. handler[c][w].tx \in Tx
  BY DEF TypeOK
<1>3. /\ pos' \in [Topics -> [Tx -> Nat]]
      /\ attempts' \in [CoreTopics -> [Tx -> 0 .. MaxAttempts - 1]]
      /\ losses' \subseteq Tx \X Losses
  <2>1. CASE handler[c][w].fenced
    BY <2>1 DEF Nack, TypeOK
  <2>2. CASE ~handler[c][w].fenced /\ ~Exhausted(c, handler[c][w].tx)
    <3> DEFINE t == handler[c][w].tx
    <3>1. attempts[c][t] \in 0 .. MaxAttempts - 1
      BY <1>2 DEF TypeOK
    <3>2. attempts[c][t] + 1 \in 0 .. MaxAttempts - 1
      BY <2>2, <3>1, PipelineAssumption DEF Exhausted
    <3>3. attempts' = [attempts EXCEPT ![c][t] = @ + 1] /\ UNCHANGED <<pos, losses>>
      BY <2>2 DEF Nack
    <3> QED
      BY <1>2, <3>2, <3>3, NestedUpdate DEF TypeOK
  <2>3. CASE ~handler[c][w].fenced /\ Exhausted(c, handler[c][w].tx)
    <3> DEFINE t == handler[c][w].tx
    <3>1. MoveOn(c, t) /\ losses' = losses \cup {<<t, c>>}
      BY <2>3 DEF Nack
    <3>2. c \in Losses
      BY DEF Losses, CoreTopics
    <3> QED
      BY <1>2, <3>1, <3>2, MoveOnType, SMTT(30) DEF TypeOK
  <2> QED
    BY <2>1, <2>2, <2>3
<1> QED
  BY <1>1, <1>3 DEF Nack, TypeOK, HandlerTypeOK

LEMMA NextTypeOK == TypeOK /\ [Next]_vars => TypeOK'
<1> SUFFICES ASSUME TypeOK, [Next]_vars PROVE TypeOK'
  OBVIOUS
<1> USE DEF CoreTopics
<1>1. ASSUME NEW w \in Workers, NEW t \in Tx, SkipDuplicate(w, t) PROVE TypeOK'
  BY <1>1, MoveOnType DEF SkipDuplicate, TypeOK
<1>2. ASSUME NEW w \in Workers, NEW t \in Tx, BeginRaw(w, t) PROVE TypeOK'
  <2> DEFINE g == [Idle EXCEPT !.pc = "checked", !.tx = t]
  <2>1. g \in Handler /\ g.tx \in Tx /\ g.pc = "checked"
    BY DEF Idle, Handler
  <2>2. HandlerTypeOK'
    BY <1>2, <2>1, ProceedType DEF BeginRaw
  <2> QED
    BY <1>2, <2>2 DEF BeginRaw, TypeOK, HandlerTypeOK
<1>3. ASSUME NEW w \in Workers, SaveMlClassifying(w) PROVE TypeOK'
  <2> DEFINE h == handler["raw"][w]
  <2>1. h \in Handler /\ h.tx \in Tx /\ (h.pc # "checked" => h.entity \in Row)
    BY <1>3 DEF SaveMlClassifying, TypeOK, CoreTopics
  <2> DEFINE g == [h EXCEPT !.pc = "saved",
                          !.entity = Unclassified("ML_CLASSIFYING"),
                          !.inserts = (row[h.tx] = Null)]
  <2>2. g \in Handler /\ g.tx \in Tx /\ g.entity \in Row
    BY <1>3, <2>1, RecordTypes DEF SaveMlClassifying, Handler, Status
  <2>3. HandlerTypeOK'
    BY <1>3, <2>2, ProceedType DEF SaveMlClassifying, CoreTopics
  <2> QED
    BY <1>3, <2>1, <2>3 DEF SaveMlClassifying, TypeOK, HandlerTypeOK
<1>4. ASSUME NEW w \in Workers, AcceptMl(w) PROVE TypeOK'
  <2> DEFINE h == handler["raw"][w]
  <2>1. h \in Handler /\ h.tx \in Tx /\ (h.pc # "checked" => h.entity \in Row)
    BY <1>4 DEF AcceptMl, TypeOK, CoreTopics
  <2>0. PICK a \in MlAnswers[h.tx] :
            Proceed("raw", w, [h EXCEPT !.pc = "decided", !.entity = Accepted(a)])
    BY <1>4 DEF AcceptMl
  <2> DEFINE g == [h EXCEPT !.pc = "decided", !.entity = Accepted(a)]
  <2>2. g \in Handler /\ g.tx \in Tx /\ g.entity \in Row
    BY <2>1, RecordTypes DEF Handler
  <2>3. HandlerTypeOK'
    BY <2>0, <2>2, ProceedType DEF CoreTopics
  <2> QED
    BY <1>4, <2>1, <2>3 DEF AcceptMl, TypeOK, HandlerTypeOK
<1>5. ASSUME NEW w \in Workers, ClassifierFails(w) PROVE TypeOK'
  <2> DEFINE h == handler["raw"][w]
  <2>1. h \in Handler /\ h.tx \in Tx /\ (h.pc # "checked" => h.entity \in Row)
    BY <1>5 DEF ClassifierFails, TypeOK, CoreTopics
  <2> DEFINE g == [h EXCEPT !.pc = "decided", !.entity.status = "FAILED"]
  <2>2. g \in Handler /\ g.tx \in Tx /\ g.entity \in Row
    BY <1>5, <2>1, RecordTypes DEF ClassifierFails, Handler, Row, Status
  <2>3. HandlerTypeOK'
    BY <1>5, <2>2, ProceedType DEF ClassifierFails, CoreTopics
  <2> QED
    BY <1>5, <2>1, <2>3 DEF ClassifierFails, TypeOK, HandlerTypeOK
<1>6. ASSUME NEW w \in Workers, DeferToLlm(w) PROVE TypeOK'
  <2> DEFINE h == handler["raw"][w]
  <2>1. h \in Handler /\ h.pc # "idle" /\ h.tx \in Tx
    BY <1>6 DEF DeferToLlm, TypeOK
  <2>2. CASE Conflict(w)
    BY <1>6, <2>1, <2>2, NackType DEF DeferToLlm, TypeOK
  <2>3. CASE ~Conflict(w)
    <3>0. PICK a \in MlAnswers[h.tx] :
              Proceed("raw", w, [h EXCEPT !.pc = "flushed", !.entity = Deferred(a)])
      BY <1>6, <2>3 DEF DeferToLlm
    <3> DEFINE g == [h EXCEPT !.pc = "flushed", !.entity = Deferred(a)]
    <3>1. g \in Handler /\ g.tx \in Tx /\ g.entity \in Row
      BY <2>1, RecordTypes DEF Handler
    <3>2. HandlerTypeOK'
      BY <3>0, <3>1, ProceedType
    <3> QED
      BY <1>6, <2>3, <3>2 DEF DeferToLlm, TypeOK, HandlerTypeOK
  <2> QED
    BY <2>2, <2>3
<1>7. ASSUME NEW w \in Workers, PublishRequest(w) PROVE TypeOK'
  <2> DEFINE h == handler["raw"][w]
  <2>1. h \in Handler /\ h.tx \in Tx /\ (h.pc # "checked" => h.entity \in Row)
    BY <1>7 DEF PublishRequest, TypeOK, CoreTopics
  <2> DEFINE g == [h EXCEPT !.pc = "published"]
  <2>2. g \in Handler /\ g.tx \in Tx /\ g.entity \in Row
    BY <1>7, <2>1, RecordTypes DEF PublishRequest, Handler
  <2>3. HandlerTypeOK'
    BY <1>7, <2>2, ProceedType DEF PublishRequest, CoreTopics
  <2> QED
    BY <1>7, <2>1, <2>3 DEF PublishRequest, TypeOK, HandlerTypeOK
<1>8. ASSUME NEW w \in Workers, RequestLost(w) PROVE TypeOK'
  <2> DEFINE h == handler["raw"][w]
  <2>1. h \in Handler /\ h.tx \in Tx /\ (h.pc # "checked" => h.entity \in Row)
    BY <1>8 DEF RequestLost, TypeOK, CoreTopics
  <2> DEFINE g == [h EXCEPT !.pc = "published"]
  <2>2. g \in Handler /\ g.tx \in Tx /\ g.entity \in Row
    BY <1>8, <2>1, RecordTypes DEF RequestLost, Handler
  <2>3. HandlerTypeOK'
    BY <1>8, <2>2, ProceedType DEF RequestLost, CoreTopics
  <2> QED
    <3>1. faults' \in 0 .. MaxFaults
      BY <1>8, FaultType DEF RequestLost
    <3>2. losses' \subseteq Tx \X Losses
      BY <1>8, <2>1, LossType DEF RequestLost
    <3> QED
      BY <1>8, <2>3, <3>1, <3>2 DEF RequestLost, TypeOK, HandlerTypeOK
<1>9. ASSUME NEW w \in Workers, PublishThrows(w) PROVE TypeOK'
  <2> DEFINE h == handler["raw"][w]
  <2>1. h \in Handler /\ h.tx \in Tx /\ (h.pc # "checked" => h.entity \in Row)
    BY <1>9 DEF PublishThrows, TypeOK, CoreTopics
  <2> DEFINE g == [h EXCEPT !.pc = "published", !.entity.status = "FAILED"]
  <2>2. g \in Handler /\ g.tx \in Tx /\ g.entity \in Row
    BY <1>9, <2>1, RecordTypes DEF PublishThrows, Handler, Row, Status
  <2>3. HandlerTypeOK'
    BY <1>9, <2>2, ProceedType DEF PublishThrows, CoreTopics
  <2> QED
    BY <1>9, <2>1, <2>3 DEF PublishThrows, TypeOK, HandlerTypeOK
<1>10. ASSUME NEW w \in Workers, CommitRaw(w) PROVE TypeOK'
  <2>1. /\ handler["raw"][w].pc # "idle"
        /\ handler["raw"][w].tx \in Tx
        /\ handler["raw"][w].entity \in Row
    BY <1>10 DEF CommitRaw, ReadyToCommit, TypeOK
  <2>2. row' \in [Tx -> Row \cup {Null}]
    BY <1>10, <2>1 DEF CommitRaw, TypeOK
  <2> QED
    BY <1>10, <2>1, <2>2, AckType DEF CommitRaw, TypeOK, HandlerTypeOK
<1>11. ASSUME NEW w \in Workers, CommitConflict(w) PROVE TypeOK'
  BY <1>11, NackType DEF CommitConflict, TypeOK
<1>12. ASSUME NEW w \in Workers, NEW t \in Tx, DropResponse(w, t) PROVE TypeOK'
  <2>1. losses' \subseteq Tx \X Losses
    BY <1>12, LossType DEF DropResponse
  <2> QED
    BY <1>12, <2>1, MoveOnType DEF DropResponse, TypeOK
<1>13. ASSUME NEW w \in Workers, NEW t \in Tx, LoadForResponse(w, t) PROVE TypeOK'
  <2> DEFINE i == pos["resp"][t] + 1
             g == [Idle EXCEPT !.pc = "loaded", !.tx = t,
                               !.entity = Answered(t, respLog[t][i])]
  <2>1. i \in 1 .. Len(respLog[t])
    BY <1>13 DEF LoadForResponse, Deliverable, EndOf, TypeOK, Topics
  <2>2. respLog[t][i] \in LlmAnswers
    BY <2>1 DEF TypeOK
  <2>3. g \in Handler /\ g.tx \in Tx /\ g.entity \in Row
    BY <2>2, RecordTypes DEF Idle, Handler
  <2>4. HandlerTypeOK'
    BY <1>13, <2>3, ProceedType DEF LoadForResponse
  <2> QED
    BY <1>13, <2>4 DEF LoadForResponse, TypeOK, HandlerTypeOK
<1>14. ASSUME NEW w \in Workers, CommitResponse(w) PROVE TypeOK'
  <2>1. /\ handler["resp"][w].pc # "idle"
        /\ handler["resp"][w].tx \in Tx
        /\ handler["resp"][w].entity \in Row
    BY <1>14 DEF CommitResponse, TypeOK
  <2>2. row' \in [Tx -> Row \cup {Null}]
    BY <1>14, <2>1 DEF CommitResponse, TypeOK
  <2> QED
    BY <1>14, <2>1, <2>2, AckType DEF CommitResponse, TypeOK, HandlerTypeOK
<1>15. ASSUME NEW t \in Tx, Respond(t) PROVE TypeOK'
  <2>1. respLog' \in [Tx -> Seq(LlmAnswers)]
    BY <1>15 DEF Respond, TypeOK
  <2>2. pos' \in [Topics -> [Tx -> Nat]]
    <3>1. "req" \in Topics /\ pos["req"][t] + 1 \in Nat
      BY DEF TypeOK, Topics
    <3> QED
      BY <1>15, <3>1, PositionType DEF Respond
  <2> QED
    BY <1>15, <2>1, <2>2 DEF Respond, TypeOK
<1>16. ASSUME NEW t \in Tx, ResponseLost(t) PROVE TypeOK'
  <2>1. pos' \in [Topics -> [Tx -> Nat]]
    <3>1. "req" \in Topics /\ pos["req"][t] + 1 \in Nat
      BY DEF TypeOK, Topics
    <3> QED
      BY <1>16, <3>1, PositionType DEF ResponseLost
  <2>2. losses' \subseteq Tx \X Losses
    BY <1>16, LossType DEF ResponseLost
  <2> QED
    BY <1>16, <2>1, <2>2, FaultType DEF ResponseLost, TypeOK
<1>17. ASSUME NEW t \in Tx, Upstream(t) PROVE TypeOK'
  BY <1>17, SMTT(30) DEF Upstream, TypeOK
<1>18. ASSUME NEW c \in Topics, NEW t \in Tx, CommitOffset(c, t) PROVE TypeOK'
  <2>1. off' \in [Topics -> [Tx -> Nat]]
    BY <1>18, NestedUpdate DEF CommitOffset, TypeOK
  <2> QED
    BY <1>18, <2>1 DEF CommitOffset, TypeOK
<1>19. ASSUME NEW c \in CoreTopics, NEW t \in Tx, NEW w \in Workers,
              Rebalance(c, t, w)
       PROVE  TypeOK'
  <2>1. c \in Topics /\ 0 \in 0 .. MaxAttempts - 1
    BY PipelineAssumption DEF Topics
  <2>2. pos' \in [Topics -> [Tx -> Nat]]
    <3>1. off[c][t] \in Nat
      BY <2>1 DEF TypeOK
    <3> QED
      BY <1>19, <2>1, <3>1, PositionType DEF Rebalance
  <2>3. attempts' \in [CoreTopics -> [Tx -> 0 .. MaxAttempts - 1]]
    BY <1>19, <2>1, NestedUpdate DEF Rebalance, TypeOK
  <2>4. owner' \in [CoreTopics -> [Tx -> Workers]]
    BY <1>19, NestedUpdate DEF Rebalance, TypeOK
  <2>5. HandlerTypeOK'
    <3> DEFINE g(v) == IF handler[c][v].tx = t
                          THEN [handler[c][v] EXCEPT !.fenced = TRUE]
                          ELSE handler[c][v]
    <3>1. \A v \in Workers :
             /\ g(v) \in Handler /\ g(v).pc = handler[c][v].pc
             /\ g(v).tx = handler[c][v].tx /\ g(v).entity = handler[c][v].entity
      <4> SUFFICES ASSUME NEW v \in Workers, NEW r, r = handler[c][v]
                   PROVE  LET q == IF r.tx = t THEN [r EXCEPT !.fenced = TRUE] ELSE r
                          IN  /\ q \in Handler /\ q.pc = r.pc
                              /\ q.tx = r.tx /\ q.entity = r.entity
        OBVIOUS
      <4>1. r \in Handler
        BY DEF TypeOK
      <4> QED
        BY <4>1 DEF Handler
    <3>2. handler' = [handler EXCEPT ![c] = [v \in Workers |-> g(v)]]
      BY <1>19 DEF Rebalance
    <3> HIDE DEF g
    <3> QED
      BY <3>1, <3>2, SMTT(30) DEF TypeOK, HandlerTypeOK
  <2>6. faults' \in 0 .. MaxFaults
    BY <1>19, FaultType DEF Rebalance
  <2> QED
    BY <1>19, <2>2, <2>3, <2>4, <2>5, <2>6 DEF Rebalance, TypeOK, HandlerTypeOK
<1>20. ASSUME NEW t \in Tx, AgentRestart(t) PROVE TypeOK'
  <2>1. pos' \in [Topics -> [Tx -> Nat]]
    <3>1. "req" \in Topics /\ off["req"][t] \in Nat
      BY DEF TypeOK, Topics
    <3> QED
      BY <1>20, <3>1, PositionType DEF AgentRestart
  <2> QED
    BY <1>20, <2>1, FaultType DEF AgentRestart, TypeOK
<1>21. ASSUME NEW c \in CoreTopics, NEW w \in Workers, HandlerFails(c, w)
       PROVE  TypeOK'
  <2>1. faults' \in 0 .. MaxFaults
    BY <1>21, FaultType DEF HandlerFails
  <2> QED
    BY <1>21, <2>1, NackType DEF HandlerFails
<1>22. ASSUME NEW w \in Workers, Crash(w) PROVE TypeOK'
  <2>1. faults' \in 0 .. MaxFaults
    BY <1>22, FaultType DEF Crash
  <2>2. 0 \in 0 .. MaxAttempts - 1
    BY PipelineAssumption
  <2>3. HandlerTypeOK'
    BY <1>22 DEF Crash, TypeOK, HandlerTypeOK, Idle, Handler
  <2>4. pos' \in [Topics -> [Tx -> Nat]]
    BY <1>22 DEF Crash, TypeOK
  <2>5. attempts' \in [CoreTopics -> [Tx -> 0 .. MaxAttempts - 1]]
    BY <1>22, <2>2 DEF Crash, TypeOK
  <2> QED
    BY <1>22, <2>1, <2>3, <2>4, <2>5 DEF Crash, TypeOK, HandlerTypeOK
<1>23. CASE UNCHANGED vars
  BY <1>23 DEF vars, TypeOK
<1> QED
  BY <1>1, <1>2, <1>3, <1>4, <1>5, <1>6, <1>7, <1>8, <1>9, <1>10, <1>11, <1>12,
     <1>13, <1>14, <1>15, <1>16, <1>17, <1>18, <1>19, <1>20, <1>21, <1>22, <1>23
  DEF Next, RawStep, RespStep, Environment

\* Every reachable state is well typed: in particular a record is never
\* delivered more often than the container's error handler allows, and the
\* budget of faults is respected (the container's Ack and Nack).
THEOREM TypeCorrect == Spec => []TypeOK
<1>1. Init => TypeOK
  BY InitTypeOK
<1>2. TypeOK /\ [Next]_vars => TypeOK'
  BY NextTypeOK
<1> QED
  BY <1>1, <1>2, PTL DEF Spec

-----------------------------------------------------------------------------
(* The inductive invariant, in parts.                                      *)

\* What a handler makes of an answer of the classifier, on either side of the
\* threshold, and of one whose request could not be sent.
IsAccepted(t, e) == \E a \in MlAnswers[t] : ReachesThreshold(a) /\ e = Accepted(a)
IsDeferred(t, e) == \E a \in MlAnswers[t] : ~ReachesThreshold(a) /\ e = Deferred(a)
IsUnsent(t, e) == \E a \in MlAnswers[t] :
    ~ReachesThreshold(a) /\ e = [Deferred(a) EXCEPT !.status = "FAILED"]

\* The classifier may put the transaction to the LLM.
Unsure(t) == \E a \in MlAnswers[t] : ~ReachesThreshold(a)

\* What the entity of a raw handler holds at each step of the call.
RawEntities ==
    \A w \in Workers :
        LET h == handler["raw"][w] IN
        /\ h.pc # "loaded"
        /\ h.pc = "saved" => h.entity = Unclassified("ML_CLASSIFYING")
        /\ h.pc = "decided" =>
              \/ h.entity = Unclassified("FAILED")
              \/ IsAccepted(h.tx, h.entity)
        /\ h.pc = "flushed" => IsDeferred(h.tx, h.entity)
        /\ h.pc = "published" =>
              IsDeferred(h.tx, h.entity) \/ IsUnsent(h.tx, h.entity)

\* e is what an answer in the log makes of the row of t.
IsAnswer(t, e, log) == \E i \in 1 .. Len(log) : e = Answered(t, log[i])

\* A response handler holds an answer that is in the log, for an existing row.
RespEntities ==
    \A w \in Workers :
        LET h == handler["resp"][w] IN
        /\ h.pc \in {"idle", "loaded"}
        /\ h.pc = "loaded" => /\ row[h.tx] # Null
                                 /\ IsAnswer(h.tx, h.entity, respLog[h.tx])

\* The committed rows.
RowShapes ==
    \A t \in Tx :
        \/ row[t] = Null
        \/ IsAccepted(t, row[t])
        \/ IsDeferred(t, row[t])
        \/ IsUnsent(t, row[t])
        \/ row[t] = Unclassified("FAILED")
        \/ IsAnswer(t, row[t], respLog[t])

\* Only transactions some answer for which is below the threshold are put to
\* the LLM.
OnlyUnsureAreSent ==
    \A t \in Tx : reqEnd[t] > 0 \/ respLog[t] # <<>> => Unsure(t)

\* A position has passed a raw event only with its row, or with a loss.
PassedIsRecorded ==
    \A t \in Tx : pos["raw"][t] > 0 \/ off["raw"][t] > 0 =>
                      row[t] # Null \/ <<t, "raw">> \in losses

-----------------------------------------------------------------------------
(* What one step does to a thread, to a row and to the logs.               *)

RawMove(h, g) ==
    \/ g.pc = "idle"
    \/ g.pc = "checked"
    \/ g.pc = h.pc /\ g.tx = h.tx /\ g.entity = h.entity
    \/ /\ h.pc = "checked" /\ g.pc = "saved" /\ g.tx = h.tx
       /\ g.entity = Unclassified("ML_CLASSIFYING")
    \/ /\ h.pc = "saved" /\ g.pc = "decided" /\ g.tx = h.tx
       /\ \/ IsAccepted(h.tx, g.entity)
          \/ g.entity = [h.entity EXCEPT !.status = "FAILED"]
    \/ /\ h.pc = "saved" /\ g.pc = "flushed" /\ g.tx = h.tx
       /\ IsDeferred(h.tx, g.entity)
    \/ /\ h.pc = "flushed" /\ g.pc = "published" /\ g.tx = h.tx
       /\ \/ g.entity = h.entity
          \/ g.entity = [h.entity EXCEPT !.status = "FAILED"]

LEMMA RawSteps ==
    ASSUME TypeOK, [Next]_vars, NEW v \in Workers
    PROVE  RawMove(handler["raw"][v], handler'["raw"][v])
<1> USE DEF CoreTopics
<1> DEFINE Goal == RawMove(handler["raw"][v], handler'["raw"][v])
<1>1. handler["raw"][v] = handler'["raw"][v] => Goal
  BY DEF RawMove
<1>2. handler'["raw"][v].pc = "idle" => Goal
  BY DEF RawMove
<1>3. ASSUME NEW c \in CoreTopics, NEW w \in Workers,
             handler' = [handler EXCEPT ![c][w] = Idle]
      PROVE  Goal
  BY <1>3, <1>1, <1>2 DEF TypeOK, Idle
<1>4. ASSUME NEW w \in Workers, NEW g,
             Proceed("raw", w, g), RawMove(handler["raw"][w], g)
      PROVE  Goal
  BY <1>4, <1>1 DEF TypeOK, Proceed
<1>5. ASSUME UNCHANGED handler PROVE Goal
  BY <1>5, <1>1
<1>6. ASSUME NEW w \in Workers, RawStep(w) PROVE Goal
  <2>1. ASSUME NEW t \in Tx, SkipDuplicate(w, t) PROVE Goal
    BY <2>1, <1>5 DEF SkipDuplicate
  <2>2. ASSUME NEW t \in Tx, BeginRaw(w, t) PROVE Goal
    BY <2>2, <1>4 DEF BeginRaw, RawMove, Idle
  <2> DEFINE h == handler["raw"][w]
  <2>0. h \in Handler /\ (h.pc \notin {"idle", "checked"} => h.entity \in Row)
    BY DEF TypeOK
  <2>3. ASSUME SaveMlClassifying(w) PROVE Goal
    <3> DEFINE g == [h EXCEPT !.pc = "saved",
                          !.entity = Unclassified("ML_CLASSIFYING"),
                          !.inserts = (row[h.tx] = Null)]
    <3>1. RawMove(h, g)
      BY <2>3, <2>0 DEF SaveMlClassifying, RawMove, Handler
    <3> QED
      BY <2>3, <3>1, <1>4 DEF SaveMlClassifying
  <2>4. ASSUME AcceptMl(w) PROVE Goal
    <3>0. PICK a \in MlAnswers[h.tx] :
              /\ ReachesThreshold(a) /\ h.pc = "saved"
              /\ Proceed("raw", w, [h EXCEPT !.pc = "decided", !.entity = Accepted(a)])
      BY <2>4 DEF AcceptMl
    <3> DEFINE g == [h EXCEPT !.pc = "decided", !.entity = Accepted(a)]
    <3>1. g.pc = "decided" /\ g.tx = h.tx /\ IsAccepted(h.tx, g.entity)
      BY <2>0, <3>0 DEF Handler, IsAccepted
    <3>2. RawMove(h, g)
      BY <3>0, <3>1 DEF RawMove
    <3> QED
      BY <3>0, <3>2, <1>4
  <2>5. ASSUME ClassifierFails(w) PROVE Goal
    <3> DEFINE g == [h EXCEPT !.pc = "decided", !.entity.status = "FAILED"]
    <3>1. RawMove(h, g)
      BY <2>5, <2>0 DEF ClassifierFails, RawMove, Handler
    <3> QED
      BY <2>5, <3>1, <1>4 DEF ClassifierFails
  <2>6. ASSUME PublishRequest(w) PROVE Goal
    <3> DEFINE g == [h EXCEPT !.pc = "published"]
    <3>1. RawMove(h, g)
      BY <2>6, <2>0 DEF PublishRequest, RawMove, Handler
    <3> QED
      BY <2>6, <3>1, <1>4 DEF PublishRequest
  <2>7. ASSUME PublishThrows(w) PROVE Goal
    <3> DEFINE g == [h EXCEPT !.pc = "published", !.entity.status = "FAILED"]
    <3>1. RawMove(h, g)
      BY <2>7, <2>0 DEF PublishThrows, RawMove, Handler
    <3> QED
      BY <2>7, <3>1, <1>4 DEF PublishThrows
  <2>8. ASSUME DeferToLlm(w) PROVE Goal
    <3>1. CASE Conflict(w)
      BY <2>8, <3>1, <1>3 DEF DeferToLlm, Nack
    <3>2. CASE ~Conflict(w)
      <4>0. PICK a \in MlAnswers[h.tx] :
                /\ ~ReachesThreshold(a) /\ h.pc = "saved"
                /\ Proceed("raw", w, [h EXCEPT !.pc = "flushed", !.entity = Deferred(a)])
        BY <2>8, <3>2 DEF DeferToLlm
      <4> DEFINE g == [h EXCEPT !.pc = "flushed", !.entity = Deferred(a)]
      <4>1. g.pc = "flushed" /\ g.tx = h.tx /\ IsDeferred(h.tx, g.entity)
        BY <2>0, <4>0 DEF Handler, IsDeferred
      <4>2. RawMove(h, g)
        BY <4>0, <4>1 DEF RawMove
      <4> QED
        BY <4>0, <4>2, <1>4
    <3> QED
      BY <3>1, <3>2
  <2>9. ASSUME CommitRaw(w) PROVE Goal
    BY <2>9, <1>3 DEF CommitRaw, Ack
  <2>10. ASSUME CommitConflict(w) PROVE Goal
    BY <2>10, <1>3 DEF CommitConflict, Nack
  <2> QED
    BY <1>6, <2>1, <2>2, <2>3, <2>4, <2>5, <2>6, <2>7, <2>8, <2>9, <2>10
    DEF RawStep
<1>7. ASSUME NEW w \in Workers, RespStep(w) PROVE Goal
  <2>1. ASSUME NEW t \in Tx, DropResponse(w, t) PROVE Goal
    BY <2>1, <1>5 DEF DropResponse
  <2>2. ASSUME NEW t \in Tx, LoadForResponse(w, t) PROVE Goal
    BY <2>2, <1>1 DEF LoadForResponse, Proceed, TypeOK
  <2>3. ASSUME CommitResponse(w) PROVE Goal
    BY <2>3, <1>3 DEF CommitResponse, Ack
  <2> QED
    BY <1>7, <2>1, <2>2, <2>3 DEF RespStep
<1>8. ASSUME NEW t \in Tx, Respond(t) PROVE Goal
  BY <1>8, <1>5 DEF Respond
<1>9. ASSUME Environment PROVE Goal
  <2>1. ASSUME NEW t \in Tx, Upstream(t) \/ ResponseLost(t) \/ AgentRestart(t)
        PROVE  Goal
    BY <2>1, <1>5 DEF Upstream, ResponseLost, AgentRestart
  <2>2. ASSUME NEW c \in Topics, NEW t \in Tx, CommitOffset(c, t) PROVE Goal
    BY <2>2, <1>5 DEF CommitOffset
  <2>3. ASSUME NEW c \in CoreTopics, NEW t \in Tx, NEW w \in Workers,
               Rebalance(c, t, w)
        PROVE  Goal
    BY <2>3 DEF Rebalance, TypeOK, Handler, RawMove
  <2>4. ASSUME NEW c \in CoreTopics, NEW w \in Workers, HandlerFails(c, w)
        PROVE  Goal
    BY <2>4, <1>3 DEF HandlerFails, Nack
  <2>5. ASSUME NEW w \in Workers, RequestLost(w) PROVE Goal
    <3> DEFINE h == handler["raw"][w]
               g == [h EXCEPT !.pc = "published"]
    <3>1. h \in Handler
      BY DEF TypeOK
    <3>2. RawMove(h, g)
      BY <2>5, <3>1 DEF RequestLost, RawMove, Handler
    <3> QED
      BY <2>5, <3>2, <1>4 DEF RequestLost
  <2>6. ASSUME NEW w \in Workers, Crash(w) PROVE Goal
    BY <2>6, <1>1, <1>2 DEF Crash, TypeOK, Idle
  <2> QED
    BY <1>9, <2>1, <2>2, <2>3, <2>4, <2>5, <2>6 DEF Environment
<1>10. CASE UNCHANGED vars
  BY <1>10, <1>5 DEF vars
<1> QED
  BY <1>6, <1>7, <1>8, <1>9, <1>10 DEF Next

\* Only the two commits write rows.
LEMMA RowSteps ==
    ASSUME [Next]_vars
    PROVE  \/ UNCHANGED row
           \/ \E w \in Workers : CommitRaw(w)
           \/ \E w \in Workers : CommitResponse(w)
BY DEF Next, vars, RawStep, RespStep, Environment, SkipDuplicate, BeginRaw,
       SaveMlClassifying, AcceptMl, ClassifierFails, DeferToLlm, Nack,
       PublishRequest, PublishThrows, CommitConflict, DropResponse,
       LoadForResponse, Respond, Upstream, ResponseLost, AgentRestart,
       CommitOffset, Rebalance, HandlerFails, RequestLost, Crash

\* Only a publication extends the requests, only the agent the responses.
LEMMA LogSteps ==
    ASSUME [Next]_vars
    PROVE  \/ UNCHANGED <<reqEnd, respLog>>
           \/ \E w \in Workers : PublishRequest(w)
           \/ \E t \in Tx : Respond(t)
BY ZenonT(30) DEF Next, vars, RawStep, RespStep, Environment, SkipDuplicate, BeginRaw,
       SaveMlClassifying, AcceptMl, ClassifierFails, DeferToLlm, Nack, Ack,
       PublishThrows, CommitRaw, CommitConflict, DropResponse,
       LoadForResponse, CommitResponse, Upstream, ResponseLost, AgentRestart,
       CommitOffset, Rebalance, HandlerFails, RequestLost, Crash

\* A response thread goes idle, keeps its entity, or loads an answer.
LEMMA RespSteps ==
    ASSUME TypeOK, [Next]_vars, NEW v \in Workers
    PROVE  \/ handler'["resp"][v].pc = "idle"
           \/ /\ handler'["resp"][v].pc = handler["resp"][v].pc
              /\ handler'["resp"][v].tx = handler["resp"][v].tx
              /\ handler'["resp"][v].entity = handler["resp"][v].entity
           \/ \E t \in Tx : LoadForResponse(v, t)
<1> USE DEF CoreTopics
<1> DEFINE Goal ==
           \/ handler'["resp"][v].pc = "idle"
           \/ /\ handler'["resp"][v].pc = handler["resp"][v].pc
              /\ handler'["resp"][v].tx = handler["resp"][v].tx
              /\ handler'["resp"][v].entity = handler["resp"][v].entity
           \/ \E t \in Tx : LoadForResponse(v, t)
<1>1. ASSUME NEW c \in CoreTopics, NEW w \in Workers,
             handler' = [handler EXCEPT ![c][w] = Idle]
      PROVE  Goal
  BY <1>1 DEF TypeOK, Idle
<1>2. ASSUME NEW w \in Workers, NEW g, Proceed("raw", w, g) PROVE Goal
  BY <1>2 DEF TypeOK, Proceed
<1>3. ASSUME UNCHANGED handler PROVE Goal
  BY <1>3
<1>4. ASSUME NEW w \in Workers, RawStep(w) PROVE Goal
  <2>1. ASSUME NEW t \in Tx, SkipDuplicate(w, t) \/ BeginRaw(w, t) PROVE Goal
    BY <2>1, <1>2, <1>3 DEF SkipDuplicate, BeginRaw
  <2>2. ASSUME SaveMlClassifying(w) \/ AcceptMl(w) \/ ClassifierFails(w)
                  \/ PublishRequest(w) \/ PublishThrows(w)
        PROVE  Goal
    BY <2>2, <1>2 DEF SaveMlClassifying, AcceptMl, ClassifierFails,
                      PublishRequest, PublishThrows
  <2>3. ASSUME DeferToLlm(w) PROVE Goal
    BY <2>3, <1>1, <1>2 DEF DeferToLlm, Nack
  <2>4. ASSUME CommitRaw(w) \/ CommitConflict(w) PROVE Goal
    BY <2>4, <1>1 DEF CommitRaw, CommitConflict, Ack, Nack
  <2> QED
    BY <1>4, <2>1, <2>2, <2>3, <2>4 DEF RawStep
<1>5. ASSUME NEW w \in Workers, RespStep(w) PROVE Goal
  <2>1. ASSUME NEW t \in Tx, DropResponse(w, t) PROVE Goal
    BY <2>1, <1>3 DEF DropResponse
  <2>2. ASSUME NEW t \in Tx, LoadForResponse(w, t) PROVE Goal
    <3>1. CASE v = w
      BY <2>2, <3>1
    <3>2. CASE v # w
      BY <2>2, <3>2 DEF LoadForResponse, Proceed, TypeOK
    <3> QED
      BY <3>1, <3>2
  <2>3. ASSUME CommitResponse(w) PROVE Goal
    BY <2>3, <1>1 DEF CommitResponse, Ack
  <2> QED
    BY <1>5, <2>1, <2>2, <2>3 DEF RespStep
<1>6. ASSUME NEW t \in Tx, Respond(t) PROVE Goal
  BY <1>6, <1>3 DEF Respond
<1>7. ASSUME Environment PROVE Goal
  <2>1. ASSUME NEW t \in Tx, Upstream(t) \/ ResponseLost(t) \/ AgentRestart(t)
        PROVE  Goal
    BY <2>1, <1>3 DEF Upstream, ResponseLost, AgentRestart
  <2>2. ASSUME NEW c \in Topics, NEW t \in Tx, CommitOffset(c, t) PROVE Goal
    BY <2>2, <1>3 DEF CommitOffset
  <2>3. ASSUME NEW c \in CoreTopics, NEW t \in Tx, NEW w \in Workers,
               Rebalance(c, t, w)
        PROVE  Goal
    BY <2>3 DEF Rebalance, TypeOK, Handler
  <2>4. ASSUME NEW c \in CoreTopics, NEW w \in Workers, HandlerFails(c, w)
        PROVE  Goal
    BY <2>4, <1>1 DEF HandlerFails, Nack
  <2>5. ASSUME NEW w \in Workers, RequestLost(w) PROVE Goal
    BY <2>5, <1>2 DEF RequestLost
  <2>6. ASSUME NEW w \in Workers, Crash(w) PROVE Goal
    BY <2>6 DEF Crash, TypeOK, Idle
  <2> QED
    BY <1>7, <2>1, <2>2, <2>3, <2>4, <2>5, <2>6 DEF Environment
<1>8. CASE UNCHANGED vars
  BY <1>8, <1>3 DEF vars
<1> QED
  BY <1>4, <1>5, <1>6, <1>7, <1>8 DEF Next

-----------------------------------------------------------------------------
(* What rows, threads and logs hold: the first half of the invariant.      *)

Values == TypeOK /\ RawEntities /\ RespEntities /\ RowShapes /\ OnlyUnsureAreSent

LEMMA InitValues == Init => Values
<1> SUFFICES ASSUME Init PROVE Values
  OBVIOUS
<1>1. TypeOK
  BY InitTypeOK
<1>2. \A c \in CoreTopics, w \in Workers : handler[c][w].pc = "idle"
  BY DEF Init, Idle
<1>3. RawEntities /\ RespEntities
  BY <1>2 DEF RawEntities, RespEntities, CoreTopics
<1>4. RowShapes /\ OnlyUnsureAreSent
  BY DEF Init, RowShapes, OnlyUnsureAreSent
<1> QED
  BY <1>1, <1>3, <1>4 DEF Values

\* Answers accumulate.
LEMMA AnswersStay ==
    ASSUME TypeOK, [Next]_vars, NEW t \in Tx
    PROVE  \A e : IsAnswer(t, e, respLog[t]) => IsAnswer(t, e, respLog'[t])
<1>1. CASE UNCHANGED respLog
  BY <1>1
<1>2. ASSUME NEW u \in Tx, Respond(u), NEW e, IsAnswer(t, e, respLog[t])
      PROVE  IsAnswer(t, e, respLog'[t])
  <2>1. PICK a \in LlmAnswers : respLog' = [respLog EXCEPT ![u] = Append(@, a)]
    BY <1>2 DEF Respond
  <2>2. respLog[t] \in Seq(LlmAnswers)
    BY DEF TypeOK
  <2>3. /\ Len(respLog[t]) \in Nat
        /\ Len(respLog[t]) <= Len(respLog'[t])
        /\ \A i \in 1 .. Len(respLog[t]) : respLog'[t][i] = respLog[t][i]
    BY <2>1, <2>2 DEF TypeOK
  <2>4. Len(respLog'[t]) \in Nat
    BY NextTypeOK DEF TypeOK
  <2>5. PICK i \in 1 .. Len(respLog[t]) : e = Answered(t, respLog[t][i])
    BY <1>2 DEF IsAnswer
  <2>6. i \in 1 .. Len(respLog'[t]) /\ e = Answered(t, respLog'[t][i])
    BY <2>3, <2>4, <2>5
  <2> QED
    BY <2>6 DEF IsAnswer
<1> QED
  BY <1>1, <1>2, LogSteps DEF PublishRequest

\* A row, once committed, stays.
LEMMA RowsStay ==
    ASSUME TypeOK, [Next]_vars, NEW t \in Tx, row[t] # Null
    PROVE  row'[t] # Null
<1>1. ASSUME NEW c \in CoreTopics, NEW w \in Workers, handler[c][w].pc # "idle",
             handler[c][w].pc # "checked",
             row' = [row EXCEPT ![handler[c][w].tx] = handler[c][w].entity]
      PROVE  row'[t] # Null
  <2>1. handler[c][w].entity \in Row
    BY <1>1 DEF TypeOK
  <2>2. handler[c][w].entity # Null
    BY <2>1, NullIsNoRow
  <2> QED
    BY <1>1, <2>2 DEF TypeOK
<1>2. ASSUME NEW w \in Workers, CommitRaw(w) PROVE row'[t] # Null
  BY <1>2, <1>1 DEF CommitRaw, ReadyToCommit, CoreTopics
<1>3. ASSUME NEW w \in Workers, CommitResponse(w) PROVE row'[t] # Null
  BY <1>3, <1>1 DEF CommitResponse, CoreTopics
<1> QED
  BY <1>2, <1>3, RowSteps

LEMMA NextRawEntities ==
    ASSUME TypeOK, RawEntities, [Next]_vars
    PROVE  RawEntities'
<1> SUFFICES ASSUME NEW v \in Workers
             PROVE  LET g == handler'["raw"][v] IN
                    /\ g.pc # "loaded"
                    /\ g.pc = "saved" => g.entity = Unclassified("ML_CLASSIFYING")
                    /\ g.pc = "decided" =>
                          \/ g.entity = Unclassified("FAILED")
                          \/ IsAccepted(g.tx, g.entity)
                    /\ g.pc = "flushed" => IsDeferred(g.tx, g.entity)
                    /\ g.pc = "published" =>
                          IsDeferred(g.tx, g.entity) \/ IsUnsent(g.tx, g.entity)
  BY DEF RawEntities, IsAccepted, IsDeferred, IsUnsent, ReachesThreshold, Accepted,
         Deferred, Unclassified, Labelled
<1> DEFINE h == handler["raw"][v]
           g == handler'["raw"][v]
<1>1. RawMove(h, g)
  BY RawSteps
<1>2. [Unclassified("ML_CLASSIFYING") EXCEPT !.status = "FAILED"]
         = Unclassified("FAILED")
  <2> DEFINE r == Unclassified("ML_CLASSIFYING")
             q == [r EXCEPT !.status = "FAILED"]
  <2>1. r \in Row /\ Unclassified("FAILED") \in Row
    BY DEF Unclassified, Row, Status
  <2>2. /\ r.category = Null /\ r.source = Null
        /\ r.confidence = Null /\ r.dated = FALSE
    BY DEF Unclassified
  <2>3. q = [status |-> "FAILED", category |-> r.category, source |-> r.source,
             confidence |-> r.confidence, dated |-> r.dated]
    BY <2>1 DEF Row
  <2> QED
    BY <2>2, <2>3 DEF Unclassified
<1>3. CASE g.pc = h.pc /\ g.tx = h.tx /\ g.entity = h.entity
  BY <1>3 DEF RawEntities
<1>4. CASE g.pc \in {"idle", "checked", "saved"}
  BY <1>1, <1>4 DEF RawMove, RawEntities
<1>5. CASE g.pc = "decided" /\ h.pc = "saved"
  BY <1>1, <1>2, <1>5 DEF RawMove, RawEntities
<1>6. CASE g.pc = "flushed" /\ h.pc = "saved"
  BY <1>1, <1>6 DEF RawMove, RawEntities
<1>7. CASE g.pc = "published" /\ h.pc = "flushed"
  <2>1. /\ g.tx = h.tx /\ IsDeferred(h.tx, h.entity)
        /\ g.entity = h.entity \/ g.entity = [h.entity EXCEPT !.status = "FAILED"]
    BY <1>1, <1>7 DEF RawMove, RawEntities
  <2> QED
    BY <1>7, <2>1 DEF IsDeferred, IsUnsent
<1> QED
  BY <1>1, <1>3, <1>4, <1>5, <1>6, <1>7 DEF RawMove

LEMMA NextRespEntities ==
    ASSUME TypeOK, RespEntities, [Next]_vars
    PROVE  RespEntities'
<1> SUFFICES ASSUME NEW v \in Workers
             PROVE  LET g == handler'["resp"][v] IN
                    /\ g.pc \in {"idle", "loaded"}
                    /\ g.pc = "loaded" =>
                          row'[g.tx] # Null /\ IsAnswer(g.tx, g.entity, respLog'[g.tx])
  BY DEF RespEntities, IsAnswer, Answered, Labelled
<1> DEFINE h == handler["resp"][v]
           g == handler'["resp"][v]
<1>1. CASE g.pc = "idle"
  BY <1>1
<1>2. CASE g.pc = h.pc /\ g.tx = h.tx /\ g.entity = h.entity
  <2>1. CASE h.pc = "idle"
    BY <1>2, <2>1
  <2>2. CASE h.pc = "loaded"
    <3>1. h.tx \in Tx /\ row[h.tx] # Null /\ IsAnswer(h.tx, h.entity, respLog[h.tx])
      BY <2>2 DEF RespEntities, TypeOK, CoreTopics
    <3>2. row'[h.tx] # Null
      BY <3>1, RowsStay
    <3>3. \A e : IsAnswer(h.tx, e, respLog[h.tx])
                  => IsAnswer(h.tx, e, respLog'[h.tx])
      BY <3>1, AnswersStay
    <3> QED
      BY <1>2, <2>2, <3>1, <3>2, <3>3
  <2> QED
    BY <1>2, <2>1, <2>2 DEF RespEntities
<1>3. ASSUME NEW t \in Tx, LoadForResponse(v, t)
      PROVE  /\ g.pc = "loaded"
             /\ row'[g.tx] # Null /\ IsAnswer(g.tx, g.entity, respLog'[g.tx])
  <2> DEFINE i == pos["resp"][t] + 1
  <2>1. i \in 1 .. Len(respLog[t])
    BY <1>3 DEF LoadForResponse, Deliverable, EndOf, TypeOK, Topics
  <2>2. g = [Idle EXCEPT !.pc = "loaded", !.tx = t,
                         !.entity = Answered(t, respLog[t][i])]
    BY <1>3 DEF LoadForResponse, Proceed, TypeOK, CoreTopics
  <2>3. g.pc = "loaded" /\ g.tx = t /\ g.entity = Answered(t, respLog[t][i])
    BY <2>2 DEF Idle
  <2>4. row'[t] # Null /\ respLog' = respLog
    BY <1>3 DEF LoadForResponse
  <2> HIDE DEF i
  <2> QED
    BY <2>1, <2>3, <2>4 DEF IsAnswer
<1> QED
  BY <1>1, <1>2, <1>3, RespSteps

LEMMA NextRowShapes ==
    ASSUME TypeOK, RawEntities, RespEntities, RowShapes, [Next]_vars
    PROVE  RowShapes'
<1> DEFINE Shape(t, e) ==
        \/ e = Null
        \/ IsAccepted(t, e) \/ IsDeferred(t, e) \/ IsUnsent(t, e)
        \/ e = Unclassified("FAILED")
        \/ IsAnswer(t, e, respLog[t])
<1> SUFFICES ASSUME NEW t \in Tx
             PROVE  \/ row'[t] = Null
                    \/ IsAccepted(t, row'[t]) \/ IsDeferred(t, row'[t])
                    \/ IsUnsent(t, row'[t])
                    \/ row'[t] = Unclassified("FAILED")
                    \/ IsAnswer(t, row'[t], respLog'[t])
  BY DEF RowShapes, IsAccepted, IsDeferred, IsUnsent, ReachesThreshold, Accepted,
         Deferred, Unclassified, Labelled
<1>1. Shape(t, row'[t])
  <2>1. CASE row'[t] = row[t]
    BY <2>1 DEF RowShapes
  <2>2. ASSUME NEW w \in Workers, CommitRaw(w) PROVE Shape(t, row'[t])
    <3>1. CASE handler["raw"][w].tx = t
      <4>1. row'[t] = handler["raw"][w].entity
        BY <2>2, <3>1 DEF CommitRaw, TypeOK
      <4>2. handler["raw"][w].pc \in {"decided", "published"}
        BY <2>2 DEF CommitRaw, ReadyToCommit
      <4> QED
        BY <3>1, <4>1, <4>2 DEF RawEntities
    <3>2. CASE handler["raw"][w].tx # t
      BY <2>2, <3>2, <2>1 DEF CommitRaw, TypeOK
    <3> QED
      BY <3>1, <3>2
  <2>3. ASSUME NEW w \in Workers, CommitResponse(w) PROVE Shape(t, row'[t])
    <3>1. CASE handler["resp"][w].tx = t
      BY <2>3, <3>1 DEF CommitResponse, TypeOK, RespEntities
    <3>2. CASE handler["resp"][w].tx # t
      BY <2>3, <3>2, <2>1 DEF CommitResponse, TypeOK
    <3> QED
      BY <3>1, <3>2
  <2> QED
    BY <2>1, <2>2, <2>3, RowSteps
<1>2. IsAnswer(t, row'[t], respLog[t]) => IsAnswer(t, row'[t], respLog'[t])
  BY AnswersStay
<1> QED
  BY <1>1, <1>2

LEMMA NextOnlyUnsureAreSent ==
    ASSUME TypeOK, RawEntities, OnlyUnsureAreSent, [Next]_vars
    PROVE  OnlyUnsureAreSent'
<1> SUFFICES ASSUME NEW t \in Tx, reqEnd'[t] > 0 \/ respLog'[t] # <<>>
             PROVE  Unsure(t)
  BY DEF OnlyUnsureAreSent, Unsure, ReachesThreshold
<1>1. CASE UNCHANGED <<reqEnd, respLog>>
  BY <1>1 DEF OnlyUnsureAreSent
<1>2. ASSUME NEW w \in Workers, PublishRequest(w) PROVE Unsure(t)
  <2>1. CASE handler["raw"][w].tx = t
    BY <1>2, <2>1 DEF PublishRequest, RawEntities, IsDeferred, Unsure
  <2>2. CASE handler["raw"][w].tx # t
    BY <1>2, <2>2 DEF PublishRequest, OnlyUnsureAreSent, TypeOK
  <2> QED
    BY <2>1, <2>2
<1>3. ASSUME NEW u \in Tx, Respond(u) PROVE Unsure(t)
  <2>1. CASE u = t
    <3>1. pos["req"][t] \in Nat /\ reqEnd[t] \in Nat /\ pos["req"][t] < reqEnd[t]
      BY <1>3, <2>1 DEF Respond, TypeOK, Topics
    <3>2. reqEnd[t] > 0
      BY <3>1
    <3> QED
      BY <3>2 DEF OnlyUnsureAreSent
  <2>2. CASE u # t
    BY <1>3, <2>2 DEF Respond, OnlyUnsureAreSent, TypeOK
  <2> QED
    BY <2>1, <2>2
<1> QED
  BY <1>1, <1>2, <1>3, LogSteps

LEMMA ValuesInvariant == Spec => []Values
<1>1. Values /\ [Next]_vars => Values'
  BY NextTypeOK, NextRawEntities, NextRespEntities, NextRowShapes,
     NextOnlyUnsureAreSent DEF Values
<1> QED
  BY <1>1, InitValues, PTL DEF Spec

\* What a committed row can say of itself.
LEMMA ShapesOfRows ==
    ASSUME Values, NEW t \in Tx, row[t] # Null
    PROVE  \/ /\ row[t].status = "CLASSIFIED" /\ row[t].source = "ML"
              /\ row[t].category # Null /\ row[t].dated
              /\ row[t].confidence >= Threshold
              /\ \E a \in MlAnswers[t] : ReachesThreshold(a)
           \/ /\ row[t].status \in {"LLM_CLASSIFYING", "FAILED"} /\ ~row[t].dated
              /\ row[t].source = "ML" /\ row[t].confidence < Threshold
           \/ row[t] = Unclassified("FAILED")
           \/ /\ row[t].status = "CLASSIFIED" /\ row[t].source = "LLM"
              /\ row[t].category # Null /\ row[t].dated
              /\ IsAnswer(t, row[t], respLog[t])
<1>1. /\ \A a \in MlAnswers[t] : a.category \in Categories /\ a.confidence \in Nat
      /\ Threshold \in Nat /\ Null \notin Categories
  BY PipelineAssumption DEF Answer
<1>2. CASE IsAccepted(t, row[t])
  <2>1. PICK a \in MlAnswers[t] : ReachesThreshold(a) /\ row[t] = Accepted(a)
    BY <1>2 DEF IsAccepted
  <2> QED
    BY <1>1, <2>1 DEF Accepted, Labelled, ReachesThreshold
<1>3. CASE IsDeferred(t, row[t])
  <2>1. PICK a \in MlAnswers[t] : ~ReachesThreshold(a) /\ row[t] = Deferred(a)
    BY <1>3 DEF IsDeferred
  <2> QED
    BY <1>1, <2>1 DEF Deferred, Labelled, ReachesThreshold
<1>4. CASE IsUnsent(t, row[t])
  <2>0. PICK a \in MlAnswers[t] : /\ ~ReachesThreshold(a)
                                  /\ row[t] = [Deferred(a) EXCEPT !.status = "FAILED"]
    BY <1>4 DEF IsUnsent
  <2>1. Deferred(a) \in Row
    BY RecordTypes
  <2>2. /\ row[t].status = "FAILED" /\ row[t].source = Deferred(a).source
        /\ row[t].confidence = Deferred(a).confidence
        /\ row[t].dated = Deferred(a).dated
    BY <2>0, <2>1 DEF Row
  <2>3. ~Deferred(a).dated
    BY DEF Deferred, Labelled
  <2>4. Deferred(a).source = "ML" /\ Deferred(a).confidence < Threshold
    BY <1>1, <2>0 DEF Deferred, Labelled, ReachesThreshold
  <2> QED
    BY <2>2, <2>3, <2>4
<1>5. CASE IsAnswer(t, row[t], respLog[t])
  <2>1. PICK i \in 1 .. Len(respLog[t]) : row[t] = Answered(t, respLog[t][i])
    BY <1>5 DEF IsAnswer
  <2>2. respLog[t][i] \in Answer
    BY PipelineAssumption DEF Values, TypeOK
  <2> QED
    BY <1>1, <1>5, <2>1, <2>2 DEF Answered, Labelled, Answer
<1> QED
  BY <1>2, <1>3, <1>4, <1>5 DEF Values, RowShapes

\* For every classifier and every threshold, readers see only settled rows:
\* handleRawTransaction and handleLlmClassifierResponse commit nothing else.
THEOREM SettledRows == Spec => []RowsAreSettled
<1>1. Values => RowsAreSettled
  BY ShapesOfRows DEF RowsAreSettled
<1> QED
  BY <1>1, ValuesInvariant, PTL

\* A row labelled LLM shows one of the agent's answers for that transaction,
\* whole.
THEOREM LlmLabels == Spec => []LlmLabelsAreAnswers
<1>1. ASSUME Values, NEW t \in Tx, row[t] # Null, row[t].source = "LLM"
      PROVE  \E i \in 1 .. Len(respLog[t]) :
                row[t] = Labelled("CLASSIFIED", "LLM", respLog[t][i], TRUE)
  <2>1. Null # "LLM"
    BY PipelineAssumption
  <2>2. IsAnswer(t, row[t], respLog[t])
    BY <1>1, <2>1, ShapesOfRows DEF Unclassified
  <2> QED
    BY <2>2 DEF IsAnswer, Answered
<1>2. Values => LlmLabelsAreAnswers
  BY <1>1 DEF LlmLabelsAreAnswers
<1> QED
  BY <1>2, ValuesInvariant, PTL

-----------------------------------------------------------------------------
(* Offsets: the second half of the invariant.                              *)

Recorded(t) == row[t] # Null \/ <<t, "raw">> \in losses

LEMMA LossesStay == [Next]_vars => losses \subseteq losses'
BY DEF Next, vars, RawStep, RespStep, Environment, SkipDuplicate, BeginRaw,
       SaveMlClassifying, AcceptMl, ClassifierFails, DeferToLlm, Nack,
       PublishRequest, PublishThrows, CommitRaw, CommitConflict, DropResponse,
       LoadForResponse, CommitResponse, Respond, Upstream, ResponseLost,
       AgentRestart, CommitOffset, Rebalance, HandlerFails, RequestLost, Crash

\* A position moves past a raw event with the row in place, or with the loss
\* written down; otherwise it stays or goes back to the offset.
LEMMA PositionSteps ==
    ASSUME TypeOK, [Next]_vars, NEW t \in Tx
    PROVE  \/ pos'["raw"][t] = pos["raw"][t]
           \/ pos'["raw"][t] = off["raw"][t]
           \/ Recorded(t)'
<1> USE DEF CoreTopics, Topics
<1> DEFINE Goal == \/ pos'["raw"][t] = pos["raw"][t]
                   \/ pos'["raw"][t] = off["raw"][t]
                   \/ Recorded(t)'
<1>1. ASSUME UNCHANGED pos PROVE Goal
  BY <1>1
<1>2. ASSUME NEW c \in CoreTopics, NEW u \in Tx, MoveOn(c, u),
             c = "raw" /\ u = t => Recorded(t)'
      PROVE  Goal
  BY <1>2 DEF MoveOn, TypeOK
<1>3. ASSUME NEW c \in CoreTopics, NEW w \in Workers, handler[c][w].pc # "idle",
             Nack(c, w)
      PROVE  Goal
  <2> DEFINE u == handler[c][w].tx
  <2>1. u \in Tx
    BY <1>3 DEF TypeOK
  <2>2. \/ UNCHANGED pos
        \/ MoveOn(c, u) /\ losses' = losses \cup {<<u, c>>}
    BY <1>3 DEF Nack
  <2>3. ASSUME MoveOn(c, u), losses' = losses \cup {<<u, c>>} PROVE Goal
    <3>1. c = "raw" /\ u = t => Recorded(t)'
      BY <2>3 DEF Recorded
    <3> HIDE DEF u
    <3> QED
      BY <2>1, <2>3, <3>1, <1>2
  <2> QED
    BY <2>2, <2>3, <1>1
<1>4. ASSUME NEW w \in Workers, RawStep(w) PROVE Goal
  <2>1. ASSUME NEW u \in Tx, SkipDuplicate(w, u) PROVE Goal
    BY <2>1, <1>2 DEF SkipDuplicate, Recorded
  <2>2. ASSUME NEW u \in Tx, BeginRaw(w, u) PROVE Goal
    BY <2>2, <1>1 DEF BeginRaw
  <2>3. ASSUME SaveMlClassifying(w) \/ AcceptMl(w) \/ ClassifierFails(w)
                  \/ PublishRequest(w) \/ PublishThrows(w)
        PROVE  Goal
    BY <2>3, <1>1 DEF SaveMlClassifying, AcceptMl, ClassifierFails,
                      PublishRequest, PublishThrows
  <2>4. ASSUME DeferToLlm(w) PROVE Goal
    BY <2>4, <1>1, <1>3 DEF DeferToLlm
  <2>5. ASSUME CommitRaw(w) PROVE Goal
    <3> DEFINE h == handler["raw"][w]
    <3>1. h.pc # "idle" /\ h.pc # "checked" /\ h.tx \in Tx /\ h.entity \in Row
      BY <2>5 DEF CommitRaw, ReadyToCommit, TypeOK
    <3>2. row'[h.tx] # Null
      BY <2>5, <3>1, NullIsNoRow DEF CommitRaw, TypeOK
    <3>3. UNCHANGED pos \/ MoveOn("raw", h.tx)
      BY <2>5 DEF CommitRaw, Ack
    <3>4. h.tx = t => Recorded(t)'
      BY <3>2 DEF Recorded
    <3> HIDE DEF h
    <3> QED
      BY <3>1, <3>3, <3>4, <1>1, <1>2
  <2>6. ASSUME CommitConflict(w) PROVE Goal
    BY <2>6, <1>3 DEF CommitConflict
  <2> QED
    BY <1>4, <2>1, <2>2, <2>3, <2>4, <2>5, <2>6 DEF RawStep
<1>5. ASSUME NEW w \in Workers, RespStep(w) PROVE Goal
  <2>1. ASSUME NEW u \in Tx, DropResponse(w, u) PROVE Goal
    BY <2>1, <1>2 DEF DropResponse
  <2>2. ASSUME NEW u \in Tx, LoadForResponse(w, u) PROVE Goal
    BY <2>2, <1>1 DEF LoadForResponse
  <2>3. ASSUME CommitResponse(w) PROVE Goal
    <3>1. handler["resp"][w].tx \in Tx
      BY <2>3 DEF CommitResponse, TypeOK
    <3>2. UNCHANGED pos \/ MoveOn("resp", handler["resp"][w].tx)
      BY <2>3 DEF CommitResponse, Ack
    <3> QED
      BY <3>1, <3>2, <1>1, <1>2
  <2> QED
    BY <1>5, <2>1, <2>2, <2>3 DEF RespStep
<1>6. ASSUME NEW u \in Tx, Respond(u) \/ ResponseLost(u) \/ AgentRestart(u)
      PROVE  Goal
  BY <1>6 DEF Respond, ResponseLost, AgentRestart, TypeOK
<1>7. ASSUME Environment PROVE Goal
  <2>1. ASSUME NEW u \in Tx, Upstream(u) PROVE Goal
    BY <2>1, <1>1 DEF Upstream
  <2>2. ASSUME NEW c \in Topics, NEW u \in Tx, CommitOffset(c, u) PROVE Goal
    BY <2>2, <1>1 DEF CommitOffset
  <2>3. ASSUME NEW c \in CoreTopics, NEW u \in Tx, NEW w \in Workers,
               Rebalance(c, u, w)
        PROVE  Goal
    BY <2>3 DEF Rebalance, TypeOK
  <2>4. ASSUME NEW c \in CoreTopics, NEW w \in Workers, HandlerFails(c, w)
        PROVE  Goal
    BY <2>4, <1>3 DEF HandlerFails
  <2>5. ASSUME NEW w \in Workers, RequestLost(w) PROVE Goal
    BY <2>5, <1>1 DEF RequestLost
  <2>6. ASSUME NEW w \in Workers, Crash(w) PROVE Goal
    BY <2>6 DEF Crash, TypeOK
  <2> QED
    BY <1>6, <1>7, <2>1, <2>2, <2>3, <2>4, <2>5, <2>6 DEF Environment
<1>8. CASE UNCHANGED vars
  BY <1>8, <1>1 DEF vars
<1> QED
  BY <1>4, <1>5, <1>6, <1>7, <1>8 DEF Next

\* Only CommitOffset moves an offset, and only to the position.
LEMMA OffsetSteps ==
    ASSUME TypeOK, [Next]_vars, NEW t \in Tx
    PROVE  off'["raw"][t] = off["raw"][t] \/ off'["raw"][t] = pos["raw"][t]
<1>1. UNCHANGED off \/ \E c \in Topics, u \in Tx : CommitOffset(c, u)
  BY DEF Next, vars, RawStep, RespStep, Environment, SkipDuplicate, BeginRaw,
         SaveMlClassifying, AcceptMl, ClassifierFails, DeferToLlm, Nack,
         PublishRequest, PublishThrows, CommitRaw, CommitConflict, DropResponse,
         LoadForResponse, CommitResponse, Respond, Upstream, ResponseLost,
         AgentRestart, Rebalance, HandlerFails, RequestLost, Crash
<1>2. ASSUME NEW c \in Topics, NEW u \in Tx, CommitOffset(c, u)
      PROVE  off'["raw"][t] = off["raw"][t] \/ off'["raw"][t] = pos["raw"][t]
  BY <1>2 DEF CommitOffset, TypeOK, Topics
<1> QED
  BY <1>1, <1>2

\* "No loss of transactions": an offset is committed past a raw event only
\* when the transaction is in the database, or after the container has given
\* the record up; for any number of instances, crashes and rebalances.
THEOREM RecordedOffsets == Spec => []CommittedOffsetsAreRecorded
<1>1. Init => PassedIsRecorded
  BY DEF Init, PassedIsRecorded, Topics
<1>2. ASSUME TypeOK, PassedIsRecorded, [Next]_vars PROVE PassedIsRecorded'
  <2> SUFFICES ASSUME NEW t \in Tx, pos'["raw"][t] > 0 \/ off'["raw"][t] > 0
               PROVE  Recorded(t)'
    BY DEF PassedIsRecorded, Recorded
  <2>1. Recorded(t) => Recorded(t)'
    BY <1>2, RowsStay, LossesStay DEF Recorded
  <2>2. CASE pos["raw"][t] > 0 \/ off["raw"][t] > 0
    BY <1>2, <2>1, <2>2 DEF PassedIsRecorded, Recorded
  <2>3. CASE ~(pos["raw"][t] > 0 \/ off["raw"][t] > 0)
    BY <1>2, <2>3, PositionSteps, OffsetSteps
  <2> QED
    BY <2>2, <2>3
<1>3. PassedIsRecorded => CommittedOffsetsAreRecorded
  BY DEF PassedIsRecorded, CommittedOffsetsAreRecorded
<1> QED
  BY <1>1, <1>2, <1>3, TypeCorrect, PTL DEF Spec

-----------------------------------------------------------------------------
(* Who is in a call, and where the positions are.                          *)

InCall(c, w, t) == handler[c][w].pc # "idle" /\ handler[c][w].tx = t

\* The call under way that the position of the record waits for.
Holds(c, w, t) == InCall(c, w, t) /\ handler[c][w].fenced = FALSE

Bounds == \A c \in Topics, t \in Tx : off[c][t] <= pos[c][t] /\ pos[c][t] <= EndOf(c, t)

Holders == \A c \in CoreTopics, w \in Workers, t \in Tx :
    Holds(c, w, t) => owner[c][t] = w /\ pos[c][t] < EndOf(c, t)

\* A step, by what it does to a listener thread and to its position: a call
\* begins, a record is passed without one, a call goes on, or ends.
Starts(c, w, t) ==
    /\ \/ c = "raw" /\ BeginRaw(w, t)
       \/ c = "resp" /\ LoadForResponse(w, t)
    /\ Deliverable(c, w, t)
    /\ \E g \in Handler : /\ g.pc = (IF c = "raw" THEN "checked" ELSE "loaded")
                          /\ g.tx = t /\ g.fenced = FALSE
                          /\ Proceed(c, w, g)
    /\ UNCHANGED <<row, rawEnd, reqEnd, respLog, pos, off, owner, losses, faults>>

Skips(c, w, t) ==
    /\ Deliverable(c, w, t) /\ MoveOn(c, t)
    /\ c = "resp" => losses' = losses \cup {<<t, "not found">>}
    /\ UNCHANGED <<row, rawEnd, reqEnd, respLog, off, owner, handler, faults>>

GoesOn(w, g) ==
    /\ handler["raw"][w].pc \in {"checked", "saved", "flushed"}
    /\ g.tx = handler["raw"][w].tx /\ g.fenced = handler["raw"][w].fenced
    /\ g.pc \in {"saved", "decided", "flushed", "published"}
    /\ Proceed("raw", w, g)
    /\ UNCHANGED <<row, rawEnd, respLog, pos, off, owner>>
    /\ \/ g.pc # "published" /\ UNCHANGED <<reqEnd, losses, faults>>
       \/ PublishRequest(w) \/ RequestLost(w) \/ PublishThrows(w)

Returns(c, w) ==
    LET t == handler[c][w].tx IN
    /\ handler[c][w].pc # "idle"
    /\ handler' = [handler EXCEPT ![c][w] = Idle]
    /\ \/ UNCHANGED pos
       \/ /\ handler[c][w].fenced = FALSE /\ MoveOn(c, t)
          /\ losses' = losses \cup {<<t, c>>} \/ (c = "resp" => CommitResponse(w))
    /\ \/ (c = "raw" /\ CommitRaw(w)) /\ UNCHANGED faults
       \/ (c = "resp" /\ CommitResponse(w)) /\ UNCHANGED faults
       \/ (c = "raw" /\ row[t] # Null) /\ UNCHANGED <<row, faults>>
       \/ Fault /\ UNCHANGED row
    /\ UNCHANGED <<rawEnd, reqEnd, respLog, off, owner>>

\* Steps beside the listener threads.
Aside ==
    /\ UNCHANGED <<handler, owner, row>>
    /\ \/ \E t \in Tx : Respond(t) \/ ResponseLost(t) \/ Upstream(t) \/ AgentRestart(t)
       \/ \E c \in Topics, t \in Tx : CommitOffset(c, t)
       \/ UNCHANGED vars

LEMMA NackReturns ==
    ASSUME TypeOK, NEW c \in CoreTopics, NEW w \in Workers, handler[c][w].pc # "idle",
           Nack(c, w),
           Fault \/ (c = "raw" /\ row[handler[c][w].tx] # Null /\ UNCHANGED faults)
    PROVE  Returns(c, w)
<1>1. handler[c][w].fenced \in BOOLEAN
  BY DEF TypeOK, Handler
<1> QED
  BY <1>1 DEF Nack, Returns

LEMMA CallSteps ==
    ASSUME TypeOK, [Next]_vars
    PROVE  \/ \E c \in CoreTopics, w \in Workers, t \in Tx : Starts(c, w, t) \/ Skips(c, w, t)
           \/ \E w \in Workers : \E g \in Handler : GoesOn(w, g)
           \/ \E c \in CoreTopics, w \in Workers : Returns(c, w)
           \/ \E c \in CoreTopics, t \in Tx, w \in Workers : Rebalance(c, t, w)
           \/ \E w \in Workers : Crash(w)
           \/ Aside
<1> DEFINE Goal ==
           \/ \E c \in CoreTopics, w \in Workers, t \in Tx : Starts(c, w, t) \/ Skips(c, w, t)
           \/ \E w \in Workers : \E g \in Handler : GoesOn(w, g)
           \/ \E c \in CoreTopics, w \in Workers : Returns(c, w)
           \/ \E c \in CoreTopics, t \in Tx, w \in Workers : Rebalance(c, t, w)
           \/ \E w \in Workers : Crash(w)
           \/ Aside
<1>1. "raw" \in CoreTopics /\ "resp" \in CoreTopics
  BY DEF CoreTopics
<1>2. ASSUME NEW w \in Workers, RawStep(w) \/ RequestLost(w) PROVE Goal
  <2> DEFINE h == handler["raw"][w]
  <2>1. h \in Handler /\ (h.pc # "idle" => h.tx \in Tx)
        /\ (h.pc \notin {"idle", "checked"} => h.entity \in Row)
    BY <1>1 DEF TypeOK
  <2>2. h.fenced \in BOOLEAN
    BY <2>1 DEF Handler
  <2>3. ASSUME NEW t \in Tx, SkipDuplicate(w, t) PROVE Goal
    <3>1. Skips("raw", w, t)
      BY <2>3 DEF SkipDuplicate, Skips
    <3> QED
      BY <1>1, <3>1
  <2>4. ASSUME NEW t \in Tx, BeginRaw(w, t) PROVE Goal
    <3> DEFINE g == [Idle EXCEPT !.pc = "checked", !.tx = t]
    <3>1. g \in Handler /\ g.pc = "checked" /\ g.tx = t /\ g.fenced = FALSE
      BY PipelineAssumption DEF Idle, Handler
    <3>2. Proceed("raw", w, g)
      BY <2>4 DEF BeginRaw
    <3> HIDE DEF g
    <3>3. Starts("raw", w, t)
      BY <2>4, <3>1, <3>2 DEF BeginRaw, Starts
    <3> QED
      BY <1>1, <3>3
  <2>5. ASSUME SaveMlClassifying(w) PROVE Goal
    <3> DEFINE g == [h EXCEPT !.pc = "saved", !.entity = Unclassified("ML_CLASSIFYING"),
                              !.inserts = (row[h.tx] = Null)]
    <3>1. g \in Handler /\ g.pc = "saved" /\ g.tx = h.tx /\ g.fenced = h.fenced
      <4>1. h.tx \in Tx /\ Unclassified("ML_CLASSIFYING") \in Row
        BY <2>1, <2>5, RecordTypes DEF SaveMlClassifying, Status
      <4>2. PICK b \in BOOLEAN : b = (row[h.tx] = Null)
        OBVIOUS
      <4>3. ASSUME NEW e \in Row
            PROVE  LET k == [h EXCEPT !.pc = "saved", !.entity = e, !.inserts = b] IN
                   k \in Handler /\ k.pc = "saved" /\ k.tx = h.tx /\ k.fenced = h.fenced
        BY <2>1 DEF Handler
      <4> QED
        BY <4>1, <4>2, <4>3, Zenon
    <3>2. GoesOn(w, g)
      BY <2>5, <3>1 DEF SaveMlClassifying, GoesOn
    <3> QED
      BY <3>1, <3>2
  <2>6. ASSUME AcceptMl(w) PROVE Goal
    <3>0. PICK a \in MlAnswers[h.tx] :
              Proceed("raw", w, [h EXCEPT !.pc = "decided", !.entity = Accepted(a)])
      BY <2>6 DEF AcceptMl
    <3> DEFINE g == [h EXCEPT !.pc = "decided", !.entity = Accepted(a)]
    <3>1. g \in Handler /\ g.pc = "decided" /\ g.tx = h.tx /\ g.fenced = h.fenced
      BY <2>1, <2>6, RecordTypes DEF Handler, AcceptMl
    <3>2. Proceed("raw", w, g)
      BY <3>0
    <3> HIDE DEF g
    <3>3. GoesOn(w, g)
      BY <2>6, <3>1, <3>2 DEF AcceptMl, GoesOn
    <3> QED
      BY <3>1, <3>3
  <2>7. ASSUME ClassifierFails(w) PROVE Goal
    <3> DEFINE g == [h EXCEPT !.pc = "decided", !.entity.status = "FAILED"]
    <3>0. h.entity \in Row
      BY <2>1, <2>7 DEF ClassifierFails
    <3>1. g \in Handler /\ g.pc = "decided" /\ g.tx = h.tx /\ g.fenced = h.fenced
      BY <2>1, <3>0 DEF Handler, Row, Status
    <3>2. GoesOn(w, g)
      BY <2>7, <3>1 DEF ClassifierFails, GoesOn
    <3> QED
      BY <3>1, <3>2
  <2>8. ASSUME DeferToLlm(w) PROVE Goal
    <3>1. CASE Conflict(w)
      <4>1. Returns("raw", w)
        BY <1>1, <2>8, <3>1, NackReturns DEF DeferToLlm, Conflict
      <4> QED
        BY <1>1, <4>1
    <3>2. CASE ~Conflict(w)
      <4>0. PICK a \in MlAnswers[h.tx] :
                Proceed("raw", w, [h EXCEPT !.pc = "flushed", !.entity = Deferred(a)])
        BY <2>8, <3>2 DEF DeferToLlm
      <4> DEFINE g == [h EXCEPT !.pc = "flushed", !.entity = Deferred(a)]
      <4>1. g \in Handler /\ g.pc = "flushed" /\ g.tx = h.tx /\ g.fenced = h.fenced
        BY <2>1, <2>8, RecordTypes DEF Handler, DeferToLlm
      <4>2. Proceed("raw", w, g)
        BY <4>0
      <4> HIDE DEF g
      <4>3. GoesOn(w, g)
        BY <2>8, <3>2, <4>1, <4>2 DEF DeferToLlm, GoesOn
      <4> QED
        BY <4>1, <4>3
    <3> QED
      BY <3>1, <3>2
  <2>9. ASSUME PublishRequest(w) \/ RequestLost(w) PROVE Goal
    <3> DEFINE g == [h EXCEPT !.pc = "published"]
    <3>1. g \in Handler /\ g.pc = "published" /\ g.tx = h.tx /\ g.fenced = h.fenced
      BY <2>1 DEF Handler
    <3>2. GoesOn(w, g)
      BY <2>9, <3>1 DEF PublishRequest, RequestLost, GoesOn
    <3> QED
      BY <3>1, <3>2
  <2>10. ASSUME PublishThrows(w) PROVE Goal
    <3> DEFINE g == [h EXCEPT !.pc = "published", !.entity.status = "FAILED"]
    <3>0. h.entity \in Row
      BY <2>1, <2>10 DEF PublishThrows
    <3>1. g \in Handler /\ g.pc = "published" /\ g.tx = h.tx /\ g.fenced = h.fenced
      BY <2>1, <3>0 DEF Handler, Row, Status
    <3>2. GoesOn(w, g)
      BY <2>10, <3>1 DEF PublishThrows, GoesOn
    <3> QED
      BY <3>1, <3>2
  <2>11. ASSUME CommitRaw(w) PROVE Goal
    <3>1. Returns("raw", w)
      BY <2>2, <2>11 DEF CommitRaw, ReadyToCommit, Ack, Returns
    <3> QED
      BY <1>1, <3>1
  <2>12. ASSUME CommitConflict(w) PROVE Goal
    <3>1. Returns("raw", w)
      BY <1>1, <2>12, NackReturns DEF CommitConflict, Conflict
    <3> QED
      BY <1>1, <3>1
  <2> QED
    BY <1>2, <2>3, <2>4, <2>5, <2>6, <2>7, <2>8, <2>9, <2>10, <2>11, <2>12 DEF RawStep
<1>3. ASSUME NEW w \in Workers, RespStep(w) PROVE Goal
  <2>1. ASSUME NEW t \in Tx, DropResponse(w, t) PROVE Goal
    <3>1. Skips("resp", w, t)
      BY <2>1 DEF DropResponse, Skips
    <3> QED
      BY <1>1, <3>1
  <2>2. ASSUME NEW t \in Tx, LoadForResponse(w, t) PROVE Goal
    <3> DEFINE a == respLog[t][pos["resp"][t] + 1]
               g == [Idle EXCEPT !.pc = "loaded", !.tx = t, !.entity = Answered(t, a)]
    <3>1. a \in LlmAnswers
      <4>1. respLog[t] \in Seq(LlmAnswers) /\ pos["resp"][t] \in Nat
            /\ pos["resp"][t] < Len(respLog[t])
        BY <2>2 DEF LoadForResponse, Deliverable, EndOf, TypeOK, Topics
      <4> QED
        BY <4>1
    <3>2. Answered(t, a) \in Row
      BY <3>1, RecordTypes
    <3>3. g \in Handler /\ g.pc = "loaded" /\ g.tx = t /\ g.fenced = FALSE
      BY <3>2 DEF Idle, Handler
    <3>4. Proceed("resp", w, g)
      BY <2>2 DEF LoadForResponse
    <3> HIDE DEF g
    <3>5. Starts("resp", w, t)
      BY <2>2, <3>3, <3>4 DEF LoadForResponse, Starts
    <3> QED
      BY <1>1, <3>5
  <2>3. ASSUME CommitResponse(w) PROVE Goal
    <3>1. handler["resp"][w].fenced \in BOOLEAN
      BY <1>1 DEF TypeOK, Handler
    <3>2. Returns("resp", w)
      BY <2>3, <3>1 DEF CommitResponse, Ack, Returns
    <3> QED
      BY <1>1, <3>2
  <2> QED
    BY <1>3, <2>1, <2>2, <2>3 DEF RespStep
<1>4. ASSUME NEW c \in CoreTopics, NEW w \in Workers, HandlerFails(c, w) PROVE Goal
  BY <1>4, NackReturns DEF HandlerFails
<1>5. ASSUME NEW t \in Tx,
             Respond(t) \/ ResponseLost(t) \/ Upstream(t) \/ AgentRestart(t)
      PROVE  Goal
  BY <1>5 DEF Respond, ResponseLost, Upstream, AgentRestart, Aside
<1>6. ASSUME NEW c \in Topics, NEW t \in Tx, CommitOffset(c, t) PROVE Goal
  BY <1>6 DEF CommitOffset, Aside
<1>7. CASE UNCHANGED vars
  BY <1>7 DEF vars, Aside
<1> QED
  BY <1>2, <1>3, <1>4, <1>5, <1>6, <1>7 DEF Next, Environment

\* Logs only grow.
LEMMA EndsGrow ==
    ASSUME TypeOK, [Next]_vars, NEW c \in Topics, NEW t \in Tx
    PROVE  EndOf(c, t) \in Nat /\ EndOf(c, t)' \in Nat /\ EndOf(c, t) <= EndOf(c, t)'
<1>1. TypeOK'
  BY NextTypeOK
<1>2. Len(respLog[t]) \in Nat /\ Len(respLog'[t]) \in Nat
  <2>1. respLog[t] \in Seq(LlmAnswers) /\ respLog'[t] \in Seq(LlmAnswers)
    BY <1>1 DEF TypeOK
  <2> QED
    BY <2>1
<1>3. EndOf(c, t) \in Nat /\ EndOf(c, t)' \in Nat
  BY <1>1, <1>2 DEF EndOf, TypeOK, Topics
<1>4. rawEnd[t] <= rawEnd'[t]
  <2>1. UNCHANGED rawEnd \/ \E u \in Tx : Upstream(u)
    BY DEF Next, vars, RawStep, RespStep, Environment, SkipDuplicate, BeginRaw,
           SaveMlClassifying, AcceptMl, ClassifierFails, DeferToLlm, Nack,
           PublishRequest, PublishThrows, CommitRaw, CommitConflict, DropResponse,
           LoadForResponse, CommitResponse, Respond, ResponseLost, AgentRestart,
           CommitOffset, Rebalance, HandlerFails, RequestLost, Crash
  <2>2. rawEnd \in [Tx -> Nat]
    BY DEF TypeOK
  <2>3. ASSUME NEW u \in Tx, Upstream(u) PROVE rawEnd[t] <= rawEnd'[t]
    BY <2>2, <2>3 DEF Upstream
  <2> QED
    BY <2>1, <2>2, <2>3
<1>5. reqEnd[t] <= reqEnd'[t] /\ Len(respLog[t]) <= Len(respLog'[t])
  <2>1. CASE UNCHANGED <<reqEnd, respLog>>
    BY <1>2, <2>1 DEF TypeOK
  <2>2. ASSUME NEW w \in Workers, PublishRequest(w)
        PROVE  reqEnd[t] <= reqEnd'[t] /\ UNCHANGED respLog
    BY <2>2, SMTT(30) DEF PublishRequest, TypeOK
  <2>3. ASSUME NEW u \in Tx, Respond(u)
        PROVE  UNCHANGED reqEnd /\ Len(respLog[t]) <= Len(respLog'[t])
    <3>1. PICK a \in LlmAnswers : respLog' = [respLog EXCEPT ![u] = Append(@, a)]
      BY <2>3 DEF Respond
    <3>2. respLog[t] \in Seq(LlmAnswers)
      BY DEF TypeOK
    <3>3. Len(Append(respLog[t], a)) = Len(respLog[t]) + 1
      BY <3>2
    <3>4. respLog'[t] = respLog[t] \/ respLog'[t] = Append(respLog[t], a)
      BY <3>1 DEF TypeOK
    <3> QED
      BY <1>2, <2>3, <3>3, <3>4 DEF Respond
  <2> QED
    BY <1>2, <2>1, <2>2, <2>3, LogSteps DEF TypeOK
<1> QED
  BY <1>3, <1>4, <1>5 DEF EndOf, Topics

\* An offset goes to the position or stays; then it is no more than the position.
LEMMA BoundsStep ==
    ASSUME TypeOK, Bounds, Holders, [Next]_vars
    PROVE  Bounds'
<1> USE DEF CoreTopics, Topics
<1> SUFFICES ASSUME NEW c \in Topics, NEW t \in Tx
             PROVE  off'[c][t] <= pos'[c][t] /\ pos'[c][t] <= EndOf(c, t)'
  BY DEF Bounds
<1>1. off[c][t] <= pos[c][t] /\ pos[c][t] <= EndOf(c, t)
  BY DEF Bounds
<1>2. /\ EndOf(c, t) \in Nat /\ EndOf(c, t)' \in Nat /\ EndOf(c, t) <= EndOf(c, t)'
      /\ off[c][t] \in Nat /\ pos[c][t] \in Nat
  BY EndsGrow DEF TypeOK
<1> HIDE DEF CoreTopics, Topics
<1>3. ASSUME UNCHANGED off,
             \/ pos'[c][t] = pos[c][t] \/ pos'[c][t] = off[c][t]
             \/ pos'[c][t] = pos[c][t] + 1 /\ pos[c][t] < EndOf(c, t)
      PROVE  off'[c][t] <= pos'[c][t] /\ pos'[c][t] <= EndOf(c, t)'
  BY <1>1, <1>2, <1>3
<1>4. ASSUME NEW d \in CoreTopics, NEW u \in Tx, MoveOn(d, u),
             pos[d][u] < EndOf(d, u)
      PROVE  \/ pos'[c][t] = pos[c][t]
             \/ pos'[c][t] = pos[c][t] + 1 /\ pos[c][t] < EndOf(c, t)
  BY <1>4 DEF MoveOn, TypeOK, CoreTopics, Topics
<1>5. ASSUME NEW d \in CoreTopics, NEW w \in Workers, NEW u \in Tx,
             Starts(d, w, u) \/ Skips(d, w, u)
      PROVE  off'[c][t] <= pos'[c][t] /\ pos'[c][t] <= EndOf(c, t)'
  BY <1>3, <1>4, <1>5 DEF Starts, Skips, Deliverable
<1>6. ASSUME NEW w \in Workers, NEW g \in Handler, GoesOn(w, g)
      PROVE  off'[c][t] <= pos'[c][t] /\ pos'[c][t] <= EndOf(c, t)'
  BY <1>3, <1>6 DEF GoesOn
<1>7. ASSUME NEW d \in CoreTopics, NEW w \in Workers, Returns(d, w)
      PROVE  off'[c][t] <= pos'[c][t] /\ pos'[c][t] <= EndOf(c, t)'
  <2>1. UNCHANGED off
    BY <1>7 DEF Returns
  <2>2. CASE UNCHANGED pos
    BY <1>3, <2>1, <2>2
  <2>3. CASE handler[d][w].fenced = FALSE /\ MoveOn(d, handler[d][w].tx)
    <3>1. PICK u \in Tx : u = handler[d][w].tx
      BY <1>7 DEF Returns, TypeOK
    <3>2. pos[d][u] < EndOf(d, u)
      BY <1>7, <2>3, <3>1 DEF Returns, Holders, Holds, InCall
    <3> QED
      BY <1>3, <1>4, <2>1, <2>3, <3>1, <3>2
  <2> QED
    BY <1>7, <2>2, <2>3 DEF Returns
<1>8. ASSUME NEW d \in CoreTopics, NEW u \in Tx, NEW w \in Workers, Rebalance(d, u, w)
      PROVE  off'[c][t] <= pos'[c][t] /\ pos'[c][t] <= EndOf(c, t)'
  <2>1. pos'[c][t] = pos[c][t] \/ pos'[c][t] = off[c][t]
    BY <1>8 DEF Rebalance, TypeOK, CoreTopics, Topics
  <2> QED
    BY <1>3, <1>8, <2>1 DEF Rebalance
<1>9. ASSUME NEW w \in Workers, Crash(w)
      PROVE  off'[c][t] <= pos'[c][t] /\ pos'[c][t] <= EndOf(c, t)'
  BY <1>3, <1>9 DEF Crash
<1>10. CASE Aside
  <2>1. ASSUME NEW u \in Tx, Respond(u) \/ ResponseLost(u)
        PROVE  off'[c][t] <= pos'[c][t] /\ pos'[c][t] <= EndOf(c, t)'
    <3>1. /\ UNCHANGED off /\ pos["req"][u] < reqEnd[u]
          /\ pos' = [pos EXCEPT !["req"][u] = @ + 1]
      BY <2>1 DEF Respond, ResponseLost
    <3>2. \/ pos'[c][t] = pos[c][t]
          \/ pos'[c][t] = pos[c][t] + 1 /\ pos[c][t] < EndOf(c, t)
      BY <3>1 DEF TypeOK, Topics, EndOf
    <3> QED
      BY <1>3, <3>1, <3>2
  <2>2. ASSUME NEW u \in Tx, Upstream(u) \/ AgentRestart(u)
        PROVE  off'[c][t] <= pos'[c][t] /\ pos'[c][t] <= EndOf(c, t)'
    <3>1. UNCHANGED off /\ (pos'[c][t] = pos[c][t] \/ pos'[c][t] = off[c][t])
      BY <2>2, SMTT(30) DEF Upstream, AgentRestart, TypeOK, Topics
    <3> QED
      BY <1>3, <3>1
  <2>3. ASSUME NEW d \in Topics, NEW u \in Tx, CommitOffset(d, u)
        PROVE  off'[c][t] <= pos'[c][t] /\ pos'[c][t] <= EndOf(c, t)'
    <3>1. /\ UNCHANGED pos
          /\ off'[c][t] = off[c][t] \/ off'[c][t] = pos[c][t]
      BY <2>3 DEF CommitOffset, TypeOK
    <3> QED
      BY <1>1, <1>2, <3>1
  <2>4. CASE UNCHANGED vars
    BY <1>3, <2>4 DEF vars
  <2> QED
    BY <1>10, <2>1, <2>2, <2>3, <2>4 DEF Aside
<1> QED
  BY <1>5, <1>6, <1>7, <1>8, <1>9, <1>10, CallSteps

LEMMA HoldersStep ==
    ASSUME TypeOK, Bounds, Holders, [Next]_vars
    PROVE  Holders'
<1> SUFFICES ASSUME NEW c \in CoreTopics, NEW v \in Workers, NEW t \in Tx, Holds(c, v, t)'
             PROVE  owner'[c][t] = v /\ pos'[c][t] < EndOf(c, t)'
  BY DEF Holders
<1> DEFINE Goal == owner'[c][t] = v /\ pos'[c][t] < EndOf(c, t)'
<1>1. /\ EndOf(c, t) \in Nat /\ EndOf(c, t)' \in Nat /\ EndOf(c, t) <= EndOf(c, t)'
      /\ pos[c][t] \in Nat
  <2>1. c \in Topics
    BY DEF CoreTopics, Topics
  <2> QED
    BY <2>1, EndsGrow, SMTT(30) DEF TypeOK
<1>2. ASSUME Holds(c, v, t), UNCHANGED owner, pos'[c][t] = pos[c][t] PROVE Goal
  <2>1. owner[c][t] = v /\ pos[c][t] < EndOf(c, t)
    BY <1>2 DEF Holders
  <2> QED
    BY <1>1, <1>2, <2>1
<1>3. ASSUME NEW d \in CoreTopics, NEW w \in Workers, NEW u \in Tx,
             Starts(d, w, u)
      PROVE  Goal
  <2>1. PICK g \in Handler : g.tx = u /\ Proceed(d, w, g)
    BY <1>3 DEF Starts
  <2>2. UNCHANGED <<owner, pos>> /\ owner[d][u] = w /\ pos[d][u] < EndOf(d, u)
    BY <1>3 DEF Starts, Deliverable
  <2>3. CASE c = d /\ v = w
    <3>1. t = u
      BY <2>1, <2>3 DEF Holds, InCall, Proceed, TypeOK
    <3> QED
      BY <1>1, <2>2, <2>3, <3>1
  <2>4. CASE ~(c = d /\ v = w)
    <3>1. handler'[c][v] = handler[c][v]
      BY <2>1, <2>4 DEF Proceed, TypeOK
    <3>2. Holds(c, v, t)
      BY <3>1 DEF Holds, InCall
    <3> QED
      BY <1>2, <2>2, <3>2
  <2> QED
    BY <2>3, <2>4
<1>4. ASSUME NEW d \in CoreTopics, NEW w \in Workers, NEW u \in Tx,
             Skips(d, w, u)
      PROVE  Goal
  <2>1. Holds(c, v, t) /\ UNCHANGED owner
    BY <1>4 DEF Skips, Holds, InCall
  <2>2. ~(c = d /\ t = u)
    <3>1. owner[c][t] = v /\ handler[c][v].pc # "idle"
      BY <2>1 DEF Holders, Holds, InCall
    <3>2. owner[d][u] = w /\ handler[d][w].pc = "idle"
      BY <1>4 DEF Skips, Deliverable
    <3> QED
      BY <3>1, <3>2
  <2>3. pos'[c][t] = pos[c][t]
    BY <1>4, <2>2 DEF Skips, MoveOn, TypeOK, CoreTopics, Topics
  <2> QED
    BY <1>2, <2>1, <2>3
<1>5. ASSUME NEW w \in Workers, NEW g \in Handler, GoesOn(w, g) PROVE Goal
  <2>1. Holds(c, v, t)
    BY <1>5 DEF GoesOn, Proceed, Holds, InCall, TypeOK, CoreTopics
  <2> QED
    BY <1>2, <1>5, <2>1 DEF GoesOn
<1>6. ASSUME NEW d \in CoreTopics, NEW w \in Workers, Returns(d, w) PROVE Goal
  <2>1. ~(c = d /\ v = w) /\ Holds(c, v, t) /\ UNCHANGED owner
    BY <1>6 DEF Returns, Holds, InCall, Idle, TypeOK
  <2>2. CASE UNCHANGED pos
    BY <1>2, <2>1, <2>2
  <2>3. CASE handler[d][w].fenced = FALSE /\ MoveOn(d, handler[d][w].tx)
    <3>1. PICK u \in Tx : u = handler[d][w].tx
      BY <1>6 DEF Returns, TypeOK
    <3>2. Holds(d, w, u)
      BY <1>6, <2>3, <3>1 DEF Returns, Holds, InCall
    <3>3. ~(c = d /\ t = u)
      BY <2>1, <3>2 DEF Holders
    <3>4. pos'[c][t] = pos[c][t]
      BY <2>3, <3>1, <3>3 DEF MoveOn, TypeOK, CoreTopics, Topics
    <3> QED
      BY <1>2, <2>1, <3>4
  <2> QED
    BY <1>6, <2>2, <2>3 DEF Returns
<1>7. ASSUME NEW d \in CoreTopics, NEW u \in Tx, NEW w \in Workers, Rebalance(d, u, w)
      PROVE  Goal
  <2>1. handler'[c][v] = IF c = d /\ handler[c][v].tx = u
                         THEN [handler[c][v] EXCEPT !.fenced = TRUE] ELSE handler[c][v]
    BY <1>7 DEF Rebalance, TypeOK
  <2>2. handler[c][v] \in Handler
    BY DEF TypeOK
  <2>3. ~(c = d /\ handler[c][v].tx = u)
    BY <2>1, <2>2 DEF Holds, InCall, Handler
  <2>4. Holds(c, v, t) /\ ~(c = d /\ t = u)
    BY <2>1, <2>3 DEF Holds, InCall
  <2>5. owner'[c][t] = owner[c][t] /\ pos'[c][t] = pos[c][t]
    BY <1>7, <2>4 DEF Rebalance, TypeOK, CoreTopics, Topics
  <2>6. owner[c][t] = v /\ pos[c][t] < EndOf(c, t)
    BY <2>4 DEF Holders
  <2> QED
    BY <1>1, <2>5, <2>6
<1>8. ASSUME NEW w \in Workers, Crash(w) PROVE Goal
  <2>1. v # w /\ Holds(c, v, t) /\ UNCHANGED owner
    BY <1>8 DEF Crash, Holds, InCall, Idle, TypeOK
  <2>2. owner[c][t] = v
    BY <2>1 DEF Holders
  <2>3. pos'[c][t] = pos[c][t]
    BY <1>8, <2>1, <2>2 DEF Crash, CoreTopics, Topics
  <2> QED
    BY <1>2, <2>1, <2>3
<1>9. CASE Aside
  <2>1. Holds(c, v, t) /\ UNCHANGED owner
    BY <1>9 DEF Aside, Holds, InCall
  <2>2. pos'[c][t] = pos[c][t]
    BY <1>9 DEF Aside, Respond, ResponseLost, Upstream, AgentRestart, CommitOffset, vars,
                TypeOK, CoreTopics, Topics
  <2> QED
    BY <1>2, <2>1, <2>2
<1> QED
  BY <1>3, <1>4, <1>5, <1>6, <1>7, <1>8, <1>9, CallSteps

\* Positions lie between offset and end, and a record in a call not fenced is
\* the next one of its owner: for every interleaving of instances.
LEMMA PositionsInvariant == Spec => [](Bounds /\ Holders)
<1>1. Init => Bounds /\ Holders
  <2> SUFFICES ASSUME Init PROVE Bounds /\ Holders
    OBVIOUS
  <2>1. \A c \in CoreTopics, w \in Workers : handler[c][w].pc = "idle"
    BY DEF Init, Idle
  <2>2. \A c \in Topics, t \in Tx : off[c][t] = 0 /\ pos[c][t] = 0 /\ EndOf(c, t) = 0
    BY DEF Init, EndOf, Topics
  <2> QED
    BY <2>1, <2>2 DEF Bounds, Holders, Holds, InCall
<1>2. TypeOK /\ Bounds /\ Holders /\ [Next]_vars => (Bounds /\ Holders)'
  BY BoundsStep, HoldersStep
<1> QED
  BY <1>1, <1>2, TypeCorrect, PTL DEF Spec

-----------------------------------------------------------------------------
(* What a request costs.  A call that may still ask the LLM, and the call   *)
(* that may yet begin while there is no row, are paid for in advance; a     *)
(* call that ends with the classifier's decision has not used its share,    *)
(* and leaves it to the row.                                                *)

Asking(t) == {w \in Workers : InCall("raw", w, t)
                                /\ handler["raw"][w].pc \in {"checked", "saved", "decided", "flushed"}}

Vacant(t) == row[t] = Null /\ \A w \in Workers : ~Holds("raw", w, t)

SettledByMl(t) == row[t] # Null /\ row[t].status = "CLASSIFIED" /\ row[t].source = "ML"

Unspent(t) == Vacant(t) \/ SettledByMl(t)

Budget == \A t \in Tx :
    /\ IsFiniteSet(Asking(t))
    /\ reqEnd[t] + Cardinality(Asking(t)) + (IF Unspent(t) THEN 1 ELSE 0) <= 1 + faults

LEMMA FaultSteps ==
    ASSUME TypeOK, [Next]_vars
    PROVE  faults \in Nat /\ (faults' = faults \/ faults' = faults + 1)
<1>1. faults \in Nat
  BY PipelineAssumption DEF TypeOK
<1>2. UNCHANGED faults \/ Fault
  BY DEF Next, vars, RawStep, RespStep, Environment, SkipDuplicate, BeginRaw,
         SaveMlClassifying, AcceptMl, ClassifierFails, DeferToLlm,
         PublishRequest, PublishThrows, CommitRaw, CommitConflict, DropResponse,
         LoadForResponse, CommitResponse, Respond, Upstream, ResponseLost,
         AgentRestart, CommitOffset, Rebalance, HandlerFails, RequestLost, Crash
<1> QED
  BY <1>1, <1>2 DEF Fault

\* A transaction is open to a new call again only after a fault: a call that
\* ends otherwise leaves a row.
LEMMA VacatedByFault ==
    ASSUME TypeOK, RawEntities, RespEntities, [Next]_vars, NEW t \in Tx, Vacant(t)'
    PROVE  Vacant(t) \/ faults' = faults + 1
<1>1. row'[t] = Null /\ row[t] = Null
  BY RowsStay DEF Vacant
<1> SUFFICES ASSUME NEW v \in Workers, Holds("raw", v, t)
             PROVE  faults' = faults + 1
  BY <1>1 DEF Vacant
<1> DEFINE h == handler["raw"][v]
<1>2. h.pc # "idle" /\ h.tx = t /\ h.fenced = FALSE /\ "raw" \in CoreTopics
      /\ ~Holds("raw", v, t)'
  BY DEF Holds, InCall, Vacant, CoreTopics
<1>3. ~(handler'["raw"][v] = handler["raw"][v])
  BY <1>2 DEF Holds, InCall
<1>4. ASSUME NEW c \in CoreTopics, NEW w \in Workers, NEW u \in Tx,
             Starts(c, w, u) \/ Skips(c, w, u)
      PROVE  FALSE
  <2>1. CASE Starts(c, w, u)
    <3>1. handler[c][w].pc = "idle"
      BY <2>1 DEF Starts, Deliverable
    <3> QED
      BY <1>2, <1>3, <2>1, <3>1 DEF Starts, Proceed, TypeOK
  <2>2. CASE Skips(c, w, u)
    BY <1>3, <2>2 DEF Skips
  <2> QED
    BY <1>4, <2>1, <2>2
<1>5. ASSUME NEW w \in Workers, NEW g \in Handler, GoesOn(w, g) PROVE FALSE
  <2>1. g.tx = handler["raw"][w].tx /\ g.fenced = handler["raw"][w].fenced /\ g.pc # "idle"
        /\ handler' = [handler EXCEPT !["raw"][w] = g]
    BY <1>5 DEF GoesOn, Proceed
  <2>2. w = v /\ handler'["raw"][v] = g
    BY <1>2, <1>3, <2>1 DEF TypeOK
  <2> QED
    BY <1>2, <2>1, <2>2 DEF Holds, InCall
<1>6. ASSUME NEW c \in CoreTopics, NEW w \in Workers, Returns(c, w)
      PROVE  faults' = faults + 1
  <2>1. c = "raw" /\ w = v
    BY <1>2, <1>3, <1>6 DEF Returns, TypeOK
  <2>2. ~CommitRaw(w)
    <3> SUFFICES ASSUME CommitRaw(w) PROVE FALSE
      OBVIOUS
    <3>1. row'[t] = h.entity /\ h.entity \in Row
      BY <1>2, <2>1 DEF CommitRaw, ReadyToCommit, TypeOK
    <3> QED
      BY <1>1, <3>1, NullIsNoRow
  <2> QED
    BY <1>1, <1>2, <1>6, <2>1, <2>2 DEF Returns, Fault
<1>7. ASSUME (\E c \in CoreTopics, u \in Tx, w \in Workers : Rebalance(c, u, w))
                \/ \E w \in Workers : Crash(w)
      PROVE  faults' = faults + 1
  BY <1>7 DEF Rebalance, Crash, Fault
<1>8. CASE Aside
  BY <1>3, <1>8 DEF Aside
<1> QED
  BY <1>4, <1>5, <1>6, <1>7, <1>8, CallSteps

\* Who may still ask: one more when a call begins, one less when it asks.
LEMMA AskingSteps ==
    ASSUME TypeOK, Bounds, Holders, [Next]_vars, NEW t \in Tx
    PROVE  \/ Asking(t)' \subseteq Asking(t) /\ reqEnd'[t] = reqEnd[t]
           \/ /\ \E w \in Workers : Asking(t)' = Asking(t) \cup {w} /\ w \notin Asking(t)
              /\ reqEnd'[t] = reqEnd[t]
              /\ Vacant(t) /\ ~Vacant(t)' /\ UNCHANGED <<row, faults>>
           \/ /\ \E w \in Asking(t) : Asking(t)' \subseteq Asking(t) \ {w}
              /\ reqEnd'[t] = reqEnd[t] + 1
              /\ UNCHANGED <<row, faults>>
<1> DEFINE Fewer == Asking(t)' \subseteq Asking(t)
           More == /\ \E w \in Workers : Asking(t)' = Asking(t) \cup {w} /\ w \notin Asking(t)
                   /\ reqEnd'[t] = reqEnd[t]
                   /\ Vacant(t) /\ ~Vacant(t)' /\ UNCHANGED <<row, faults>>
           Asks == /\ \E w \in Asking(t) : Asking(t)' \subseteq Asking(t) \ {w}
                   /\ reqEnd'[t] = reqEnd[t] + 1
                   /\ UNCHANGED <<row, faults>>
           Goal == (Fewer /\ reqEnd'[t] = reqEnd[t]) \/ More \/ Asks
<1>1. "raw" \in CoreTopics /\ "resp" \in CoreTopics /\ "raw" # "resp"
  BY DEF CoreTopics
<1>2. ASSUME \A v \in Workers : handler'["raw"][v] = handler["raw"][v]
                                  \/ handler'["raw"][v].pc = "idle"
      PROVE  Fewer
  BY <1>2 DEF Asking, InCall
<1>3. ASSUME NEW c \in CoreTopics, NEW w \in Workers, NEW u \in Tx,
             Starts(c, w, u)
      PROVE  Goal
  <2>1. UNCHANGED <<row, reqEnd, faults>>
    BY <1>3 DEF Starts
  <2>2. PICK g \in Handler : /\ g.pc = (IF c = "raw" THEN "checked" ELSE "loaded")
                             /\ g.tx = u /\ g.fenced = FALSE /\ Proceed(c, w, g)
    BY <1>3 DEF Starts
  <2>3. CASE c = "raw" /\ u = t
    <3>1. row[t] = Null /\ handler["raw"][w].pc = "idle" /\ owner["raw"][t] = w
      BY <1>1, <1>3, <2>3 DEF Starts, BeginRaw, Deliverable
    <3>2. handler'["raw"][w] = g /\ \A v \in Workers \ {w} :
                                       handler'["raw"][v] = handler["raw"][v]
      BY <2>2, <2>3 DEF Proceed, TypeOK
    <3>3. \A v \in Workers : ~Holds("raw", v, t)
      <4>1. \A v \in Workers : Holds("raw", v, t) => v = w
        BY <1>1, <3>1 DEF Holders
      <4>2. ~Holds("raw", w, t)
        BY <3>1 DEF Holds, InCall
      <4> QED
        BY <4>1, <4>2
    <3>4. Holds("raw", w, t)'
      BY <2>2, <2>3, <3>2 DEF Holds, InCall
    <3>5. w \notin Asking(t) /\ Asking(t)' = Asking(t) \cup {w}
      BY <2>2, <2>3, <3>1, <3>2 DEF Asking, InCall
    <3> QED
      BY <2>1, <3>1, <3>3, <3>4, <3>5 DEF Vacant
  <2>4. CASE c = "raw" /\ u # t
    <3>1. handler'["raw"][w] = g /\ \A v \in Workers \ {w} :
                                       handler'["raw"][v] = handler["raw"][v]
      BY <2>2, <2>4 DEF Proceed, TypeOK
    <3>2. Fewer
      BY <2>2, <2>4, <3>1 DEF Asking, InCall
    <3> QED
      BY <2>1, <3>2
  <2>5. CASE c = "resp"
    <3>1. \A v \in Workers : handler'["raw"][v] = handler["raw"][v]
      BY <1>1, <2>2, <2>5 DEF Proceed, TypeOK
    <3> QED
      BY <1>2, <2>1, <3>1
  <2> QED
    BY <2>3, <2>4, <2>5 DEF CoreTopics
<1>4. ASSUME NEW w \in Workers, NEW g \in Handler, GoesOn(w, g) PROVE Goal
  <2> DEFINE h == handler["raw"][w]
  <2>1. /\ h.pc \in {"checked", "saved", "flushed"} /\ g.tx = h.tx
        /\ handler' = [handler EXCEPT !["raw"][w] = g]
    BY <1>4 DEF GoesOn, Proceed
  <2>2. handler'["raw"][w] = g /\ \A v \in Workers \ {w} :
                                     handler'["raw"][v] = handler["raw"][v]
    BY <1>1, <2>1 DEF TypeOK
  <2>3. Fewer
    BY <2>1, <2>2 DEF Asking, InCall
  <2>4. CASE UNCHANGED reqEnd
    BY <2>3, <2>4
  <2>5. CASE PublishRequest(w)
    <3>1. /\ reqEnd' = [reqEnd EXCEPT ![h.tx] = @ + 1] /\ UNCHANGED <<row, faults>>
          /\ handler' = [handler EXCEPT !["raw"][w] = [h EXCEPT !.pc = "published"]]
      BY <2>5 DEF PublishRequest, Proceed
    <3>2. h \in Handler
      BY <1>1 DEF TypeOK
    <3>3. handler'["raw"][w].pc = "published"
      BY <1>1, <3>1, <3>2 DEF TypeOK, Handler
    <3>4. CASE h.tx = t
      <4>1. w \in Asking(t) /\ w \notin Asking(t)'
        BY <2>1, <3>3, <3>4 DEF Asking, InCall
      <4>2. reqEnd'[t] = reqEnd[t] + 1
        BY <3>1, <3>4 DEF TypeOK
      <4> QED
        BY <2>3, <3>1, <4>1, <4>2
    <3>5. CASE h.tx # t
      <4>1. reqEnd'[t] = reqEnd[t]
        BY <3>1, <3>5 DEF TypeOK
      <4> QED
        BY <2>3, <4>1
    <3> QED
      BY <3>4, <3>5
  <2> QED
    BY <1>4, <2>4, <2>5 DEF GoesOn, RequestLost, PublishThrows
<1>5. ASSUME NEW c \in CoreTopics, NEW w \in Workers, Returns(c, w) PROVE Goal
  <2>1. handler' = [handler EXCEPT ![c][w] = Idle] /\ UNCHANGED reqEnd
    BY <1>5 DEF Returns
  <2>2. \A v \in Workers : handler'["raw"][v] = handler["raw"][v]
                             \/ handler'["raw"][v].pc = "idle"
    BY <1>1, <2>1 DEF TypeOK, Idle
  <2> QED
    BY <1>2, <2>1, <2>2
<1>6. ASSUME NEW c \in CoreTopics, NEW u \in Tx, NEW w \in Workers, Rebalance(c, u, w)
      PROVE  Goal
  <2>1. \A v \in Workers : /\ handler'["raw"][v].pc = handler["raw"][v].pc
                          /\ handler'["raw"][v].tx = handler["raw"][v].tx
    BY <1>1, <1>6 DEF Rebalance, TypeOK, Handler
  <2>2. Fewer
    BY <2>1 DEF Asking, InCall
  <2> QED
    BY <1>6, <2>2 DEF Rebalance
<1>7. ASSUME NEW w \in Workers, Crash(w) PROVE Goal
  <2>1. \A v \in Workers : handler'["raw"][v] = handler["raw"][v]
                             \/ handler'["raw"][v].pc = "idle"
    BY <1>1, <1>7 DEF Crash, TypeOK, Idle
  <2> QED
    BY <1>2, <1>7, <2>1 DEF Crash
<1>8. ASSUME Aside \/ \E c \in CoreTopics, w \in Workers, u \in Tx : Skips(c, w, u)
      PROVE  Goal
  <2>1. UNCHANGED <<handler, reqEnd>>
    BY <1>8 DEF Aside, Respond, ResponseLost, Upstream, AgentRestart, CommitOffset, vars,
                Skips
  <2> QED
    BY <1>2, <2>1
<1> QED
  BY <1>3, <1>4, <1>5, <1>6, <1>7, <1>8, CallSteps

\* The unspent share of a row comes from the call that committed it.
LEMMA UnspentSteps ==
    ASSUME TypeOK, RawEntities, RespEntities, [Next]_vars, NEW t \in Tx, Unspent(t)'
    PROVE  \/ Unspent(t)
           \/ faults' = faults + 1
           \/ /\ \E w \in Asking(t) : Asking(t)' \subseteq Asking(t) \ {w}
              /\ reqEnd'[t] = reqEnd[t]
<1>1. CASE Vacant(t)'
  BY <1>1, VacatedByFault DEF Unspent
<1>2. CASE SettledByMl(t)' /\ row'[t] = row[t]
  BY <1>2 DEF SettledByMl, Unspent
<1>3. ASSUME NEW w \in Workers, CommitRaw(w), SettledByMl(t)'
      PROVE  \/ row'[t] = row[t]
             \/ /\ w \in Asking(t) /\ Asking(t)' \subseteq Asking(t) \ {w}
                /\ reqEnd'[t] = reqEnd[t]
  <2> DEFINE h == handler["raw"][w]
  <2>1. /\ row' = [row EXCEPT ![h.tx] = h.entity] /\ UNCHANGED reqEnd
        /\ handler' = [handler EXCEPT !["raw"][w] = Idle]
        /\ h.pc \in {"decided", "published"} /\ "raw" \in CoreTopics
    BY <1>3 DEF CommitRaw, ReadyToCommit, Ack, CoreTopics
  <2>2. CASE h.tx = t
    <3>1. row'[t] = h.entity
      BY <2>1, <2>2 DEF TypeOK
    <3>2. h.entity.status = "CLASSIFIED"
      BY <1>3, <3>1 DEF SettledByMl
    <3>3. ~IsDeferred(t, h.entity)
      <4>1. \A a : Deferred(a).status = "LLM_CLASSIFYING"
        BY DEF Deferred, Labelled
      <4> QED
        BY <3>2, <4>1 DEF IsDeferred
    <3>4. ~IsUnsent(t, h.entity)
      BY <3>2 DEF IsUnsent, Deferred, Labelled
    <3>5. h.pc = "decided"
      BY <2>1, <2>2, <3>3, <3>4 DEF RawEntities
    <3>6. w \in Asking(t)
      BY <2>2, <3>5 DEF Asking, InCall
    <3>7. /\ handler'["raw"][w].pc = "idle"
          /\ \A v \in Workers \ {w} : handler'["raw"][v] = handler["raw"][v]
      BY <2>1 DEF TypeOK, Idle
    <3>8. Asking(t)' \subseteq Asking(t) \ {w}
      BY <3>7 DEF Asking, InCall
    <3> QED
      BY <2>1, <3>6, <3>8
  <2>3. CASE h.tx # t
    BY <2>1, <2>3 DEF TypeOK
  <2> QED
    BY <2>2, <2>3
<1>4. ASSUME NEW w \in Workers, CommitResponse(w), SettledByMl(t)'
      PROVE  row'[t] = row[t]
  <2> DEFINE h == handler["resp"][w]
  <2>1. h.pc = "loaded" /\ row' = [row EXCEPT ![h.tx] = h.entity]
    BY <1>4 DEF CommitResponse
  <2>2. PICK a : h.entity = Answered(h.tx, a)
    BY <2>1 DEF RespEntities, IsAnswer
  <2>3. h.entity.source = "LLM"
    BY <2>2 DEF Answered, Labelled
  <2> QED
    BY <1>4, <2>1, <2>3 DEF SettledByMl, TypeOK
<1> QED
  BY <1>1, <1>2, <1>3, <1>4, RowSteps DEF Unspent

LEMMA BudgetStep ==
    ASSUME TypeOK, RawEntities, RespEntities, Bounds, Holders, Budget, [Next]_vars
    PROVE  Budget'
<1> SUFFICES ASSUME NEW t \in Tx
             PROVE  /\ IsFiniteSet(Asking(t)')
                    /\ reqEnd'[t] + Cardinality(Asking(t)') + (IF Unspent(t)' THEN 1 ELSE 0)
                         <= 1 + faults'
  BY DEF Budget
<1> DEFINE n == Cardinality(Asking(t))
           m == Cardinality(Asking(t)')
<1>1. /\ IsFiniteSet(Asking(t)) /\ n \in Nat
      /\ reqEnd[t] + n + (IF Unspent(t) THEN 1 ELSE 0) <= 1 + faults
  BY FS_CardinalityType DEF Budget
<1>2. reqEnd[t] \in Nat /\ faults \in Nat /\ (faults' = faults \/ faults' = faults + 1)
  BY FaultSteps DEF TypeOK
<1>3. ASSUME NEW w \in Asking(t), Asking(t)' \subseteq Asking(t) \ {w}
      PROVE  IsFiniteSet(Asking(t)') /\ m \in Nat /\ m <= n - 1
  <2>1. IsFiniteSet(Asking(t) \ {w}) /\ Cardinality(Asking(t) \ {w}) = n - 1
    BY <1>1, FS_RemoveElement
  <2> QED
    BY <2>1, <1>3, FS_Subset, FS_CardinalityType
<1>4. CASE Asking(t)' \subseteq Asking(t) /\ reqEnd'[t] = reqEnd[t]
  <2>1. IsFiniteSet(Asking(t)') /\ m \in Nat /\ m <= n
    BY <1>1, <1>4, FS_Subset, FS_CardinalityType
  <2>2. \/ ~Unspent(t)' \/ Unspent(t) \/ faults' = faults + 1
        \/ \E w \in Asking(t) : Asking(t)' \subseteq Asking(t) \ {w}
    BY UnspentSteps
  <2>3. CASE \E w \in Asking(t) : Asking(t)' \subseteq Asking(t) \ {w}
    <3>1. m <= n - 1
      BY <1>3, <2>3
    <3> QED
      BY <1>1, <1>2, <1>4, <2>1, <3>1
  <2> QED
    BY <1>1, <1>2, <1>4, <2>1, <2>2, <2>3
<1>5. ASSUME NEW w \in Workers, Asking(t)' = Asking(t) \cup {w}, w \notin Asking(t),
             reqEnd'[t] = reqEnd[t], Vacant(t), ~Vacant(t)', UNCHANGED <<row, faults>>
      PROVE  /\ IsFiniteSet(Asking(t)')
             /\ reqEnd'[t] + m + (IF Unspent(t)' THEN 1 ELSE 0) <= 1 + faults'
  <2>1. IsFiniteSet(Asking(t)') /\ m = n + 1
    BY <1>1, <1>5, FS_AddElement
  <2>2. Unspent(t) /\ ~Unspent(t)'
    BY <1>5 DEF Unspent, Vacant, SettledByMl
  <2> QED
    BY <1>1, <1>2, <1>5, <2>1, <2>2
<1>6. ASSUME NEW w \in Asking(t), Asking(t)' \subseteq Asking(t) \ {w},
             reqEnd'[t] = reqEnd[t] + 1, UNCHANGED <<row, faults>>
      PROVE  /\ IsFiniteSet(Asking(t)')
             /\ reqEnd'[t] + m + (IF Unspent(t)' THEN 1 ELSE 0) <= 1 + faults'
  <2>1. IsFiniteSet(Asking(t)') /\ m \in Nat /\ m <= n - 1
    BY <1>3, <1>6
  <2>2. ~Unspent(t)' \/ Unspent(t)
    BY <1>2, <1>6, UnspentSteps
  <2> QED
    BY <1>1, <1>2, <1>6, <2>1, <2>2
<1> QED
  BY <1>4, <1>5, <1>6, AskingSteps

\* The budget of every transaction holds in every reachable state.
LEMMA BudgetInvariant == Spec => []Budget
<1>1. Init => Budget
  <2> SUFFICES ASSUME Init, NEW t \in Tx
               PROVE  /\ IsFiniteSet(Asking(t))
                      /\ reqEnd[t] + Cardinality(Asking(t)) + (IF Unspent(t) THEN 1 ELSE 0)
                           <= 1 + faults
    BY DEF Budget
  <2>1. Asking(t) = {}
    BY DEF Init, Idle, Asking, InCall, CoreTopics
  <2> QED
    BY <2>1, FS_EmptySet DEF Init
<1>2. Values /\ Bounds /\ Holders /\ Budget /\ [Next]_vars => Budget'
  BY BudgetStep DEF Values
<1> QED
  BY <1>1, <1>2, ValuesInvariant, TypeCorrect, PositionsInvariant, PTL DEF Spec

\* A transaction is put to the LLM once, and once more for each fault at most:
\* whatever copies of its event arrive at whatever instances.
THEOREM BoundedRequests == Spec => []RequestsAreBounded
<1>1. TypeOK /\ Budget => RequestsAreBounded
  <2> SUFFICES ASSUME TypeOK, Budget, NEW t \in Tx PROVE reqEnd[t] <= 1 + faults
    BY DEF RequestsAreBounded
  <2>1. /\ Cardinality(Asking(t)) \in Nat
        /\ reqEnd[t] + Cardinality(Asking(t)) + (IF Unspent(t) THEN 1 ELSE 0) <= 1 + faults
    BY FS_CardinalityType DEF Budget
  <2>2. reqEnd[t] \in Nat /\ faults \in Nat
    BY PipelineAssumption DEF TypeOK
  <2> QED
    BY <2>1, <2>2
<1> QED
  BY <1>1, BudgetInvariant, TypeCorrect, PTL

\* However events are duplicated, instances crash and the classifier is
\* restarted with other rules, the delivery that settled a row by the ML
\* classifier asked nobody: each request there is cost a fault, and without two
\* answers that disagree there is none, so no answer can come to overwrite it.
THEOREM FinalMlDecisions == Spec => []MlDecisionsAreFinal
<1>1. ASSUME Values, Budget, NEW t \in Tx, SettledByMl(t)
      PROVE  /\ reqEnd[t] <= faults
             /\ t \notin Disputed => reqEnd[t] = 0 /\ respLog[t] = <<>>
  <2>1. reqEnd[t] \in Nat /\ faults \in Nat
    BY <1>1, PipelineAssumption DEF Values, TypeOK
  <2>2. reqEnd[t] <= faults
    <3>1. /\ Cardinality(Asking(t)) \in Nat
          /\ reqEnd[t] + Cardinality(Asking(t)) + 1 <= 1 + faults
      BY <1>1, FS_CardinalityType DEF Budget, Unspent
    <3> QED
      BY <2>1, <3>1
  <2>3. \E a \in MlAnswers[t] : ReachesThreshold(a)
    BY <1>1, ShapesOfRows DEF Unclassified, SettledByMl
  <2>4. t \notin Disputed => ~(reqEnd[t] > 0) /\ respLog[t] = <<>>
    BY <1>1, <2>3 DEF Values, OnlyUnsureAreSent, Unsure, Disputed
  <2> QED
    BY <2>1, <2>2, <2>4
<1>2. Values /\ Budget => MlDecisionsAreFinal
  BY <1>1 DEF MlDecisionsAreFinal, SettledByMl
<1> QED
  BY <1>2, ValuesInvariant, BudgetInvariant, PTL

-----------------------------------------------------------------------------
(* A pending row has work.  So has a call that holds its request back no    *)
(* longer and the row still locked.                                        *)

Awaits(t) == \E w \in Workers :
    /\ InCall("raw", w, t) /\ handler["raw"][w].pc = "published"
    /\ handler["raw"][w].entity.status = "LLM_CLASSIFYING"

Work == \A t \in Tx : (Pending(t) \/ Awaits(t)) /\ Lossless(t) => HasWork(t)

\* What waits for an answer was waiting, or has just asked, or its request is
\* lost.
LEMMA NewWaits ==
    ASSUME Values, [Next]_vars, NEW t \in Tx, (Pending(t) \/ Awaits(t))'
    PROVE  \/ Pending(t) \/ Awaits(t)
           \/ \E w \in Workers : PublishRequest(w) /\ handler["raw"][w].tx = t
           \/ ~Lossless(t)'
<1> DEFINE Goal == \/ Pending(t) \/ Awaits(t)
                   \/ \E w \in Workers : PublishRequest(w) /\ handler["raw"][w].tx = t
                   \/ ~Lossless(t)'
<1>1. /\ TypeOK /\ RawEntities /\ RespEntities
      /\ "raw" \in CoreTopics /\ "resp" \in CoreTopics
  BY DEF Values, CoreTopics
<1>2. CASE Pending(t)'
  <2>1. CASE UNCHANGED row
    BY <1>2, <2>1 DEF Pending
  <2>2. ASSUME NEW w \in Workers, CommitRaw(w) PROVE Goal
    <3> DEFINE h == handler["raw"][w]
    <3>1. /\ h.pc = "published" \/ h.pc = "decided"
          /\ row' = [row EXCEPT ![h.tx] = h.entity]
      BY <2>2 DEF CommitRaw, ReadyToCommit
    <3>2. CASE h.tx = t
      <4>1. h.entity.status = "LLM_CLASSIFYING"
        BY <1>1, <1>2, <3>1, <3>2 DEF Pending, TypeOK
      <4>2. h.pc # "decided"
        <5>1. /\ Unclassified("FAILED").status = "FAILED"
              /\ \A a : Accepted(a).status = "CLASSIFIED"
          BY DEF Unclassified, Accepted, Labelled
        <5>2. h.pc = "decided" => h.entity = Unclassified("FAILED")
                                    \/ \E a \in MlAnswers[h.tx] : h.entity = Accepted(a)
          BY <1>1 DEF RawEntities, IsAccepted
        <5> QED
          BY <4>1, <5>1, <5>2
      <4> QED
        BY <3>1, <3>2, <4>1, <4>2 DEF Awaits, InCall
    <3>3. CASE h.tx # t
      BY <1>1, <1>2, <3>1, <3>3 DEF Pending, TypeOK
    <3> QED
      BY <3>2, <3>3
  <2>3. ASSUME NEW w \in Workers, CommitResponse(w) PROVE Goal
    <3> DEFINE h == handler["resp"][w]
    <3>1. h.pc = "loaded" /\ row' = [row EXCEPT ![h.tx] = h.entity]
      BY <2>3 DEF CommitResponse
    <3>2. h.entity.status = "CLASSIFIED"
      <4>1. PICK a : h.entity = Answered(h.tx, a)
        BY <1>1, <3>1 DEF RespEntities, IsAnswer
      <4> QED
        BY <4>1 DEF Answered, Labelled
    <3> QED
      BY <1>1, <1>2, <3>1, <3>2 DEF Pending, TypeOK
  <2> QED
    BY <2>1, <2>2, <2>3, RowSteps
<1>3. CASE Awaits(t)'
  <2>1. PICK v \in Workers : /\ handler'["raw"][v].pc = "published"
                             /\ handler'["raw"][v].tx = t
                             /\ handler'["raw"][v].entity.status = "LLM_CLASSIFYING"
    BY <1>3 DEF Awaits, InCall
  <2>2. CASE /\ handler["raw"][v].pc = "published"
             /\ handler["raw"][v].tx = t
             /\ handler["raw"][v].entity = handler'["raw"][v].entity
    BY <2>1, <2>2 DEF Awaits, InCall
  <2>3. \/ /\ handler["raw"][v].pc = "published"
           /\ handler["raw"][v].tx = t
           /\ handler["raw"][v].entity = handler'["raw"][v].entity
        \/ \E g \in Handler : GoesOn(v, g)
    <3>1. ASSUME handler'["raw"][v] = handler["raw"][v] PROVE <2>3!1
      BY <2>1, <3>1
    <3>2. ASSUME NEW c \in CoreTopics, NEW w \in Workers, NEW u \in Tx,
                 Starts(c, w, u) \/ Skips(c, w, u)
          PROVE  handler'["raw"][v] = handler["raw"][v]
      <4>1. CASE Skips(c, w, u)
        BY <4>1 DEF Skips
      <4>2. CASE Starts(c, w, u)
        BY <1>1, <2>1, <4>2 DEF Starts, Proceed, TypeOK
      <4> QED
        BY <3>2, <4>1, <4>2
    <3>3. ASSUME NEW w \in Workers, NEW g \in Handler, GoesOn(w, g), w # v
          PROVE  handler'["raw"][v] = handler["raw"][v]
      BY <1>1, <3>3 DEF GoesOn, Proceed, TypeOK
    <3>4. ASSUME NEW c \in CoreTopics, NEW w \in Workers, Returns(c, w)
          PROVE  handler'["raw"][v] = handler["raw"][v]
      BY <1>1, <2>1, <3>4 DEF Returns, Idle, TypeOK
    <3>5. ASSUME NEW c \in CoreTopics, NEW u \in Tx, NEW w \in Workers, Rebalance(c, u, w)
          PROVE  /\ handler'["raw"][v].pc = handler["raw"][v].pc
                 /\ handler'["raw"][v].tx = handler["raw"][v].tx
                 /\ handler'["raw"][v].entity = handler["raw"][v].entity
      BY <1>1, <3>5 DEF Rebalance, TypeOK, Handler
    <3>6. ASSUME NEW w \in Workers, Crash(w)
          PROVE  handler'["raw"][v] = handler["raw"][v]
      BY <1>1, <2>1, <3>6 DEF Crash, Idle, TypeOK
    <3>7. CASE Aside
      BY <2>1, <3>7 DEF Aside
    <3> QED
      BY <1>1, <2>1, <3>2, <3>3, <3>4, <3>5, <3>6, <3>7, CallSteps
  <2>4. ASSUME NEW g \in Handler, GoesOn(v, g) PROVE Goal
    <3> DEFINE h == handler["raw"][v]
    <3>1. g.tx = h.tx /\ handler'["raw"][v] = g
      BY <1>1, <2>4 DEF GoesOn, Proceed, TypeOK
    <3>2. CASE PublishRequest(v)
      BY <2>1, <3>1, <3>2
    <3>3. CASE RequestLost(v)
      BY <2>1, <3>1, <3>3 DEF RequestLost, Lossless, Losses
    <3>4. CASE PublishThrows(v)
      <4>1. h \in Handler /\ h.entity \in Row
        BY <1>1, <3>4, ZenonT(30) DEF PublishThrows, TypeOK
      <4>2. handler'["raw"][v] = [h EXCEPT !.pc = "published", !.entity.status = "FAILED"]
        BY <1>1, <3>4 DEF PublishThrows, Proceed, TypeOK
      <4>3. handler'["raw"][v].entity.status = "FAILED"
        BY <4>1, <4>2 DEF Handler, Row
      <4> QED
        BY <2>1, <4>3
    <3> QED
      BY <2>1, <2>4, <3>1, <3>2, <3>3, <3>4 DEF GoesOn
  <2> QED
    BY <2>2, <2>3, <2>4
<1> QED
  BY <1>2, <1>3

\* Work is done by the agent's answer and by the commit of an answer; other than
\* that it is only left undone with a loss.
LEMMA WorkSteps ==
    ASSUME TypeOK, Bounds, [Next]_vars, NEW t \in Tx
    PROVE  \/ /\ pos'["req"][t] <= pos["req"][t] /\ reqEnd[t] <= reqEnd'[t]
              /\ pos'["resp"][t] <= pos["resp"][t] /\ Len(respLog[t]) <= Len(respLog'[t])
           \/ Respond(t)
           \/ \E w \in Workers : CommitResponse(w) /\ handler["resp"][w].tx = t
           \/ ~Lossless(t)'
<1> DEFINE Back == pos'["req"][t] <= pos["req"][t] /\ pos'["resp"][t] <= pos["resp"][t]
           Goal == \/ Back
                   \/ Respond(t)
                   \/ \E w \in Workers : CommitResponse(w) /\ handler["resp"][w].tx = t
                   \/ ~Lossless(t)'
<1>1. reqEnd[t] <= reqEnd'[t] /\ Len(respLog[t]) <= Len(respLog'[t])
  <2>1. EndOf("req", t) <= EndOf("req", t)' /\ EndOf("resp", t) <= EndOf("resp", t)'
    BY EndsGrow DEF Topics
  <2> QED
    BY <2>1 DEF EndOf
<1>2. /\ pos["req"][t] \in Nat /\ pos["resp"][t] \in Nat
      /\ off["req"][t] <= pos["req"][t] /\ off["resp"][t] <= pos["resp"][t]
  BY DEF TypeOK, Topics, Bounds
<1>3. ASSUME pos'["req"][t] = pos["req"][t] \/ pos'["req"][t] = off["req"][t],
             pos'["resp"][t] = pos["resp"][t] \/ pos'["resp"][t] = off["resp"][t]
      PROVE  Goal
  BY <1>2, <1>3
<1>4. ASSUME NEW c \in CoreTopics, NEW u \in Tx, MoveOn(c, u), ~(c = "resp" /\ u = t)
      PROVE  Goal
  BY <1>3, <1>4 DEF MoveOn, TypeOK, CoreTopics, Topics
<1>5. ASSUME NEW c \in CoreTopics, NEW w \in Workers, NEW u \in Tx,
             Starts(c, w, u) \/ Skips(c, w, u)
      PROVE  Goal
  <2>1. CASE Starts(c, w, u)
    BY <1>3, <2>1 DEF Starts
  <2>2. CASE Skips(c, w, u)
    <3>1. c = "resp" /\ u = t => ~Lossless(t)'
      BY <2>2 DEF Skips, Lossless, Losses
    <3>2. MoveOn(c, u)
      BY <2>2 DEF Skips
    <3> QED
      BY <1>4, <3>1, <3>2
  <2> QED
    BY <1>5, <2>1, <2>2
<1>6. ASSUME NEW w \in Workers, NEW g \in Handler, GoesOn(w, g) PROVE Goal
  BY <1>3, <1>6 DEF GoesOn
<1>7. ASSUME NEW c \in CoreTopics, NEW w \in Workers, Returns(c, w) PROVE Goal
  <2>1. CASE UNCHANGED pos
    BY <1>3, <2>1
  <2>2. CASE /\ MoveOn(c, handler[c][w].tx)
             /\ losses' = losses \cup {<<handler[c][w].tx, c>>}
                  \/ (c = "resp" => CommitResponse(w))
    <3>1. PICK u \in Tx : u = handler[c][w].tx
      BY <1>7 DEF Returns, TypeOK
    <3>2. CASE c = "resp" /\ u = t
      <4>1. CASE losses' = losses \cup {<<u, c>>}
        BY <3>2, <4>1 DEF Lossless, Losses
      <4>2. CASE CommitResponse(w)
        BY <3>1, <3>2, <4>2
      <4> QED
        BY <2>2, <3>1, <3>2, <4>1, <4>2
    <3>3. CASE ~(c = "resp" /\ u = t)
      BY <1>4, <2>2, <3>1, <3>3
    <3> QED
      BY <3>2, <3>3
  <2> QED
    BY <1>7, <2>1, <2>2 DEF Returns
<1>8. ASSUME NEW c \in CoreTopics, NEW u \in Tx, NEW w \in Workers, Rebalance(c, u, w)
      PROVE  Goal
  BY <1>3, <1>8 DEF Rebalance, TypeOK, CoreTopics, Topics
<1>9. ASSUME NEW w \in Workers, Crash(w) PROVE Goal
  BY <1>3, <1>9 DEF Crash, CoreTopics, Topics
<1>10. ASSUME Aside PROVE Goal
  <2>1. ASSUME NEW u \in Tx, Respond(u) \/ ResponseLost(u) PROVE Goal
    <3>1. pos' = [pos EXCEPT !["req"][u] = @ + 1]
      BY <2>1 DEF Respond, ResponseLost
    <3>2. CASE u = t
      BY <2>1, <3>2 DEF ResponseLost, Lossless, Losses
    <3>3. CASE u # t
      BY <1>3, <3>1, <3>3 DEF TypeOK, Topics
    <3> QED
      BY <3>2, <3>3
  <2>0. UNCHANGED pos => Goal
    BY <1>3
  <2>2. ASSUME NEW u \in Tx, Upstream(u) \/ AgentRestart(u) PROVE Goal
    <3>1. /\ pos'["req"][t] = pos["req"][t] \/ pos'["req"][t] = off["req"][t]
          /\ pos'["resp"][t] = pos["resp"][t]
      <4>1. CASE Upstream(u)
        BY <4>1 DEF Upstream
      <4>2. CASE AgentRestart(u)
        <5>1. pos' = [pos EXCEPT !["req"][u] = off["req"][u]]
          BY <4>2 DEF AgentRestart
        <5>2. pos \in [Topics -> [Tx -> Nat]] /\ "req" \in Topics /\ "resp" \in Topics
          BY DEF TypeOK, Topics
        <5> QED
          BY <5>1, <5>2
      <4> QED
        BY <2>2, <4>1, <4>2
    <3> QED
      BY <1>3, <3>1
  <2>3. ASSUME NEW c \in Topics, NEW u \in Tx, CommitOffset(c, u) PROVE Goal
    BY <2>0, <2>3 DEF CommitOffset
  <2>4. CASE UNCHANGED vars
    <3>1. UNCHANGED pos
      BY <2>4 DEF vars
    <3> QED
      BY <2>0, <3>1
  <2>5. \/ \E u \in Tx : Respond(u) \/ ResponseLost(u) \/ Upstream(u) \/ AgentRestart(u)
        \/ \E c \in Topics, u \in Tx : CommitOffset(c, u)
        \/ UNCHANGED vars
    BY <1>10 DEF Aside
  <2> HIDE DEF Goal
  <2> QED
    BY <2>1, <2>2, <2>3, <2>4, <2>5
<1>11. Goal
  BY <1>5, <1>6, <1>7, <1>8, <1>9, <1>10, CallSteps
<1> QED
  BY <1>1, <1>11

LEMMA WorkStep ==
    ASSUME Values, Bounds, Work, [Next]_vars
    PROVE  Work'
<1> SUFFICES ASSUME NEW t \in Tx, (Pending(t) \/ Awaits(t))', Lossless(t)'
             PROVE  HasWork(t)'
  BY DEF Work
<1>1. /\ TypeOK /\ TypeOK' /\ RawEntities /\ RespEntities
      /\ "raw" \in CoreTopics /\ "resp" \in CoreTopics
  BY NextTypeOK DEF Values, CoreTopics
<1>2. Lossless(t)
  BY LossesStay DEF Lossless
<1>3. /\ pos["req"][t] \in Nat /\ pos["resp"][t] \in Nat /\ reqEnd[t] \in Nat
      /\ pos'["req"][t] \in Nat /\ pos'["resp"][t] \in Nat /\ reqEnd'[t] \in Nat
      /\ pos["req"][t] <= reqEnd[t] /\ pos["resp"][t] <= Len(respLog[t])
      /\ respLog[t] \in Seq(LlmAnswers) /\ respLog'[t] \in Seq(LlmAnswers)
  BY <1>1 DEF TypeOK, Topics, Bounds, EndOf
<1>4. Len(respLog[t]) \in Nat /\ Len(respLog'[t]) \in Nat
  BY <1>3
<1>5. ASSUME NEW w \in Workers, PublishRequest(w), handler["raw"][w].tx = t
      PROVE  HasWork(t)'
  <2>1. reqEnd'[t] = reqEnd[t] + 1 /\ UNCHANGED pos
    BY <1>1, <1>5 DEF PublishRequest, TypeOK
  <2> QED
    BY <1>3, <2>1 DEF HasWork
<1>6. CASE Pending(t) \/ Awaits(t)
  <2>1. pos["req"][t] < reqEnd[t] \/ pos["resp"][t] < Len(respLog[t])
    BY <1>2, <1>6 DEF Work, HasWork
  <2>2. CASE /\ pos'["req"][t] <= pos["req"][t] /\ reqEnd[t] <= reqEnd'[t]
             /\ pos'["resp"][t] <= pos["resp"][t] /\ Len(respLog[t]) <= Len(respLog'[t])
    BY <1>3, <1>4, <2>1, <2>2, SMTT(30) DEF HasWork
  <2>3. CASE Respond(t)
    <3>1. PICK a \in LlmAnswers : respLog' = [respLog EXCEPT ![t] = Append(@, a)]
      BY <2>3 DEF Respond
    <3>2. respLog'[t] = Append(respLog[t], a) /\ pos'["resp"][t] = pos["resp"][t]
      BY <1>1, <2>3, <3>1 DEF Respond, TypeOK, Topics
    <3>3. Len(respLog'[t]) = Len(respLog[t]) + 1
      BY <1>3, <3>2
    <3> QED
      BY <1>3, <1>4, <3>2, <3>3 DEF HasWork
  <2>4. ASSUME NEW w \in Workers, CommitResponse(w), handler["resp"][w].tx = t
        PROVE  FALSE
    <3> DEFINE h == handler["resp"][w]
    <3>1. /\ h.pc = "loaded" /\ row' = [row EXCEPT ![t] = h.entity]
          /\ \A v \in Workers : ~LocksRow(v, t)
          /\ handler' = [handler EXCEPT !["resp"][w] = Idle]
      BY <2>4 DEF CommitResponse, Ack
    <3>2. PICK a : h.entity = Answered(t, a)
      BY <1>1, <2>4, <3>1 DEF RespEntities, IsAnswer
    <3>3. ~Pending(t)'
      BY <1>1, <3>1, <3>2 DEF Pending, Answered, Labelled, TypeOK
    <3>4. \A v \in Workers : handler'["raw"][v] = handler["raw"][v]
      BY <1>1, <3>1 DEF TypeOK
    <3>5. ~Awaits(t)'
      BY <3>1, <3>4 DEF Awaits, InCall, LocksRow
    <3> QED
      BY <3>3, <3>5
  <2> QED
    BY <1>1, <2>2, <2>3, <2>4, WorkSteps
<1> QED
  BY <1>5, <1>6, NewWaits

\* A pending row is never orphaned silently: its request or an answer to it is
\* still to be processed, for any number of instances, unless one has been lost.
THEOREM PendingRows == Spec => []PendingHasWork
<1>1. Init => Work
  BY DEF Init, Idle, Work, Pending, Awaits, InCall, CoreTopics
<1>2. Work => PendingHasWork
  BY DEF Work, PendingHasWork
<1>3. Values /\ Bounds /\ Work /\ [Next]_vars => Work'
  BY WorkStep
<1> QED
  BY <1>1, <1>2, <1>3, ValuesInvariant, PositionsInvariant, PTL DEF Spec

-----------------------------------------------------------------------------
(* One instance.  Its listener is the only one to record a transaction, so  *)
(* nothing is there to be overwritten.                                      *)

Alone == \A v, w \in Workers : v = w

Solo == \A w \in Workers :
    handler["raw"][w].pc # "idle" => row[handler["raw"][w].tx] = Null

LEMMA SoloStep ==
    ASSUME Alone, Values, Solo, [Next]_vars
    PROVE  Solo'
<1> SUFFICES ASSUME NEW v \in Workers, handler'["raw"][v].pc # "idle"
             PROVE  row'[handler'["raw"][v].tx] = Null
  BY DEF Solo
<1> DEFINE Goal == row'[handler'["raw"][v].tx] = Null
<1>1. /\ TypeOK /\ RespEntities /\ "raw" \in CoreTopics /\ "resp" \in CoreTopics
      /\ \A w \in Workers : w = v
  BY DEF Values, CoreTopics, Alone
<1>2. ASSUME UNCHANGED row, handler["raw"][v].pc # "idle",
             handler'["raw"][v].tx = handler["raw"][v].tx
      PROVE  Goal
  BY <1>2 DEF Solo
<1>3. ASSUME NEW c \in CoreTopics, NEW w \in Workers, NEW t \in Tx, Starts(c, w, t)
      PROVE  Goal
  <2>1. PICK g \in Handler : g.tx = t /\ Proceed(c, w, g)
    BY <1>3 DEF Starts
  <2>2. UNCHANGED row
    BY <1>3 DEF Starts
  <2>3. CASE c = "raw"
    <3>1. row[t] = Null
      BY <1>1, <1>3, <2>3 DEF Starts, BeginRaw, CoreTopics
    <3>2. handler'["raw"][v].tx = t
      BY <1>1, <2>1, <2>3 DEF Proceed, TypeOK
    <3> QED
      BY <2>2, <3>1, <3>2
  <2>4. CASE c = "resp"
    <3>1. handler'["raw"][v] = handler["raw"][v]
      BY <1>1, <2>1, <2>4 DEF Proceed, TypeOK
    <3> QED
      BY <1>2, <2>2, <3>1
  <2> QED
    BY <2>3, <2>4 DEF CoreTopics
<1>4. ASSUME NEW w \in Workers, NEW g \in Handler, GoesOn(w, g) PROVE Goal
  <2>1. /\ UNCHANGED row /\ handler["raw"][v].pc # "idle" /\ w = v
        /\ g.tx = handler["raw"][v].tx /\ handler' = [handler EXCEPT !["raw"][v] = g]
    BY <1>1, <1>4 DEF GoesOn, Proceed
  <2>2. handler'["raw"][v] = g
    BY <1>1, <2>1 DEF TypeOK
  <2> QED
    BY <1>2, <2>1, <2>2
<1>5. ASSUME NEW c \in CoreTopics, NEW w \in Workers, Returns(c, w) PROVE Goal
  <2>1. c = "resp" /\ handler'["raw"][v] = handler["raw"][v]
    BY <1>1, <1>5 DEF Returns, Idle, TypeOK, CoreTopics
  <2>2. CASE UNCHANGED row
    BY <1>2, <2>1, <2>2
  <2>3. CASE CommitResponse(w)
    <3> DEFINE h == handler["resp"][w]
               t == handler["raw"][v].tx
    <3>1. row[h.tx] # Null /\ row' = [row EXCEPT ![h.tx] = h.entity]
      BY <1>1, <2>3 DEF CommitResponse, RespEntities
    <3>2. row[t] = Null /\ t \in Tx
      BY <1>1, <2>1 DEF Solo, TypeOK
    <3> QED
      BY <1>1, <2>1, <3>1, <3>2 DEF TypeOK
  <2> QED
    BY <1>5, <2>1, <2>2, <2>3 DEF Returns
<1>6. ASSUME NEW c \in CoreTopics, NEW t \in Tx, NEW w \in Workers, Rebalance(c, t, w)
      PROVE  Goal
  <2>1. /\ handler'["raw"][v].pc = handler["raw"][v].pc
        /\ handler'["raw"][v].tx = handler["raw"][v].tx
    BY <1>1, <1>6, SMTT(30) DEF Rebalance, TypeOK, Handler
  <2> QED
    BY <1>2, <1>6, <2>1 DEF Rebalance
<1>7. ASSUME NEW w \in Workers, Crash(w) PROVE Goal
  BY <1>1, <1>7 DEF Crash, Idle, TypeOK
<1>8. ASSUME Aside \/ \E c \in CoreTopics, w \in Workers, t \in Tx : Skips(c, w, t)
      PROVE  Goal
  <2>1. UNCHANGED <<handler, row>>
    BY <1>8 DEF Aside, Skips
  <2> QED
    BY <1>2, <2>1
<1> QED
  BY <1>1, <1>3, <1>4, <1>5, <1>6, <1>7, <1>8, CallSteps

LEMMA SoloInvariant ==
    ASSUME Alone PROVE Spec => []Solo
<1>1. Init => Solo
  BY DEF Init, Idle, Solo, CoreTopics
<1>2. Values /\ Solo /\ [Next]_vars => Solo'
  BY SoloStep
<1> QED
  BY <1>1, <1>2, ValuesInvariant, PTL DEF Spec

\* With one instance a classified transaction stays classified: only an answer
\* of the LLM may relabel it, whatever is redelivered.
THEOREM StaysClassified ==
    ASSUME Alone PROVE Spec => ClassifiedStaysClassified
<1>1. ASSUME Values, Solo, [Next]_vars, NEW t \in Tx, row[t] # Null,
             row[t].status = "CLASSIFIED"
      PROVE  \/ row'[t] = row[t]
             \/ row'[t].status = "CLASSIFIED" /\ row'[t].source = "LLM"
  <2>1. ASSUME NEW w \in Workers, CommitRaw(w) PROVE row'[t] = row[t]
    <3> DEFINE h == handler["raw"][w]
    <3>1. h.pc # "idle" /\ row' = [row EXCEPT ![h.tx] = h.entity]
      BY <2>1 DEF CommitRaw, ReadyToCommit
    <3>2. h.tx # t
      BY <1>1, <3>1 DEF Solo
    <3> QED
      BY <1>1, <3>1, <3>2 DEF Values, TypeOK
  <2>2. ASSUME NEW w \in Workers, CommitResponse(w)
        PROVE  \/ row'[t] = row[t]
               \/ row'[t].status = "CLASSIFIED" /\ row'[t].source = "LLM"
    <3> DEFINE h == handler["resp"][w]
    <3>1. h.pc = "loaded" /\ row' = [row EXCEPT ![h.tx] = h.entity]
      BY <2>2 DEF CommitResponse
    <3>2. PICK a : h.entity = Answered(h.tx, a)
      BY <1>1, <3>1 DEF Values, RespEntities, IsAnswer
    <3> QED
      BY <1>1, <3>1, <3>2 DEF Values, TypeOK, Answered, Labelled
  <2> QED
    BY <1>1, <2>1, <2>2, RowSteps
<1>2. Values /\ Solo /\ [Next]_vars =>
         [\A t \in Tx : row[t] # Null /\ row[t].status = "CLASSIFIED" =>
             \/ row'[t] = row[t]
             \/ row'[t].status = "CLASSIFIED" /\ row'[t].source = "LLM"]_row
  BY <1>1
<1> QED
  BY <1>2, ValuesInvariant, SoloInvariant, PTL DEF Spec, ClassifiedStaysClassified

\* How a reader sees each shape of entity the handlers build.
LEMMA ShapeStates ==
    ASSUME NEW t
    PROVE  /\ Unclassified("FAILED") # Null => StateOf(Unclassified("FAILED")) = "failed"
           /\ \A e : /\ IsAccepted(t, e) /\ e # Null => StateOf(e) = "ml"
                     /\ IsDeferred(t, e) /\ e # Null => StateOf(e) = "pending"
                     /\ IsUnsent(t, e) /\ e # Null => StateOf(e) = "failed"
           /\ \A a : Answered(t, a) # Null => StateOf(Answered(t, a)) = "llm"
<1>1. Unclassified("FAILED").status = "FAILED"
  BY DEF Unclassified
<1>2. \A a : Accepted(a).status = "CLASSIFIED" /\ Accepted(a).source = "ML"
  BY DEF Accepted, Labelled
<1>3. \A a : Deferred(a).status = "LLM_CLASSIFYING"
  BY DEF Deferred, Labelled
<1>4. \A a : [Deferred(a) EXCEPT !.status = "FAILED"].status = "FAILED"
  BY DEF Deferred, Labelled
<1>5. \A a : Answered(t, a).status = "CLASSIFIED" /\ Answered(t, a).source = "LLM"
  BY DEF Answered, Labelled
<1>6. ASSUME NEW e, e # Null
      PROVE  /\ IsAccepted(t, e) => StateOf(e) = "ml"
             /\ IsDeferred(t, e) => StateOf(e) = "pending"
             /\ IsUnsent(t, e) => StateOf(e) = "failed"
  BY <1>2, <1>3, <1>4, <1>6 DEF StateOf, IsAccepted, IsDeferred, IsUnsent
<1> QED
  BY <1>1, <1>5, <1>6 DEF StateOf

\* The entity a raw handler commits, as a reader will see it.
LEMMA RecordedAs ==
    ASSUME Values, NEW w \in Workers, ReadyToCommit(w)
    PROVE  StateOf(handler["raw"][w].entity) \in {"pending", "failed", "ml"}
<1> DEFINE h == handler["raw"][w]
<1>1. h.pc \in {"decided", "published"} /\ h.entity # Null
  BY NullIsNoRow DEF ReadyToCommit, Values, TypeOK, CoreTopics
<1>2. \/ h.entity = Unclassified("FAILED")
      \/ IsAccepted(h.tx, h.entity)
      \/ IsDeferred(h.tx, h.entity)
      \/ IsUnsent(h.tx, h.entity)
  BY <1>1 DEF Values, RawEntities
<1> QED
  BY <1>1, <1>2, ShapeStates

\* A row that an answer is committed to waits for one, or has one, or the
\* classifier was restarted and decided otherwise.
LEMMA LabelledFrom ==
    ASSUME Values, NEW t \in Tx, row[t] # Null, respLog[t] # <<>>
    PROVE  \/ StateOf(row[t]) \in {"pending", "failed", "llm"}
           \/ StateOf(row[t]) = "ml" /\ t \in Disputed
<1>1. Unsure(t)
  BY DEF Values, OnlyUnsureAreSent
<1>2. \/ IsAccepted(t, row[t]) \/ IsDeferred(t, row[t]) \/ IsUnsent(t, row[t])
      \/ row[t] = Unclassified("FAILED")
      \/ \E a : row[t] = Answered(t, a)
  BY DEF Values, RowShapes, IsAnswer
<1>3. IsAccepted(t, row[t]) => t \in Disputed
  BY <1>1 DEF IsAccepted, Unsure, Disputed
<1>4. ASSUME NEW a, row[t] = Answered(t, a) PROVE StateOf(row[t]) = "llm"
  BY <1>4, ShapeStates
<1>5. row[t] = Unclassified("FAILED") => StateOf(row[t]) = "failed"
  BY ShapeStates
<1> QED
  BY <1>2, <1>3, <1>4, <1>5, ShapeStates

\* What a reader sees after one row is written.
LEMMA RecordedState ==
    ASSUME NEW q \in Tx, NEW e,
           \A t \in Tx : row'[t] = IF t = q THEN e ELSE row[t]
    PROVE  [t \in Tx |-> StateOf(row[t])]'
             = [[t \in Tx |-> StateOf(row[t])] EXCEPT ![q] = StateOf(e)]
<1>1. \A t \in Tx : StateOf(row'[t]) = IF t = q THEN StateOf(e) ELSE StateOf(row[t])
  OBVIOUS
<1>2. [t \in Tx |-> StateOf(row[t])]' = [t \in Tx |-> StateOf(row'[t])]
  OBVIOUS
<1> QED
  BY <1>1, <1>2

LEMMA LifecycleStep ==
    ASSUME Values, Solo, [Next]_vars
    PROVE  [Lifecycle!Next]_([t \in Tx |-> StateOf(row[t])])
<1> DEFINE state == [t \in Tx |-> StateOf(row[t])]
<1>1. TypeOK /\ "raw" \in CoreTopics /\ "resp" \in CoreTopics
  BY DEF Values, CoreTopics
<1>2. CASE UNCHANGED row
  BY <1>2
<1>3. ASSUME NEW w \in Workers, CommitRaw(w)
      PROVE  \E t \in Tx : Lifecycle!Record(t)
  <2> DEFINE q == handler["raw"][w].tx
             e == handler["raw"][w].entity
  <2>1. /\ q \in Tx /\ row[q] = Null /\ row' = [row EXCEPT ![q] = e]
        /\ StateOf(e) \in {"pending", "failed", "ml"}
    BY <1>1, <1>3, RecordedAs DEF CommitRaw, ReadyToCommit, Solo, TypeOK
  <2>2. \A t \in Tx : row'[t] = IF t = q THEN e ELSE row[t]
    BY <1>1, <2>1 DEF TypeOK
  <2>3. StateOf(row[q]) = "absent"
    BY <2>1 DEF StateOf
  <2>4. state' = [state EXCEPT ![q] = StateOf(e)]
    BY <2>1, <2>2, RecordedState
  <2>5. Lifecycle!Record(q)
    <3> HIDE DEF q, e
    <3> QED
      BY <2>1, <2>3, <2>4 DEF Lifecycle!Record
  <2> QED
    BY <2>1, <2>5
<1>4. ASSUME NEW w \in Workers, CommitResponse(w)
      PROVE  UNCHANGED state \/ \E t \in Tx : Lifecycle!Label(t)
  <2> DEFINE q == handler["resp"][w].tx
             e == handler["resp"][w].entity
  <2>1. /\ q \in Tx /\ row[q] # Null /\ row' = [row EXCEPT ![q] = e]
        /\ IsAnswer(q, e, respLog[q])
    BY <1>1, <1>4 DEF CommitResponse, Values, RespEntities, TypeOK
  <2>2. \A t \in Tx : row'[t] = IF t = q THEN e ELSE row[t]
    BY <1>1, <2>1 DEF TypeOK
  <2>3. StateOf(e) = "llm"
    <3>1. e # Null
      BY <1>1, <1>4, NullIsNoRow DEF CommitResponse, TypeOK
    <3>2. PICK a : e = Answered(q, a)
      BY <2>1 DEF IsAnswer
    <3> QED
      BY <3>1, <3>2 DEF StateOf, Answered, Labelled
  <2>4. respLog[q] # <<>>
    BY <2>1 DEF IsAnswer
  <2>5. \/ StateOf(row[q]) \in {"pending", "failed", "llm"}
        \/ StateOf(row[q]) = "ml" /\ q \in Disputed
    BY <2>1, <2>4, LabelledFrom
  <2>6. state' = [state EXCEPT ![q] = "llm"]
    BY <2>1, <2>2, <2>3, RecordedState
  <2> HIDE DEF q, e
  <2>7. CASE StateOf(row[q]) = "llm"
    BY <2>1, <2>6, <2>7
  <2>8. CASE \/ StateOf(row[q]) \in {"pending", "failed"}
             \/ StateOf(row[q]) = "ml" /\ q \in Disputed
    BY <2>1, <2>6, <2>8 DEF Lifecycle!Label
  <2> QED
    BY <2>5, <2>7, <2>8
<1> QED
  BY <1>2, <1>3, <1>4, RowSteps DEF Lifecycle!Next

\* With one instance the pipeline keeps the promise of TransactionLifecycle: a
\* row appears settled, pending or failed, and only an answer of the LLM changes
\* it, through every redelivery, restart and lost message; a row the ML
\* classifier settled is changed only if the classifier itself, restarted with
\* other rules or another model, may decide that transaction both ways.
THEOREM OneInstanceLifecycle ==
    ASSUME Alone PROVE Spec => LifecycleSpec
<1>1. Init => Lifecycle!Init
  BY DEF Init, Lifecycle!Init, StateOf
<1>2. Values /\ Solo /\ [Next]_vars => [Lifecycle!Next]_([t \in Tx |-> StateOf(row[t])])
  BY LifecycleStep
<1> QED
  BY <1>1, <1>2, ValuesInvariant, SoloInvariant, PTL DEF Spec, LifecycleSpec, Lifecycle!Spec
=============================================================================
