--------------------------- MODULE CoachFlowProofs ---------------------------
(***************************************************************************)
(* What CoachFlow guarantees for every set of requests and users, every    *)
(* number of agent instances, and every bound: the types, the safety       *)
(* properties, and, for one instance, the lifecycle a poller is promised.  *)
(***************************************************************************)
EXTENDS CoachFlow, FiniteSetTheorems, TLAPS

-----------------------------------------------------------------------------
(* Type correctness.                                                       *)

HandlerTypeOK ==
    /\ handler \in [Workers -> Handler]
    /\ \A w \in Workers :
          handler[w].pc # "idle" =>
              /\ handler[w].req \in Req
              /\ handler[w].pc # "missing" => handler[w].entity \in Rec

PositionTypeOK ==
    /\ pos \in [Users -> Nat]
    /\ attempts \in [Users -> 0 .. MaxAttempts - 1]

LEMMA RecordTypes ==
    /\ Idle \in Handler
    /\ Pending \in Rec
    /\ \A e \in Rec : Failed(e) \in Rec
    /\ \A e \in Rec, o \in Origins : Completed(e, o) \in Rec
<1>1. Idle \in Handler
  BY CoachAssumption DEF Idle, Handler
<1>2. Pending \in Rec
  BY DEF Pending, Rec
<1>3. \A e \in Rec : Failed(e) \in Rec
  BY DEF Rec, Failed, Terminal
<1>4. \A e \in Rec, o \in Origins : Completed(e, o) \in Rec
  BY DEF Rec, Completed, Terminal
<1> QED
  BY <1>1, <1>2, <1>3, <1>4

LEMMA InitTypeOK == Init => TypeOK
<1> SUFFICES ASSUME Init PROVE TypeOK
  OBVIOUS
<1>1. handler \in [Workers -> Handler]
  BY RecordTypes DEF Init
<1>2. \A w \in Workers : handler[w].pc = "idle"
  BY DEF Init, Idle
<1> QED
  BY <1>1, <1>2, CoachAssumption DEF Init, TypeOK

LEMMA FaultType == TypeOK /\ Fault => faults' \in 0 .. MaxFaults
BY CoachAssumption DEF TypeOK, Fault

LEMMA LossType ==
    ASSUME TypeOK, NEW r \in Req, NEW l \in Losses, Lose(r, l)
    PROVE  losses' \subseteq Req \X Losses
BY DEF TypeOK, Lose

LEMMA ProceedType ==
    ASSUME TypeOK, NEW w \in Workers, NEW h \in Handler,
           h.pc # "idle" => /\ h.req \in Req
                            /\ h.pc # "missing" => h.entity \in Rec,
           Proceed(w, h)
    PROVE  HandlerTypeOK'
BY DEF TypeOK, Proceed, HandlerTypeOK

LEMMA IdleType ==
    ASSUME TypeOK, NEW w \in Workers, Proceed(w, Idle)
    PROVE  HandlerTypeOK'
<1>1. Idle.pc = "idle"
  BY DEF Idle
<1> QED
  BY <1>1, RecordTypes, ProceedType

LEMMA MoveOnType ==
    ASSUME TypeOK, NEW u \in Users, MoveOn(u)
    PROVE  PositionTypeOK'
BY CoachAssumption DEF TypeOK, MoveOn, PositionTypeOK

\* A busy thread holds a request of some user.
LEMMA BusyType ==
    ASSUME TypeOK, NEW w \in Workers, handler[w].pc # "idle"
    PROVE  handler[w].req \in Req /\ PartitionOf(w) \in Users
BY CoachAssumption DEF TypeOK, PartitionOf

LEMMA AckType ==
    ASSUME TypeOK, NEW w \in Workers, handler[w].pc # "idle", Ack(w)
    PROVE  HandlerTypeOK' /\ PositionTypeOK'
<1>1. HandlerTypeOK'
  BY IdleType DEF Ack
<1>2. PositionTypeOK'
  BY BusyType, MoveOnType DEF Ack, TypeOK, PositionTypeOK
<1> QED
  BY <1>1, <1>2

LEMMA NackType ==
    ASSUME TypeOK, NEW w \in Workers, handler[w].pc # "idle",
           Nack(w), faults' \in 0 .. MaxFaults
    PROVE  TypeOK'
<1>1. HandlerTypeOK'
  BY IdleType DEF Nack
<1>2. PartitionOf(w) \in Users /\ handler[w].req \in Req
  BY BusyType
<1>3. PositionTypeOK'
  <2>1. CASE ~Exhausted(w) /\ attempts' = [attempts EXCEPT ![PartitionOf(w)] = @ + 1]
                /\ UNCHANGED pos
    <3>1. attempts \in [Users -> 0 .. MaxAttempts - 1] /\ pos \in [Users -> Nat]
      BY DEF TypeOK
    <3>2. attempts[PartitionOf(w)] \in 0 .. MaxAttempts - 1
      BY <3>1, <1>2
    <3>3. attempts[PartitionOf(w)] + 1 # MaxAttempts
      BY <2>1 DEF Exhausted
    <3>4. MaxAttempts \in Nat
      BY CoachAssumption
    <3>5. attempts[PartitionOf(w)] + 1 \in 0 .. MaxAttempts - 1
      BY <3>2, <3>3, <3>4
    <3>6. attempts' \in [Users -> 0 .. MaxAttempts - 1]
      BY <2>1, <3>5, <3>1, <1>2
    <3> QED
      BY <2>1, <3>1, <3>6 DEF PositionTypeOK
  <2>2. CASE UNCHANGED <<pos, attempts>>
    BY <2>2 DEF TypeOK, PositionTypeOK
  <2>3. CASE MoveOn(PartitionOf(w))
    BY <2>3, <1>2, MoveOnType
  <2> QED
    <3> USE DEF Nack
    <3>1. CASE handler[w].fenced
      BY <3>1, <2>2
    <3>2. CASE ~handler[w].fenced /\ ~Exhausted(w)
      BY <3>2, <2>1
    <3>3. CASE ~handler[w].fenced /\ Exhausted(w)
      BY <3>3, <2>3
    <3> QED
      BY <3>1, <3>2, <3>3
<1>4. losses' \subseteq Req \X Losses
  <2>1. "skipped" \in Losses
    BY DEF Losses
  <2> QED
    BY <2>1, <1>2, LossType DEF Nack, TypeOK
<1> QED
  BY <1>1, <1>3, <1>4 DEF HandlerTypeOK, PositionTypeOK, TypeOK, Nack

LEMMA DeliveredType ==
    ASSUME TypeOK, NEW w \in Workers, NEW u \in Users, Deliverable(w, u)
    PROVE  Delivered(u) \in Req
<1>1. pos[u] + 1 \in 1 .. Len(reqLog[u])
  BY DEF TypeOK, Deliverable
<1> QED
  BY <1>1 DEF TypeOK, Delivered

\* A step of one thread that keeps its request.
LEMMA DecideType ==
    ASSUME TypeOK, NEW w \in Workers, handler[w].pc = "loaded",
           NEW e \in Rec, Decide(w, e)
    PROVE  HandlerTypeOK'
<1> DEFINE h == [handler[w] EXCEPT !.pc = "decided", !.entity = e]
<1>1. h \in Handler /\ h.req \in Req /\ h.entity \in Rec
  BY BusyType DEF TypeOK, Handler
<1> QED
  BY <1>1, ProceedType DEF Decide

LEMMA AttemptType ==
    ASSUME TypeOK, NEW w \in Workers, handler[w].pc = "loaded",
           handler[w].tries + 1 < MaxLlmAttempts,
           Proceed(w, [handler[w] EXCEPT !.tries = @ + 1])
    PROVE  HandlerTypeOK'
<1> DEFINE h == [handler[w] EXCEPT !.tries = @ + 1]
<1>1. handler[w].tries + 1 \in 0 .. MaxLlmAttempts
  BY CoachAssumption DEF TypeOK, Handler
<1>2. h \in Handler /\ h.req \in Req /\ h.entity \in Rec
  BY <1>1, BusyType DEF TypeOK, Handler
<1> QED
  BY <1>2, ProceedType

LEMMA PublishType ==
    ASSUME TypeOK, NEW w \in Workers, handler[w].pc = "decided",
           Proceed(w, [handler[w] EXCEPT !.pc = "published"])
    PROVE  HandlerTypeOK'
<1> DEFINE h == [handler[w] EXCEPT !.pc = "published"]
<1>1. h \in Handler /\ h.req \in Req /\ h.entity \in Rec
  BY BusyType DEF TypeOK, Handler
<1> QED
  BY <1>1, ProceedType

LEMMA CallType ==
    ASSUME TypeOK, NEW w \in Workers, handler[w].pc # "idle", Call(w)
    PROVE  calls' \in [Req -> Nat]
BY BusyType, SMTT(30) DEF TypeOK, Call

\* What a thread can do in one step.
ThreadMove(w, g) ==
    LET h == handler[w] IN
    \/ g.pc = "idle"
    \/ /\ g.pc = h.pc /\ g.req = h.req /\ g.entity = h.entity
       /\ h.fenced => g.fenced
    \/ /\ g.pc \in {"missing", "loaded"}
       /\ \E u \in Users : Deliverable(w, u) /\ g.req = Delivered(u)
       /\ g.req \in Req /\ UNCHANGED <<rec, reqLog, pos, owner>>
       /\ g.pc = "loaded" => /\ rec[g.req] # Null
                             /\ rec[g.req].status = "PENDING"
                             /\ g.entity = rec[g.req]
    \/ /\ h.pc = "loaded" /\ g.pc = "decided"
       /\ g.req = h.req /\ g.fenced = h.fenced
       /\ \/ \E o \in Origins : g.entity = Completed(h.entity, o)
          \/ g.entity = Failed(h.entity)
    \/ /\ h.pc = "decided" /\ g.pc = "published"
       /\ g.req = h.req /\ g.entity = h.entity /\ g.fenced = h.fenced
       /\ \/ \E i \in 1 .. Len(respLog'[h.req]) :
                respLog'[h.req][i] = h.entity.status
          \/ <<h.req, "response">> \in losses'

LEMMA ThreadSteps ==
    ASSUME TypeOK, [Next]_vars, NEW v \in Workers
    PROVE  ThreadMove(v, handler'[v])
<1> DEFINE Goal == ThreadMove(v, handler'[v])
<1>1. ASSUME handler'[v] = handler[v] PROVE Goal
  BY <1>1 DEF ThreadMove
<1>2. ASSUME NEW w \in Workers, NEW g, Proceed(w, g),
             ThreadMove(w, g)
      PROVE  Goal
  BY <1>2, <1>1 DEF TypeOK, Proceed
<1>3. ASSUME NEW w \in Workers, Proceed(w, Idle) PROVE Goal
  BY <1>3, <1>2 DEF Idle, ThreadMove
<1>4. ASSUME NEW r \in Req, Core(r) PROVE Goal
  BY <1>4, <1>1 DEF Core, SendRequest, RequestLost, CommitRequest,
                    RequestRejected
<1>5. ASSUME NEW w \in Workers, Step(w) PROVE Goal
  <2>0. handler[w] \in Handler
    BY DEF TypeOK
  <2>1. ASSUME NEW u \in Users, LoadMissing(w, u) PROVE Goal
    <3>1. Delivered(u) \in Req
      BY <2>1, DeliveredType DEF LoadMissing
    <3> QED
      BY <2>1, <3>1, <1>2 DEF LoadMissing, ThreadMove, Idle
  <2>2. ASSUME NEW u \in Users, SkipTerminal(w, u) PROVE Goal
    BY <2>2, <1>1 DEF SkipTerminal
  <2>3. ASSUME NEW u \in Users, Load(w, u) PROVE Goal
    <3>1. Delivered(u) \in Req
      BY <2>3, DeliveredType DEF Load
    <3> QED
      BY <2>3, <3>1, <1>2 DEF Load, ThreadMove, Idle
  <2>4. CASE AnnounceMissing(w) \/ Commit(w)
    BY <2>4, <1>3 DEF AnnounceMissing, Commit, Ack
  <2>5. ASSUME NEW e, handler[w].pc = "loaded", Decide(w, e),
               \/ \E o \in Origins : e = Completed(handler[w].entity, o)
               \/ e = Failed(handler[w].entity)
        PROVE  Goal
    BY <2>5, <2>0, <1>2 DEF Decide, ThreadMove, Handler
  <2>6. CASE AnswerNoData(w)
    BY <2>6, <2>5 DEF AnswerNoData, Origins
  <2>7. CASE AnswerFallback(w)
    BY <2>7, <2>5 DEF AnswerFallback, Origins
  <2>8. CASE LlmSucceeds(w)
    BY <2>8, <2>5 DEF LlmSucceeds, Origins
  <2>9. CASE LlmFails(w)
    <3> DEFINE g == [handler[w] EXCEPT !.tries = @ + 1]
    <3>1. ThreadMove(w, g)
      BY <2>0 DEF Handler, ThreadMove
    <3> QED
      BY <2>9, <3>1, <2>5, <1>2 DEF LlmFails
  <2>10. CASE Announce(w)
    <3> DEFINE h == handler[w]
               g == [h EXCEPT !.pc = "published"]
    <3>0. \E i \in 1 .. Len(respLog'[h.req]) :
             respLog'[h.req][i] = h.entity.status
      <4>1. h.req \in Req
        BY <2>10, BusyType DEF Announce
      <4>2. respLog'[h.req] = Append(respLog[h.req], h.entity.status)
        BY <2>10, <4>1 DEF Announce, TypeOK
      <4>3. respLog[h.req] \in Seq(Terminal)
        BY <4>1 DEF TypeOK
      <4> QED
        BY <4>2, <4>3
    <3>1. ThreadMove(w, g)
      BY <2>10, <2>0, <3>0 DEF Announce, Handler, ThreadMove
    <3> QED
      BY <2>10, <3>1, <1>2 DEF Announce
  <2> QED
    BY <1>5, <2>1, <2>2, <2>3, <2>4, <2>6, <2>7, <2>8, <2>9, <2>10 DEF Step
<1>6. ASSUME Environment PROVE Goal
  <2>1. ASSUME NEW u \in Users, CommitOffset(u) PROVE Goal
    BY <2>1, <1>1 DEF CommitOffset
  <2>2. ASSUME NEW u \in Users, NEW w \in Workers, Rebalance(u, w) PROVE Goal
    <3>1. handler'[v] \in {handler[v], [handler[v] EXCEPT !.fenced = TRUE]}
      BY <2>2 DEF Rebalance
    <3> QED
      BY <3>1 DEF TypeOK, Handler, ThreadMove
  <2>3. ASSUME NEW w \in Workers, ResponseLost(w) PROVE Goal
    <3> DEFINE g == [handler[w] EXCEPT !.pc = "published"]
    <3>1. ThreadMove(w, g)
      BY <2>3 DEF ResponseLost, Lose, TypeOK, Handler, ThreadMove
    <3> QED
      BY <2>3, <3>1, <1>2 DEF ResponseLost
  <2>4. ASSUME NEW w \in Workers, HandlerFails(w) \/ Crash(w) PROVE Goal
    BY <2>4, <1>3 DEF HandlerFails, Nack, Crash
  <2> QED
    BY <1>6, <2>1, <2>2, <2>3, <2>4 DEF Environment
<1>7. CASE UNCHANGED vars
  BY <1>7, <1>1 DEF vars
<1> QED
  BY <1>4, <1>5, <1>6, <1>7 DEF Next

\* What is announced is a decision: the type of the response log needs it.
DecidedIsFinal ==
    \A w \in Workers : handler[w].pc = "decided" =>
                           handler[w].entity.status \in Terminal

LEMMA DecidedStep ==
    ASSUME TypeOK, DecidedIsFinal, [Next]_vars
    PROVE  DecidedIsFinal'
<1> SUFFICES ASSUME NEW w \in Workers, handler'[w].pc = "decided"
             PROVE  handler'[w].entity.status \in Terminal
  BY DEF DecidedIsFinal
<1>1. handler[w].pc = "loaded" => handler[w].entity \in Rec
  BY DEF TypeOK
<1>2. \A e \in Rec : /\ Failed(e).status \in Terminal
                    /\ \A o \in Origins : Completed(e, o).status \in Terminal
  BY DEF Rec, Failed, Completed, Terminal
<1> QED
  BY <1>1, <1>2, ThreadSteps DEF ThreadMove, DecidedIsFinal

LEMMA NextTypeOK == TypeOK /\ DecidedIsFinal /\ [Next]_vars => TypeOK'
<1> SUFFICES ASSUME TypeOK, DecidedIsFinal, [Next]_vars PROVE TypeOK'
  OBVIOUS
<1> USE DEF HandlerTypeOK, PositionTypeOK
<1>1. ASSUME NEW r \in Req, Core(r) PROVE TypeOK'
  <2>1. CASE SendRequest(r)
    <3>1. \A u \in Users : Append(reqLog[u], r) \in Seq(Req)
      BY DEF TypeOK
    <3>2. reqLog' \in [Users -> Seq(Req)]
      BY <2>1, <3>1 DEF SendRequest, TypeOK
    <3> QED
      BY <2>1, <3>2 DEF SendRequest, TypeOK
  <2>2. CASE RequestLost(r)
    <3>1. losses' \subseteq Req \X Losses
      BY <2>2, LossType DEF RequestLost, Losses
    <3> QED
      BY <2>2, <3>1, FaultType DEF RequestLost, TypeOK
  <2>3. CASE CommitRequest(r)
    BY <2>3, RecordTypes DEF CommitRequest, TypeOK
  <2>4. CASE RequestRejected(r)
    BY <2>4, FaultType DEF RequestRejected, TypeOK
  <2> QED
    BY <1>1, <2>1, <2>2, <2>3, <2>4 DEF Core
<1>2. ASSUME NEW w \in Workers, Step(w) PROVE TypeOK'
  <2>1. ASSUME NEW u \in Users, LoadMissing(w, u) PROVE TypeOK'
    <3> DEFINE h == [Idle EXCEPT !.pc = "missing", !.req = Delivered(u)]
    <3>1. Delivered(u) \in Req
      BY <2>1, DeliveredType DEF LoadMissing
    <3>2. h \in Handler /\ h.pc = "missing" /\ h.req \in Req
      BY <3>1, RecordTypes DEF Handler, Idle
    <3>3. HandlerTypeOK'
      BY <2>1, <3>2, ProceedType DEF LoadMissing
    <3> QED
      BY <2>1, <3>3 DEF LoadMissing, TypeOK
  <2>2. ASSUME NEW u \in Users, SkipTerminal(w, u) PROVE TypeOK'
    BY <2>2, MoveOnType DEF SkipTerminal, TypeOK
  <2>3. ASSUME NEW u \in Users, Load(w, u) PROVE TypeOK'
    <3> DEFINE r == Delivered(u)
               h == [Idle EXCEPT !.pc = "loaded", !.req = r, !.entity = rec[r]]
    <3>1. r \in Req
      BY <2>3, DeliveredType DEF Load
    <3>2. rec[r] \in Rec
      BY <2>3, <3>1 DEF Load, TypeOK
    <3>3. h \in Handler /\ h.req \in Req /\ h.entity \in Rec
      BY <3>1, <3>2, RecordTypes DEF Handler, Idle
    <3>4. HandlerTypeOK'
      BY <2>3, <3>3, ProceedType DEF Load
    <3> QED
      BY <2>3, <3>4 DEF Load, TypeOK
  <2>4. CASE AnnounceMissing(w)
    <3>1. handler[w].req \in Req
      BY <2>4, BusyType DEF AnnounceMissing
    <3>2. Append(respLog[handler[w].req], "FAILED") \in Seq(Terminal)
      BY <3>1 DEF TypeOK, Terminal
    <3>3. respLog' \in [Req -> Seq(Terminal)]
      BY <2>4, <3>2 DEF AnnounceMissing, TypeOK
    <3>4. losses' \subseteq Req \X Losses
      BY <2>4, <3>1, LossType DEF AnnounceMissing, Losses
    <3>5. HandlerTypeOK' /\ PositionTypeOK'
      BY <2>4, AckType DEF AnnounceMissing
    <3> QED
      BY <2>4, <3>3, <3>4, <3>5 DEF AnnounceMissing, TypeOK
  <2>5. CASE AnswerNoData(w) \/ AnswerFallback(w)
    <3>1. handler[w].entity \in Rec
      BY <2>5 DEF AnswerNoData, AnswerFallback, TypeOK
    <3>2. HandlerTypeOK'
      BY <2>5, <3>1, RecordTypes, DecideType
         DEF AnswerNoData, AnswerFallback, Origins
    <3> QED
      BY <2>5, <3>2 DEF AnswerNoData, AnswerFallback, TypeOK
  <2>6. CASE LlmSucceeds(w) \/ LlmFails(w)
    <3>1. handler[w].pc = "loaded" /\ Call(w) /\ handler[w].entity \in Rec
      BY <2>6 DEF LlmSucceeds, LlmFails, TypeOK
    <3>2. calls' \in [Req -> Nat]
      BY <3>1, CallType
    <3>3. CASE LlmSucceeds(w)
      BY <3>1, <3>2, <3>3, RecordTypes, DecideType
         DEF LlmSucceeds, Origins, TypeOK
    <3>4. CASE LlmFails(w)
      <4>1. HandlerTypeOK'
        BY <3>1, <3>4, RecordTypes, DecideType, AttemptType DEF LlmFails
      <4> QED
        BY <3>2, <3>4, <4>1 DEF LlmFails, TypeOK
    <3> QED
      BY <2>6, <3>3, <3>4
  <2>7. CASE Announce(w)
    <3> DEFINE h == handler[w]
    <3>1. h.req \in Req /\ h.entity.status \in Terminal
      BY <2>7 DEF Announce, TypeOK, DecidedIsFinal
    <3>2. Append(respLog[h.req], h.entity.status) \in Seq(Terminal)
      BY <3>1 DEF TypeOK
    <3>3. HandlerTypeOK'
      BY <2>7, PublishType DEF Announce
    <3> QED
      BY <2>7, <3>2, <3>3 DEF Announce, TypeOK
  <2>8. CASE Commit(w)
    <3>1. handler[w].req \in Req /\ handler[w].entity \in Rec
      BY <2>8 DEF Commit, TypeOK
    <3>2. HandlerTypeOK' /\ PositionTypeOK'
      BY <2>8, AckType DEF Commit
    <3> QED
      BY <2>8, <3>1, <3>2 DEF Commit, TypeOK
  <2> QED
    BY <1>2, <2>1, <2>2, <2>3, <2>4, <2>5, <2>6, <2>7, <2>8 DEF Step
<1>3. ASSUME Environment PROVE TypeOK'
  <2>1. ASSUME NEW u \in Users, CommitOffset(u) PROVE TypeOK'
    BY <2>1 DEF CommitOffset, TypeOK
  <2>2. ASSUME NEW u \in Users, NEW w \in Workers, Rebalance(u, w)
        PROVE  TypeOK'
    <3>1. HandlerTypeOK'
      <4> SUFFICES ASSUME NEW v \in Workers
                   PROVE  /\ handler'[v] \in Handler
                          /\ handler'[v].pc # "idle" =>
                                /\ handler'[v].req \in Req
                                /\ handler'[v].pc # "missing" =>
                                      handler'[v].entity \in Rec
        BY <2>2 DEF Rebalance
      <4>1. handler'[v] \in {handler[v], [handler[v] EXCEPT !.fenced = TRUE]}
        BY <2>2 DEF Rebalance
      <4> QED
        BY <4>1 DEF TypeOK, Handler
    <3>2. PositionTypeOK'
      BY <2>2, CoachAssumption DEF Rebalance, TypeOK
    <3> QED
      BY <2>2, <3>1, <3>2, FaultType DEF Rebalance, TypeOK
  <2>3. ASSUME NEW w \in Workers, ResponseLost(w) PROVE TypeOK'
    <3>1. HandlerTypeOK'
      BY <2>3, PublishType DEF ResponseLost
    <3>2. losses' \subseteq Req \X Losses
      BY <2>3, BusyType, LossType DEF ResponseLost, Losses
    <3> QED
      BY <2>3, <3>1, <3>2, FaultType DEF ResponseLost, TypeOK
  <2>4. ASSUME NEW w \in Workers, HandlerFails(w) PROVE TypeOK'
    BY <2>4, NackType, FaultType DEF HandlerFails
  <2>5. ASSUME NEW w \in Workers, Crash(w) PROVE TypeOK'
    <3>1. HandlerTypeOK'
      BY <2>5, IdleType DEF Crash
    <3>2. PositionTypeOK'
      BY <2>5, CoachAssumption DEF Crash, TypeOK
    <3> QED
      BY <2>5, <3>1, <3>2, FaultType DEF Crash, TypeOK
  <2> QED
    BY <1>3, <2>1, <2>2, <2>3, <2>4, <2>5 DEF Environment
<1>4. CASE UNCHANGED vars
  BY <1>4 DEF vars, TypeOK
<1> QED
  BY <1>1, <1>2, <1>3, <1>4 DEF Next

\* Rows, logs, positions, threads and counters keep their types through every
\* interleaving, fault and restart: no entity is announced or committed that
\* was not loaded, no thread acknowledges a request it does not hold, and the
\* attempts of a record never reach the error handler's limit.
THEOREM TypeCorrect == Spec => []TypeOK
<1>1. Init => TypeOK /\ DecidedIsFinal
  BY InitTypeOK DEF Init, DecidedIsFinal, Idle
<1>2. TypeOK /\ DecidedIsFinal /\ [Next]_vars => (TypeOK /\ DecidedIsFinal)'
  BY NextTypeOK, DecidedStep
<1> QED
  BY <1>1, <1>2, PTL DEF Spec

-----------------------------------------------------------------------------
(* The inductive invariant of the safety properties, in parts.             *)

Outcomes == {Completed(Pending, o) : o \in Origins} \cup {Failed(Pending)}

\* A thread works on the PENDING row it loaded, commits one outcome of it,
\* and has announced it by then.
HandlerEntities ==
    \A w \in Workers :
        LET h == handler[w] IN
        /\ h.pc = "loaded" => h.entity = Pending
        /\ h.pc \in {"decided", "published"} => h.entity \in Outcomes
        /\ h.pc \in {"loaded", "decided", "published"} => rec[h.req] # Null
        /\ h.pc = "published" => \/ Announced(h.req, h.entity.status)
                                 \/ <<h.req, "response">> \in losses

\* The committed rows.
Rows ==
    \A r \in Req : /\ rec[r] \in {Null, Pending} \cup Outcomes
                   /\ rec[r] # Null => creating[r] = "accepted"

Served(r) == \/ rec[r] # Null /\ rec[r].status \in Terminal
             \/ Lost(r)

\* Positions stay within the log, and pass only what is served.
Positions ==
    \A u \in Users :
        /\ off[u] <= pos[u] /\ pos[u] <= Len(reqLog[u])
        /\ \A i \in 1 .. Len(reqLog[u]) : userOf[reqLog[u][i]] = u
        /\ \A i \in 1 .. pos[u] : Served(reqLog[u][i])

Holds(w) == handler[w].pc # "idle" /\ ~handler[w].fenced

\* A thread that is not fenced works on the next record of a partition its
\* instance owns: at most one such thread for each partition.
Holders ==
    \A w \in Workers : Holds(w) =>
        LET u == PartitionOf(w) IN
        /\ owner[u] = w
        /\ pos[u] < Len(reqLog[u])
        /\ Delivered(u) = handler[w].req

Safe == HandlerEntities /\ Rows /\ Positions /\ Holders

LEMMA InitSafe == Init => Safe
<1> SUFFICES ASSUME Init PROVE Safe
  OBVIOUS
<1>1. \A w \in Workers : handler[w].pc = "idle"
  BY DEF Init, Idle
<1> QED
  BY <1>1 DEF Init, Safe, HandlerEntities, Rows, Positions, Holders, Holds

LEMMA OutcomeShape ==
    /\ Pending # Null /\ Pending.status = "PENDING"
    /\ \A e \in Outcomes : e \in Rec /\ e # Null /\ e.status \in Terminal
<1>1. Pending \in Rec
  BY RecordTypes
<1>2. ASSUME NEW o \in Origins
      PROVE  /\ Completed(Pending, o) \in Rec
             /\ Completed(Pending, o).status = "COMPLETED"
  BY <1>1, RecordTypes DEF Completed, Pending
<1>3. Failed(Pending) \in Rec /\ Failed(Pending).status = "FAILED"
  BY <1>1, RecordTypes DEF Failed, Pending
<1>4. Pending.status = "PENDING"
  BY DEF Pending
<1> QED
  BY <1>1, <1>2, <1>3, <1>4, NullIsNoData DEF Outcomes, Terminal

\* Only the two commits write rows: of the core's creation, of the agent's call.
LEMMA RowSteps ==
    ASSUME [Next]_vars
    PROVE  \/ UNCHANGED rec
           \/ \E r \in Req : CommitRequest(r)
           \/ \E w \in Workers : Commit(w)
BY DEF Next, vars, Core, Step, Environment, SendRequest, RequestLost,
       RequestRejected, LoadMissing, SkipTerminal, Load, AnnounceMissing,
       AnswerNoData, AnswerFallback, LlmSucceeds, LlmFails, Announce,
       CommitOffset, Rebalance, ResponseLost, HandlerFails, Nack, Crash

\* Nothing announced or lost is ever taken back.
LEMMA RecordsGrow ==
    ASSUME TypeOK, [Next]_vars
    PROVE  /\ losses \subseteq losses'
           /\ \A r \in Req : /\ Len(respLog[r]) <= Len(respLog'[r])
                             /\ \A i \in 1 .. Len(respLog[r]) :
                                   respLog'[r][i] = respLog[r][i]
<1>1. \/ UNCHANGED <<respLog, losses>>
      \/ UNCHANGED respLog /\ \E r, l : Lose(r, l)
      \/ \E w \in Workers : Announce(w) \/ AnnounceMissing(w)
  BY DEF Next, vars, Core, Step, Environment, SendRequest, RequestLost,
         CommitRequest, RequestRejected, LoadMissing, SkipTerminal, Load,
         AnswerNoData, AnswerFallback, LlmSucceeds, LlmFails, Commit,
         CommitOffset, Rebalance, ResponseLost, HandlerFails, Nack, Crash
<1>2. losses \subseteq losses'
  BY <1>1 DEF Lose, Announce, AnnounceMissing
<1> DEFINE Grows(r) == /\ Len(respLog[r]) <= Len(respLog'[r])
                       /\ \A i \in 1 .. Len(respLog[r]) :
                             respLog'[r][i] = respLog[r][i]
<1>3. ASSUME NEW r \in Req, respLog'[r] = respLog[r] PROVE Grows(r)
  BY <1>3 DEF TypeOK
<1>4. ASSUME NEW r \in Req, NEW s, respLog'[r] = Append(respLog[r], s)
      PROVE  Grows(r)
  BY <1>4 DEF TypeOK
<1>5. ASSUME NEW q, NEW s, respLog' = [respLog EXCEPT ![q] = Append(@, s)],
             NEW r \in Req
      PROVE  Grows(r)
  <2>1. respLog'[r] = respLog[r] \/ respLog'[r] = Append(respLog[r], s)
    BY <1>5 DEF TypeOK
  <2> QED
    BY <2>1, <1>3, <1>4
<1>6. \A r \in Req : Grows(r)
  BY <1>1, <1>3, <1>5, ZenonT(30) DEF Announce, AnnounceMissing
<1> QED
  BY <1>2, <1>6

LEMMA RequestsGrow ==
    ASSUME TypeOK, [Next]_vars, NEW u \in Users
    PROVE  \/ reqLog'[u] = reqLog[u]
           \/ \E r \in Req : userOf[r] = u /\ reqLog'[u] = Append(reqLog[u], r)
<1>1. UNCHANGED reqLog \/ \E r \in Req : SendRequest(r)
  BY DEF Next, vars, Core, Step, Environment, RequestLost, CommitRequest,
         RequestRejected, LoadMissing, SkipTerminal, Load, AnnounceMissing,
         AnswerNoData, AnswerFallback, LlmSucceeds, LlmFails, Announce, Commit,
         CommitOffset, Rebalance, ResponseLost, HandlerFails, Nack, Crash
<1>2. ASSUME NEW r \in Req, SendRequest(r)
      PROVE  \/ reqLog'[u] = reqLog[u]
             \/ userOf[r] = u /\ reqLog'[u] = Append(reqLog[u], r)
  BY <1>2 DEF SendRequest, TypeOK
<1> QED
  BY <1>1, <1>2

LEMMA RowsStep ==
    ASSUME TypeOK, Safe, [Next]_vars
    PROVE  /\ Rows'
           /\ \A r \in Req : rec[r] # Null => rec'[r] # Null
           /\ \A r \in Req : rec[r] # Null /\ rec[r].status \in Terminal =>
                              rec'[r] # Null /\ rec'[r].status \in Terminal
<1> USE OutcomeShape DEF Rows, Safe
<1>1. \A r \in Req : creating[r] = "accepted" => creating'[r] = "accepted"
  BY DEF TypeOK, Next, vars, Core, Step, Environment, SendRequest, RequestLost,
         CommitRequest, RequestRejected, LoadMissing, SkipTerminal, Load,
         AnnounceMissing, AnswerNoData, AnswerFallback, LlmSucceeds, LlmFails,
         Announce, Commit, CommitOffset, Rebalance, ResponseLost, HandlerFails,
         Nack, Crash
<1>2. CASE UNCHANGED rec
  BY <1>1, <1>2
<1>3. ASSUME NEW q \in Req, CommitRequest(q)
      PROVE  /\ creating'[q] = "accepted" /\ rec[q] = Null
             /\ \A r \in Req : rec'[r] = IF r = q THEN Pending ELSE rec[r]
  BY <1>3 DEF CommitRequest, TypeOK
<1>4. ASSUME NEW w \in Workers, Commit(w)
      PROVE  \E q \in Req, e \in Outcomes :
                /\ creating[q] = "accepted"
                /\ \A r \in Req : rec'[r] = IF r = q THEN e ELSE rec[r]
  <2>1. /\ handler[w].req \in Req /\ handler[w].entity \in Outcomes
        /\ creating[handler[w].req] = "accepted"
    BY <1>4, BusyType DEF Commit, HandlerEntities
  <2> QED
    BY <1>4, <2>1 DEF Commit, TypeOK
<1>5. CASE \E r \in Req : CommitRequest(r)
  BY <1>1, <1>3, <1>5 DEF Terminal
<1>6. CASE \E w \in Workers : Commit(w)
  <2>1. PICK q \in Req, e \in Outcomes :
           /\ creating[q] = "accepted"
           /\ \A r \in Req : rec'[r] = IF r = q THEN e ELSE rec[r]
    BY <1>4, <1>6
  <2>2. e # Null /\ e.status \in Terminal
    BY OutcomeShape
  <2> QED
    BY <1>1, <2>1, <2>2
<1> QED
  BY <1>2, <1>5, <1>6, RowSteps

LEMMA ServedStays ==
    ASSUME TypeOK, Safe, [Next]_vars, NEW r \in Req, Served(r)
    PROVE  Served(r)'
<1>1. Lost(r) => Lost(r)'
  BY RecordsGrow DEF Lost
<1> QED
  BY <1>1, RowsStep DEF Served

LEMMA AnnouncedStays ==
    ASSUME TypeOK, [Next]_vars, NEW r \in Req, NEW s, Announced(r, s)
    PROVE  Announced(r, s)'
<1>1. PICK i \in 1 .. Len(respLog[r]) : respLog[r][i] = s
  BY DEF Announced
<1>2. i \in 1 .. Len(respLog'[r]) /\ respLog'[r][i] = s
  <2>1. respLog[r] \in Seq(Terminal)
    BY DEF TypeOK
  <2> QED
    BY <1>1, <2>1, RecordsGrow
<1> QED
  BY <1>2 DEF Announced

LEMMA EntitiesStep ==
    ASSUME TypeOK, Safe, [Next]_vars
    PROVE  HandlerEntities'
<1> SUFFICES ASSUME NEW v \in Workers
             PROVE  LET g == handler'[v] IN
                    /\ g.pc = "loaded" => g.entity = Pending
                    /\ g.pc \in {"decided", "published"} => g.entity \in Outcomes
                    /\ g.pc \in {"loaded", "decided", "published"} =>
                          rec'[g.req] # Null
                    /\ g.pc = "published" =>
                          \/ \E i \in 1 .. Len(respLog'[g.req]) :
                                respLog'[g.req][i] = g.entity.status
                          \/ <<g.req, "response">> \in losses'
  BY DEF HandlerEntities, Announced
<1> DEFINE h == handler[v]
           g == handler'[v]
<1>1. h.pc # "idle" => h.req \in Req
  BY DEF TypeOK
<1>2. HandlerEntities /\ Rows
  BY DEF Safe
<1>3. CASE g.pc \in {"idle", "missing"}
  BY <1>3
<1>4. CASE g.pc = h.pc /\ g.req = h.req /\ g.entity = h.entity
  <2>1. CASE h.pc = "published"
    <3>1. \/ Announced(h.req, h.entity.status)
          \/ <<h.req, "response">> \in losses
      BY <1>2, <2>1 DEF HandlerEntities
    <3>2. \/ \E i \in 1 .. Len(respLog'[h.req]) :
                respLog'[h.req][i] = h.entity.status
          \/ <<h.req, "response">> \in losses'
      BY <1>1, <2>1, <3>1, AnnouncedStays, RecordsGrow DEF Announced
    <3> QED
      BY <1>1, <1>2, <1>4, <2>1, <3>2, RowsStep DEF HandlerEntities
  <2>2. CASE h.pc # "published"
    BY <1>1, <1>2, <1>4, <2>2, RowsStep DEF HandlerEntities
  <2> QED
    BY <2>1, <2>2
<1>5. CASE /\ g.pc = "loaded" /\ g.req \in Req
           /\ rec[g.req] # Null /\ rec[g.req].status = "PENDING"
           /\ g.entity = rec[g.req] /\ UNCHANGED rec
  BY <1>2, <1>5, OutcomeShape DEF Rows, Terminal
<1>6. CASE /\ h.pc = "loaded" /\ g.pc = "decided" /\ g.req = h.req
           /\ \/ \E o \in Origins : g.entity = Completed(h.entity, o)
              \/ g.entity = Failed(h.entity)
  BY <1>1, <1>2, <1>6, RowsStep DEF HandlerEntities, Outcomes
<1>7. CASE /\ h.pc = "decided" /\ g.pc = "published"
           /\ g.req = h.req /\ g.entity = h.entity
           /\ \/ \E i \in 1 .. Len(respLog'[h.req]) :
                    respLog'[h.req][i] = h.entity.status
              \/ <<h.req, "response">> \in losses'
  BY <1>1, <1>2, <1>7, RowsStep DEF HandlerEntities, Announced
<1> QED
  BY <1>3, <1>4, <1>5, <1>6, <1>7, ThreadSteps DEF ThreadMove

\* How the positions of the partitions change.
PassesHeld(w, r) ==
    /\ Holds(w) /\ r = handler[w].req
    /\ MoveOn(userOf[r]) /\ Proceed(w, Idle)
    /\ UNCHANGED <<reqLog, off, owner>>

LEMMA PositionSteps ==
    ASSUME TypeOK, Safe, [Next]_vars
    PROVE  \/ UNCHANGED <<pos, off, owner>>
           \/ \E w \in Workers, r \in Req : PassesHeld(w, r) /\ Served(r)'
           \/ \E w \in Workers, u \in Users : SkipTerminal(w, u)
           \/ \E u \in Users : CommitOffset(u)
           \/ \E u \in Users, w \in Workers : Rebalance(u, w)
           \/ \E w \in Workers : Crash(w)
<1> DEFINE Goal ==
           \/ UNCHANGED <<pos, off, owner>>
           \/ \E w \in Workers, r \in Req : PassesHeld(w, r) /\ Served(r)'
           \/ \E w \in Workers, u \in Users : SkipTerminal(w, u)
           \/ \E u \in Users : CommitOffset(u)
           \/ \E u \in Users, w \in Workers : Rebalance(u, w)
           \/ \E w \in Workers : Crash(w)
<1>1. ASSUME NEW w \in Workers, NEW r \in Req, r = handler[w].req,
             handler[w].pc # "idle", Ack(w),
             UNCHANGED <<reqLog, off, owner>>, Served(r)'
      PROVE  Goal
  BY <1>1 DEF Ack, PassesHeld, Holds, PartitionOf
<1>2. ASSUME NEW w \in Workers, AnnounceMissing(w) PROVE Goal
  <2> DEFINE r == handler[w].req
  <2>1. r \in Req /\ handler[w].pc # "idle"
    BY <1>2, BusyType DEF AnnounceMissing
  <2>2. <<r, "not found">> \in losses'
    BY <1>2 DEF AnnounceMissing, Lose
  <2>3. PICK q \in Req : q = r
    BY <2>1
  <2>4. Served(q)'
    BY <2>2, <2>3 DEF Served, Lost, Losses
  <2> QED
    BY <1>2, <2>1, <2>3, <2>4, <1>1 DEF AnnounceMissing
<1>3. ASSUME NEW w \in Workers, Commit(w) PROVE Goal
  <2> DEFINE r == handler[w].req
  <2>1. r \in Req /\ handler[w].pc # "idle"
    BY <1>3, BusyType DEF Commit
  <2>2. rec'[r] = handler[w].entity /\ handler[w].entity \in Outcomes
    BY <1>3, <2>1 DEF Commit, TypeOK, Safe, HandlerEntities
  <2>3. PICK q \in Req : q = r
    BY <2>1
  <2>4. Served(q)'
    BY <2>2, <2>3, OutcomeShape DEF Served
  <2> QED
    BY <1>3, <2>1, <2>3, <2>4, <1>1 DEF Commit
<1>4. ASSUME NEW w \in Workers, HandlerFails(w) PROVE Goal
  <2> DEFINE r == handler[w].req
  <2>1. r \in Req /\ handler[w].pc # "idle" /\ Nack(w)
    BY <1>4, BusyType DEF HandlerFails
  <2>2. CASE UNCHANGED pos
    BY <2>1, <2>2 DEF Nack
  <2>3. CASE Holds(w) /\ MoveOn(PartitionOf(w)) /\ Lose(r, "skipped")
    <3>1. PICK q \in Req : q = r
      BY <2>1
    <3>2. Served(q)'
      BY <2>3, <3>1 DEF Served, Lost, Losses, Lose
    <3> QED
      BY <2>1, <2>3, <3>1, <3>2 DEF PassesHeld, PartitionOf, Nack
  <2> QED
    BY <2>1, <2>2, <2>3 DEF Nack, Holds
<1>5. CASE \/ \E r \in Req : Core(r)
           \/ \E w \in Workers : \/ \E u \in Users : LoadMissing(w, u) \/ Load(w, u)
                               \/ AnswerNoData(w) \/ AnswerFallback(w)
                               \/ LlmSucceeds(w) \/ LlmFails(w) \/ Announce(w)
                               \/ ResponseLost(w)
           \/ UNCHANGED vars
  BY <1>5 DEF vars, Core, SendRequest, RequestLost, CommitRequest,
              RequestRejected, LoadMissing, Load, AnswerNoData, AnswerFallback,
              LlmSucceeds, LlmFails, Announce, ResponseLost
<1> QED
  BY <1>2, <1>3, <1>4, <1>5 DEF Next, Step, Environment

LEMMA SafeNextTypeOK == TypeOK /\ Safe /\ [Next]_vars => TypeOK'
<1>1. Safe => DecidedIsFinal
  BY OutcomeShape DEF Safe, HandlerEntities, DecidedIsFinal
<1> QED
  BY <1>1, NextTypeOK

\* What a partition holds stays where it is.
LEMMA LogPrefix ==
    ASSUME TypeOK, Safe, [Next]_vars, NEW u \in Users
    PROVE  /\ Len(reqLog[u]) <= Len(reqLog'[u])
           /\ \A i \in 1 .. Len(reqLog[u]) : reqLog'[u][i] = reqLog[u][i]
           /\ \A i \in 1 .. Len(reqLog'[u]) : userOf[reqLog'[u][i]] = u
<1>1. reqLog[u] \in Seq(Req)
  BY DEF TypeOK
<1>2. \A i \in 1 .. Len(reqLog[u]) : userOf[reqLog[u][i]] = u
  BY DEF Safe, Positions
<1>3. CASE reqLog'[u] = reqLog[u]
  BY <1>1, <1>2, <1>3
<1>4. ASSUME NEW r \in Req, userOf[r] = u, reqLog'[u] = Append(reqLog[u], r)
      PROVE  /\ Len(reqLog[u]) <= Len(reqLog'[u])
             /\ \A i \in 1 .. Len(reqLog[u]) : reqLog'[u][i] = reqLog[u][i]
             /\ \A i \in 1 .. Len(reqLog'[u]) : userOf[reqLog'[u][i]] = u
  BY <1>1, <1>2, <1>4
<1> QED
  BY <1>3, <1>4, RequestsGrow

LEMMA PositionsStep ==
    ASSUME TypeOK, Safe, [Next]_vars
    PROVE  Positions'
<1> SUFFICES ASSUME NEW u \in Users
             PROVE  /\ off'[u] <= pos'[u] /\ pos'[u] <= Len(reqLog'[u])
                    /\ \A i \in 1 .. Len(reqLog'[u]) : userOf[reqLog'[u][i]] = u
                    /\ \A i \in 1 .. pos'[u] : Served(reqLog[u][i])'
  BY DEF Positions
<1>1. /\ reqLog[u] \in Seq(Req) /\ reqLog'[u] \in Seq(Req)
      /\ pos[u] \in Nat /\ off[u] \in Nat /\ pos'[u] \in Nat
  BY SafeNextTypeOK DEF TypeOK
<1>2. /\ off[u] <= pos[u] /\ pos[u] <= Len(reqLog[u])
      /\ \A i \in 1 .. pos[u] : Served(reqLog[u][i])
  BY DEF Safe, Positions
<1>3. \A i \in 1 .. pos[u] : Served(reqLog[u][i])'
  <2> SUFFICES ASSUME NEW i \in 1 .. pos[u] PROVE Served(reqLog[u][i])'
    OBVIOUS
  <2>1. i \in 1 .. Len(reqLog[u])
    BY <1>1, <1>2
  <2>2. PICK r \in Req : r = reqLog[u][i]
    BY <1>1, <2>1
  <2>3. Served(r)'
    BY <1>2, <2>2, ServedStays
  <2> QED
    BY <2>1, <2>2, <2>3, LogPrefix DEF Served, Lost
<1> DEFINE Still == pos'[u] = pos[u] /\ off'[u] = off[u]
           Passed == /\ pos'[u] = pos[u] + 1 /\ off'[u] = off[u]
                     /\ pos[u] < Len(reqLog[u])
                     /\ \E r \in Req : r = Delivered(u) /\ Served(r)'
           Back == pos'[u] = off[u] /\ off'[u] = off[u]
           Saved == pos'[u] = pos[u] /\ off'[u] = pos[u]
<1>4. Still \/ Passed \/ Back \/ Saved
  <2>1. CASE UNCHANGED <<pos, off, owner>>
    BY <2>1
  <2>2. ASSUME NEW w \in Workers, NEW r \in Req, PassesHeld(w, r), Served(r)'
        PROVE  Still \/ Passed
    <3>1. CASE userOf[r] # u
      BY <2>2, <3>1 DEF PassesHeld, MoveOn, TypeOK
    <3>2. CASE userOf[r] = u
      <4>1. pos[u] < Len(reqLog[u]) /\ Delivered(u) = r
        BY <2>2, <3>2 DEF PassesHeld, Safe, Holders, PartitionOf
      <4> QED
        BY <2>2, <3>2, <4>1 DEF PassesHeld, MoveOn, TypeOK
    <3> QED
      BY <3>1, <3>2
  <2>3. ASSUME NEW w \in Workers, NEW v \in Users, SkipTerminal(w, v)
        PROVE  Still \/ Passed
    <3>1. CASE v # u
      BY <2>3, <3>1 DEF SkipTerminal, MoveOn, TypeOK
    <3>2. CASE v = u
      <4>1. PICK r \in Req : r = Delivered(u)
        BY <2>3, <3>2, DeliveredType DEF SkipTerminal
      <4>2. Served(r)'
        BY <2>3, <3>2, <4>1, ServedStays DEF SkipTerminal, Served
      <4> QED
        BY <2>3, <3>2, <4>1, <4>2 DEF SkipTerminal, Deliverable, MoveOn, TypeOK
    <3> QED
      BY <3>1, <3>2
  <2>4. ASSUME NEW v \in Users, CommitOffset(v) PROVE Still \/ Saved
    BY <2>4 DEF CommitOffset, TypeOK
  <2>5. ASSUME NEW v \in Users, NEW w \in Workers, Rebalance(v, w)
        PROVE  Still \/ Back
    BY <2>5 DEF Rebalance, TypeOK
  <2>6. ASSUME NEW w \in Workers, Crash(w) PROVE Still \/ Back
    BY <2>6 DEF Crash, TypeOK
  <2> QED
    BY <2>1, <2>2, <2>3, <2>4, <2>5, <2>6, PositionSteps
<1>5. CASE Still \/ Back \/ Saved
  <2>1. pos'[u] <= pos[u] /\ off'[u] <= pos'[u]
    BY <1>1, <1>2, <1>5
  <2> QED
    BY <1>1, <1>2, <1>3, <2>1, LogPrefix, SMTT(30)
<1>6. CASE Passed
  <2>1. PICK r \in Req : r = reqLog[u][pos[u] + 1] /\ Served(r)'
    BY <1>6 DEF Delivered
  <2>2. r = reqLog'[u][pos[u] + 1]
    BY <1>1, <1>6, <2>1, LogPrefix
  <2>3. ASSUME NEW i \in 1 .. pos'[u] PROVE Served(reqLog[u][i])'
    <3>1. CASE i \in 1 .. pos[u]
      BY <1>3, <3>1
    <3>2. CASE i = pos[u] + 1
      BY <2>1, <2>2, <3>2 DEF Served, Lost
    <3> QED
      BY <1>1, <1>6, <3>1, <3>2
  <2> QED
    BY <1>1, <1>2, <1>6, <2>3, LogPrefix
<1> QED
  BY <1>4, <1>5, <1>6

LEMMA HoldersStep ==
    ASSUME TypeOK, Safe, [Next]_vars
    PROVE  Holders'
<1> SUFFICES ASSUME NEW v \in Workers, Holds(v)'
             PROVE  \E u \in Users : /\ userOf[handler'[v].req] = u
                                    /\ owner'[u] = v
                                    /\ pos'[u] < Len(reqLog'[u])
                                    /\ reqLog'[u][pos'[u] + 1] = handler'[v].req
  BY DEF Holders, PartitionOf, Delivered
<1> DEFINE g == handler'[v]
<1>1. g.pc # "idle" /\ ~g.fenced
  BY DEF Holds
<1>2. CASE \E u \in Users : /\ Deliverable(v, u) /\ g.req = Delivered(u)
                           /\ UNCHANGED <<reqLog, pos, owner>>
  <2>1. PICK u \in Users : /\ Deliverable(v, u) /\ g.req = Delivered(u)
                           /\ UNCHANGED <<reqLog, pos, owner>>
    BY <1>2
  <2>2. pos[u] + 1 \in 1 .. Len(reqLog[u])
    BY <2>1 DEF Deliverable, TypeOK
  <2>3. userOf[g.req] = u
    BY <2>1, <2>2 DEF Safe, Positions, Delivered
  <2> QED
    BY <2>1, <2>3 DEF Deliverable, Delivered
<1>3. CASE Holds(v) /\ g.req = handler[v].req
  <2> DEFINE u == PartitionOf(v)
  <2>1. u \in Users /\ handler[v].req \in Req
    BY <1>3, BusyType DEF Holds
  <2>2. /\ owner[u] = v /\ pos[u] < Len(reqLog[u])
        /\ Delivered(u) = handler[v].req
    BY <1>3 DEF Safe, Holders
  <2>3. pos'[u] = pos[u] /\ owner'[u] = owner[u]
    <3>1. CASE UNCHANGED <<pos, off, owner>>
      BY <3>1
    <3>2. ASSUME NEW w \in Workers, NEW r \in Req, PassesHeld(w, r)
          PROVE  pos'[u] = pos[u] /\ owner'[u] = owner[u]
      <4>1. w # v
        BY <3>2, <1>1 DEF PassesHeld, Proceed, Idle, TypeOK
      <4>2. owner[userOf[r]] = w
        BY <3>2 DEF PassesHeld, Safe, Holders, PartitionOf
      <4> QED
        BY <2>2, <3>2, <4>1, <4>2 DEF PassesHeld, MoveOn, TypeOK
    <3>3. ASSUME NEW w \in Workers, NEW x \in Users, SkipTerminal(w, x)
          PROVE  pos'[u] = pos[u] /\ owner'[u] = owner[u]
      BY <1>3, <2>1, <2>2, <3>3 DEF SkipTerminal, Deliverable, MoveOn, Holds, TypeOK
    <3>4. ASSUME NEW x \in Users, CommitOffset(x)
          PROVE  pos'[u] = pos[u] /\ owner'[u] = owner[u]
      BY <3>4 DEF CommitOffset
    <3>5. ASSUME NEW x \in Users, NEW w \in Workers, Rebalance(x, w)
          PROVE  pos'[u] = pos[u] /\ owner'[u] = owner[u]
      <4>1. x # u
        <5>1. x = u => g = [handler[v] EXCEPT !.fenced = TRUE]
          BY <1>3, <3>5 DEF Rebalance, Holds
        <5> QED
          BY <1>1, <5>1 DEF TypeOK, Handler
      <4> QED
        BY <2>1, <3>5, <4>1 DEF Rebalance, TypeOK
    <3>6. ASSUME NEW w \in Workers, Crash(w)
          PROVE  pos'[u] = pos[u] /\ owner'[u] = owner[u]
      <4>1. w # v
        BY <3>6, <1>1 DEF Crash, Proceed, Idle, TypeOK
      <4> QED
        BY <2>1, <2>2, <3>6, <4>1 DEF Crash
    <3> QED
      BY <3>1, <3>2, <3>3, <3>4, <3>5, <3>6, PositionSteps
  <2>4. pos[u] \in Nat /\ reqLog[u] \in Seq(Req)
    BY <2>1 DEF TypeOK
  <2> QED
    BY <1>3, <2>1, <2>2, <2>3, <2>4, LogPrefix, SMTT(30) DEF PartitionOf, Delivered
<1> QED
  BY <1>1, <1>2, <1>3, ThreadSteps DEF ThreadMove, Holds

LEMMA SafeInvariant == Spec => [](TypeOK /\ Safe)
<1>1. Init => TypeOK /\ Safe
  BY InitTypeOK, InitSafe
<1>2. TypeOK /\ Safe /\ [Next]_vars => (TypeOK /\ Safe)'
  BY SafeNextTypeOK, RowsStep, EntitiesStep, PositionsStep, HoldersStep DEF Safe
<1> QED
  BY <1>1, <1>2, PTL DEF Spec

-----------------------------------------------------------------------------
(* The safety theorems.                                                    *)

\* Whoever writes last, a stored recommendation is one call's outcome whole.
THEOREM WholeRows == Spec => []RowIsWhole
<1>1. Rows => RowIsWhole
  <2> SUFFICES ASSUME Rows, NEW r \in Req, rec[r] # Null
               PROVE  CASE rec[r].status = "COMPLETED" ->
                               rec[r].advice # Null /\ ~rec[r].error
                        [] rec[r].status = "FAILED" ->
                               rec[r].advice = Null /\ rec[r].error
                        [] OTHER -> rec[r] = Pending
    BY DEF RowIsWhole
  <2>1. CASE rec[r] = Pending
    BY <2>1 DEF Pending
  <2>2. CASE \E o \in Origins : rec[r] = Completed(Pending, o)
    BY <2>2, NullIsNoData DEF Completed, Pending
  <2>3. CASE rec[r] = Failed(Pending)
    BY <2>3 DEF Failed, Pending
  <2> QED
    BY <2>1, <2>2, <2>3 DEF Rows, Outcomes
<1> QED
  BY <1>1, SafeInvariant, PTL DEF Safe

LEMMA AnnouncedStep ==
    ASSUME TypeOK, Safe, TerminalIsAnnounced, [Next]_vars
    PROVE  TerminalIsAnnounced'
<1> SUFFICES ASSUME NEW r \in Req, rec'[r] # Null, rec'[r].status \in Terminal
             PROVE  Announced(r, rec[r].status)' \/ <<r, "response">> \in losses'
  BY DEF TerminalIsAnnounced
<1>1. PICK s : s = rec'[r].status
  OBVIOUS
<1>2. Announced(r, s) \/ <<r, "response">> \in losses
  <2>1. CASE rec'[r] = rec[r]
    BY <1>1, <2>1 DEF TerminalIsAnnounced
  <2>2. ASSUME NEW q \in Req, CommitRequest(q) PROVE rec'[r] = rec[r]
    BY <2>2, OutcomeShape DEF CommitRequest, TypeOK, Terminal
  <2>3. ASSUME NEW w \in Workers, Commit(w)
        PROVE  \/ rec'[r] = rec[r]
               \/ Announced(r, s) \/ <<r, "response">> \in losses
    BY <1>1, <2>3 DEF Commit, Safe, HandlerEntities, TypeOK
  <2> QED
    BY <2>1, <2>2, <2>3, RowSteps
<1> QED
  BY <1>1, <1>2, AnnouncedStays, RecordsGrow DEF Announced

\* A final status a user can read was announced on coach-responses before the
\* commit that shows it, or that send was lost: in every interleaving of a
\* fenced agent and its successor.
THEOREM AnnouncedStatuses == Spec => []TerminalIsAnnounced
<1>1. Init => TerminalIsAnnounced
  BY DEF Init, TerminalIsAnnounced
<1>2. /\ TypeOK /\ Safe /\ TerminalIsAnnounced /\ [Next]_vars
      => TerminalIsAnnounced'
  BY AnnouncedStep
<1> QED
  BY <1>1, <1>2, SafeInvariant, PTL DEF Spec

\* An offset is committed past a request only when the request is served.
THEOREM AcknowledgedRequests == Spec => []AcknowledgedIsServed
<1>1. TypeOK /\ Positions => AcknowledgedIsServed
  BY DEF TypeOK, Positions, Served, AcknowledgedIsServed
<1> QED
  BY <1>1, SafeInvariant, PTL DEF Safe

-----------------------------------------------------------------------------
(* One instance implements the lifecycle.                                  *)

\* The row a thread works on is still PENDING: true of one instance only.
WorksOnPending ==
    \A w \in Workers : handler[w].pc \in {"loaded", "decided", "published"} =>
                           rec[handler[w].req] = Pending

LEMMA WorksOnPendingStep ==
    ASSUME \A v, w \in Workers : v = w,
           TypeOK, Safe, WorksOnPending, [Next]_vars
    PROVE  WorksOnPending'
<1> SUFFICES ASSUME NEW v \in Workers,
                    handler'[v].pc \in {"loaded", "decided", "published"}
             PROVE  rec'[handler'[v].req] = Pending
  BY DEF WorksOnPending
<1> DEFINE h == handler[v]
           g == handler'[v]
<1>1. CASE /\ h.pc \in {"loaded", "decided", "published"}
           /\ g.req = h.req
  <2>1. h.req \in Req /\ rec[h.req] = Pending
    BY <1>1, BusyType DEF WorksOnPending
  <2>2. ASSUME NEW q \in Req, CommitRequest(q) PROVE rec'[h.req] = Pending
    BY <2>1, <2>2 DEF CommitRequest, TypeOK
  <2>3. ASSUME NEW w \in Workers, Commit(w) PROVE FALSE
    BY <2>3 DEF Commit, Ack, Proceed, Idle, TypeOK
  <2> QED
    BY <1>1, <2>1, <2>2, <2>3, RowSteps
<1>2. CASE /\ g.req \in Req /\ rec[g.req] # Null
           /\ rec[g.req].status = "PENDING" /\ UNCHANGED rec
  BY <1>2, OutcomeShape DEF Safe, Rows, Terminal
<1> QED
  BY <1>1, <1>2, ThreadSteps DEF ThreadMove

LEMMA LifecycleStep ==
    ASSUME TypeOK, Safe, WorksOnPending, [Next]_vars
    PROVE  [Lifecycle!Next]_([r \in Req |-> StatusOf(r)])
<1> DEFINE status == [r \in Req |-> StatusOf(r)]
<1>1. CASE UNCHANGED rec
  BY <1>1 DEF StatusOf
<1>2. ASSUME NEW q \in Req, CommitRequest(q) PROVE Lifecycle!Accept(q)
  <2>1. rec[q] = Null
    BY <1>2 DEF CommitRequest, Safe, Rows
  <2>2. \A r \in Req : rec'[r] = IF r = q THEN Pending ELSE rec[r]
    BY <1>2 DEF CommitRequest, TypeOK
  <2> QED
    BY <2>1, <2>2, OutcomeShape DEF Lifecycle!Accept, StatusOf
<1>3. ASSUME NEW w \in Workers, Commit(w)
      PROVE  \E q \in Req : Lifecycle!Finish(q)
  <2> DEFINE q == handler[w].req
             e == handler[w].entity
  <2>1. q \in Req /\ rec[q] = Pending /\ e \in Outcomes
    BY <1>3, BusyType DEF Commit, WorksOnPending, Safe, HandlerEntities
  <2>2. \A r \in Req : rec'[r] = IF r = q THEN e ELSE rec[r]
    BY <1>3, <2>1 DEF Commit, TypeOK
  <2>3. StatusOf(q) = "PENDING" /\ e # Null /\ e.status \in {"COMPLETED", "FAILED"}
    BY <2>1, OutcomeShape DEF StatusOf, Terminal
  <2>4. \A r \in Req : StatusOf(r)' = IF r = q THEN e.status ELSE StatusOf(r)
    BY <2>2, <2>3 DEF StatusOf
  <2>5. [r \in Req |-> StatusOf(r)]' =
           [[r \in Req |-> StatusOf(r)] EXCEPT ![q] = e.status]
    BY <2>1, <2>4
  <2>6. Lifecycle!Finish(q)
    BY <2>1, <2>3, <2>5 DEF Lifecycle!Finish
  <2> QED
    BY <2>1, <2>6
<1> QED
  BY <1>1, <1>2, <1>3, RowSteps DEF Lifecycle!Next

\* With one agent instance the row a poller reads goes from absent to PENDING
\* and takes one final status, through every redelivery and restart.
THEOREM OneInstanceLifecycle ==
    ASSUME \A v, w \in Workers : v = w
    PROVE  Spec => LifecycleSpec
<1>1. Init => Lifecycle!Init /\ WorksOnPending
  BY DEF Init, Idle, WorksOnPending, Lifecycle!Init, StatusOf
<1>2. TypeOK /\ Safe /\ WorksOnPending /\ [Next]_vars => WorksOnPending'
  BY WorksOnPendingStep
<1>3. TypeOK /\ Safe /\ WorksOnPending /\ [Next]_vars
      => [Lifecycle!Next]_([r \in Req |-> StatusOf(r)])
  BY LifecycleStep
<1> QED
  BY <1>1, <1>2, <1>3, SafeInvariant, PTL DEF Spec, LifecycleSpec, Lifecycle!Spec

-----------------------------------------------------------------------------
(* What a request costs.  The attempts a call has left, its answer, and the *)
(* delivery that may yet begin are paid for in advance.                     *)

\* A record may still be delivered: it is not sent, or the position is before it.
Ahead(r) ==
    \/ creating[r] = "new"
    \/ \E i \in pos[userOf[r]] + 1 .. Len(reqLog[userOf[r]]) : reqLog[userOf[r]][i] = r

Vacant(r) == Ahead(r) /\ \A w \in Workers : ~(Holds(w) /\ handler[w].req = r)

Attempts(r) ==
    {s \in Workers \X (1 .. MaxLlmAttempts) :
        /\ handler[s[1]].pc = "loaded" /\ handler[s[1]].req = r
        /\ handler[s[1]].tries < s[2]}

Silent(r) == {w \in Workers : /\ handler[w].pc \in {"missing", "loaded", "decided"}
                              /\ handler[w].req = r}

\* A request is sent once, when it is no longer new.
SentOnce ==
    \A u \in Users :
        /\ \A i, j \in 1 .. Len(reqLog[u]) : reqLog[u][i] = reqLog[u][j] => i = j
        /\ \A i \in 1 .. Len(reqLog[u]) : creating[reqLog[u][i]] # "new"

Budget ==
    \A r \in Req :
        /\ IsFiniteSet(Attempts(r)) /\ IsFiniteSet(Silent(r))
        /\ calls[r] + Cardinality(Attempts(r)) + (IF Vacant(r) THEN MaxLlmAttempts ELSE 0)
             <= MaxLlmAttempts * (1 + faults)
        /\ Len(respLog[r]) + Cardinality(Silent(r)) + (IF Vacant(r) THEN 1 ELSE 0)
             <= 1 + faults

LEMMA FaultSteps ==
    ASSUME TypeOK, [Next]_vars
    PROVE  faults \in Nat /\ (faults' = faults \/ faults' = faults + 1)
<1>1. faults \in Nat
  BY CoachAssumption DEF TypeOK
<1>2. UNCHANGED faults \/ Fault
  BY DEF Next, vars, Core, Step, Environment, SendRequest, RequestLost,
         CommitRequest, RequestRejected, LoadMissing, SkipTerminal, Load,
         AnnounceMissing, AnswerNoData, AnswerFallback, LlmSucceeds, LlmFails,
         Announce, Commit, CommitOffset, Rebalance, ResponseLost, HandlerFails, Crash
<1> QED
  BY <1>1, <1>2 DEF Fault

LEMMA OtherThreads ==
    ASSUME TypeOK, NEW w \in Workers, NEW g, Proceed(w, g)
    PROVE  handler'[w] = g /\ \A v \in Workers \ {w} : handler'[v] = handler[v]
BY DEF TypeOK, Proceed

\* A request is sent while it is new, and never new again.
LEMMA SendSteps ==
    ASSUME TypeOK, [Next]_vars
    PROVE  /\ \A r \in Req : creating'[r] = "new" => creating[r] = "new"
           /\ \/ UNCHANGED reqLog
              \/ \E r \in Req : /\ creating[r] = "new" /\ creating'[r] = "sent"
                                /\ reqLog' = [reqLog EXCEPT ![userOf[r]] = Append(@, r)]
<1>1. CASE UNCHANGED <<creating, reqLog>>
  BY <1>1
<1>2. ASSUME NEW r \in Req, Core(r)
      PROVE  /\ \A q \in Req : creating'[q] = "new" => creating[q] = "new"
             /\ \/ UNCHANGED reqLog
                \/ /\ creating[r] = "new" /\ creating'[r] = "sent"
                   /\ reqLog' = [reqLog EXCEPT ![userOf[r]] = Append(@, r)]
  BY <1>2 DEF Core, SendRequest, RequestLost, CommitRequest, RequestRejected, TypeOK
<1> QED
  BY <1>1, <1>2 DEF Next, vars, Step, Environment, LoadMissing, SkipTerminal, Load,
         AnnounceMissing, AnswerNoData, AnswerFallback, LlmSucceeds, LlmFails,
         Announce, Commit, CommitOffset, Rebalance, ResponseLost, HandlerFails,
         Nack, Crash

LEMMA SentOnceStep ==
    ASSUME TypeOK, SentOnce, [Next]_vars
    PROVE  SentOnce'
<1> SUFFICES ASSUME NEW u \in Users
             PROVE  /\ \A i, j \in 1 .. Len(reqLog'[u]) :
                           reqLog'[u][i] = reqLog'[u][j] => i = j
                    /\ \A i \in 1 .. Len(reqLog'[u]) : creating'[reqLog'[u][i]] # "new"
  BY DEF SentOnce
<1>1. /\ reqLog[u] \in Seq(Req)
      /\ \A i, j \in 1 .. Len(reqLog[u]) : reqLog[u][i] = reqLog[u][j] => i = j
      /\ \A i \in 1 .. Len(reqLog[u]) :
             reqLog[u][i] \in Req /\ creating[reqLog[u][i]] # "new"
  BY DEF TypeOK, SentOnce
<1>2. CASE reqLog'[u] = reqLog[u]
  BY <1>1, <1>2, SendSteps
<1>3. ASSUME NEW r \in Req, creating[r] = "new", creating'[r] = "sent",
             reqLog'[u] = Append(reqLog[u], r)
      PROVE  /\ \A i, j \in 1 .. Len(reqLog'[u]) :
                    reqLog'[u][i] = reqLog'[u][j] => i = j
             /\ \A i \in 1 .. Len(reqLog'[u]) : creating'[reqLog'[u][i]] # "new"
  <2>1. /\ Len(reqLog'[u]) = Len(reqLog[u]) + 1 /\ Len(reqLog[u]) \in Nat
        /\ reqLog'[u][Len(reqLog[u]) + 1] = r
        /\ \A i \in 1 .. Len(reqLog[u]) : reqLog'[u][i] = reqLog[u][i]
    BY <1>1, <1>3
  <2>2. \A i \in 1 .. Len(reqLog[u]) : reqLog[u][i] # r /\ creating'[reqLog[u][i]] # "new"
    BY <1>1, <1>3, SendSteps
  <2> QED
    BY <1>1, <1>3, <2>1, <2>2
<1> QED
  BY <1>1, <1>2, <1>3, SendSteps, ZenonT(30) DEF TypeOK

\* A position only goes back with a fault.
LEMMA PositionsAdvance ==
    ASSUME TypeOK, Safe, [Next]_vars, NEW u \in Users
    PROVE  pos'[u] >= pos[u] \/ faults' = faults + 1
<1>1. pos \in [Users -> Nat]
  BY DEF TypeOK
<1>2. CASE UNCHANGED <<pos, off, owner>>
  BY <1>1, <1>2
<1>3. ASSUME NEW v \in Users, MoveOn(v) PROVE pos'[u] >= pos[u]
  BY <1>1, <1>3 DEF MoveOn
<1>4. ASSUME NEW w \in Workers, NEW r \in Req, PassesHeld(w, r)
      PROVE  pos'[u] >= pos[u]
  BY <1>3, <1>4, CoachAssumption DEF PassesHeld
<1>5. ASSUME NEW w \in Workers, NEW v \in Users, SkipTerminal(w, v)
      PROVE  pos'[u] >= pos[u]
  BY <1>3, <1>5 DEF SkipTerminal
<1>6. ASSUME NEW v \in Users, CommitOffset(v) PROVE pos'[u] >= pos[u]
  BY <1>1, <1>6 DEF CommitOffset
<1>7. ASSUME (\E v \in Users, w \in Workers : Rebalance(v, w))
                \/ \E w \in Workers : Crash(w)
      PROVE  faults' = faults + 1
  BY <1>7 DEF Rebalance, Crash, Fault
<1> QED
  BY <1>2, <1>4, <1>5, <1>6, <1>7, PositionSteps

\* A request that is past is not delivered again without a fault.
LEMMA AheadStep ==
    ASSUME TypeOK, Safe, [Next]_vars, NEW r \in Req, Ahead(r)'
    PROVE  Ahead(r) \/ faults' = faults + 1
<1> DEFINE u == userOf[r]
<1>1. /\ u \in Users /\ pos[u] \in Nat /\ pos'[u] \in Nat
      /\ reqLog[u] \in Seq(Req) /\ Len(reqLog[u]) \in Nat
  <2>1. u \in Users
    BY CoachAssumption
  <2>2. pos[u] \in Nat /\ reqLog[u] \in Seq(Req)
    BY <2>1 DEF TypeOK
  <2>3. pos'[u] \in Nat
    BY <2>1, SafeNextTypeOK DEF TypeOK
  <2> QED
    BY <2>1, <2>2, <2>3
<1>2. CASE creating'[r] = "new"
  BY <1>2, SendSteps DEF Ahead
<1>3. ASSUME NEW i \in pos'[u] + 1 .. Len(reqLog'[u]), reqLog'[u][i] = r,
             pos'[u] >= pos[u]
      PROVE  Ahead(r)
  <2>1. CASE reqLog'[u] = reqLog[u]
    BY <1>1, <1>3, <2>1 DEF Ahead
  <2>2. ASSUME NEW q \in Req, creating[q] = "new",
               reqLog'[u] = Append(reqLog[u], q)
        PROVE  Ahead(r)
    <3>1. CASE i = Len(reqLog[u]) + 1
      <4>1. r = q
        BY <1>1, <1>3, <2>2, <3>1
      <4> QED
        BY <2>2, <4>1 DEF Ahead
    <3>2. CASE i # Len(reqLog[u]) + 1
      <4>1. i \in pos[u] + 1 .. Len(reqLog[u]) /\ reqLog[u][i] = r
        BY <1>1, <1>3, <2>2, <3>2
      <4> QED
        BY <4>1 DEF Ahead
    <3> QED
      BY <3>1, <3>2
  <2> QED
    BY <1>1, <2>1, <2>2, SendSteps, ZenonT(30) DEF TypeOK
<1> QED
  BY <1>1, <1>2, <1>3, PositionsAdvance DEF Ahead

\* A call that holds a request gives the thread back by passing the request,
\* or with a fault.
LEMMA HeldSteps ==
    ASSUME TypeOK, Safe, [Next]_vars, NEW w \in Workers, Holds(w)
    PROVE  \/ Holds(w)' /\ handler'[w].req = handler[w].req
           \/ MoveOn(PartitionOf(w)) /\ UNCHANGED reqLog
           \/ faults' = faults + 1
<1> DEFINE Goal == \/ Holds(w)' /\ handler'[w].req = handler[w].req
                   \/ MoveOn(PartitionOf(w)) /\ UNCHANGED reqLog
                   \/ faults' = faults + 1
           Keeps(g) == g.pc # "idle" /\ ~g.fenced /\ g.req = handler[w].req
<1>1. /\ handler[w] \in Handler /\ handler[w].pc # "idle" /\ ~handler[w].fenced
  BY DEF TypeOK, Holds
<1>2. CASE handler'[w] = handler[w]
  BY <1>1, <1>2 DEF Holds
<1>3. ASSUME NEW v \in Workers, NEW g, Proceed(v, g), v = w => Keeps(g)
      PROVE  Goal
  <2>1. CASE v = w
    BY <1>3, <2>1, OtherThreads DEF Holds
  <2>2. CASE v # w
    BY <1>2, <1>3, <2>2, OtherThreads
  <2> QED
    BY <2>1, <2>2
<1>4. ASSUME NEW v \in Workers, Ack(v), UNCHANGED reqLog PROVE Goal
  <2>1. CASE v = w
    BY <1>1, <1>4, <2>1 DEF Ack
  <2>2. CASE v # w
    BY <1>2, <1>4, <2>2, OtherThreads DEF Ack
  <2> QED
    BY <2>1, <2>2
<1>5. ASSUME NEW v \in Workers, Step(v) PROVE Goal
  <2> DEFINE h == handler[v]
  <2>0. h \in Handler
    BY DEF TypeOK
  <2>1. ASSUME NEW u \in Users, LoadMissing(v, u) \/ Load(v, u) PROVE Goal
    <3>1. v # w /\ \E g : Proceed(v, g)
      BY <1>1, <2>1 DEF LoadMissing, Load, Deliverable
    <3> QED
      BY <1>3, <3>1
  <2>2. ASSUME NEW u \in Users, SkipTerminal(v, u) PROVE Goal
    BY <1>2, <2>2 DEF SkipTerminal
  <2>3. CASE AnnounceMissing(v) \/ Commit(v)
    BY <1>4, <2>3 DEF AnnounceMissing, Commit
  <2>4. ASSUME NEW e, Decide(v, e) PROVE Goal
    <3>1. v = w => Keeps([h EXCEPT !.pc = "decided", !.entity = e])
      BY <1>1, <2>0 DEF Handler
    <3> QED
      BY <1>3, <2>4, <3>1 DEF Decide
  <2>5. CASE AnswerNoData(v) \/ AnswerFallback(v) \/ LlmSucceeds(v)
    BY <2>4, <2>5 DEF AnswerNoData, AnswerFallback, LlmSucceeds
  <2>6. CASE LlmFails(v)
    <3>1. CASE Proceed(v, [h EXCEPT !.tries = @ + 1])
      <4>1. v = w => Keeps([h EXCEPT !.tries = @ + 1])
        BY <1>1, <2>0 DEF Handler
      <4> QED
        BY <1>3, <3>1, <4>1
    <3> QED
      BY <2>4, <2>6, <3>1 DEF LlmFails
  <2>7. CASE Announce(v)
    <3>1. v = w => Keeps([h EXCEPT !.pc = "published"])
      BY <1>1, <2>0 DEF Handler
    <3> QED
      BY <1>3, <2>7, <3>1 DEF Announce
  <2> QED
    BY <1>5, <2>1, <2>2, <2>3, <2>5, <2>6, <2>7 DEF Step
<1>6. CASE Environment
  BY <1>2, <1>6 DEF Environment, CommitOffset, Rebalance, ResponseLost,
                    HandlerFails, Crash, Fault
<1>7. CASE (\E r \in Req : Core(r)) \/ UNCHANGED vars
  BY <1>2, <1>7 DEF vars, Core, SendRequest, RequestLost, CommitRequest,
                    RequestRejected
<1> QED
  BY <1>5, <1>6, <1>7 DEF Next

LEMMA VacatedByFault ==
    ASSUME TypeOK, Safe, SentOnce, [Next]_vars, NEW r \in Req, Vacant(r)'
    PROVE  Vacant(r) \/ faults' = faults + 1
<1> SUFFICES ASSUME Ahead(r), NEW w \in Workers, Holds(w), handler[w].req = r,
                    faults' # faults + 1
             PROVE  FALSE
  BY AheadStep DEF Vacant
<1> DEFINE u == userOf[r]
<1>1. u = PartitionOf(w) /\ u \in Users /\ pos[u] \in Nat /\ reqLog[u] \in Seq(Req)
  BY CoachAssumption DEF PartitionOf, TypeOK
<1>2. pos[u] < Len(reqLog[u]) /\ reqLog[u][pos[u] + 1] = r
  BY <1>1 DEF Safe, Holders, Delivered
<1>3. ~(Holds(w)' /\ handler'[w].req = r)
  BY DEF Vacant
<1>4. MoveOn(u) /\ UNCHANGED reqLog
  BY <1>1, <1>3, HeldSteps
<1>5. pos'[u] = pos[u] + 1
  BY <1>1, <1>4 DEF MoveOn, TypeOK
<1>6. creating'[r] # "new"
  BY <1>1, <1>2, SendSteps DEF SentOnce
<1>7. PICK i \in pos'[u] + 1 .. Len(reqLog'[u]) : reqLog'[u][i] = r
  BY <1>6 DEF Vacant, Ahead
<1>8. i \in 1 .. Len(reqLog[u]) /\ pos[u] + 1 \in 1 .. Len(reqLog[u]) /\ i # pos[u] + 1
  BY <1>1, <1>2, <1>4, <1>5, <1>7
<1> QED
  BY <1>1, <1>2, <1>4, <1>7, <1>8 DEF SentOnce

-----------------------------------------------------------------------------
(* The work of a thread.                                                   *)

\* A step that leaves a thread no more to do for its request.
Quiet(v) ==
    \/ handler'[v].pc \in {"idle", "published"}
    \/ /\ handler'[v].req = handler[v].req
       /\ \/ handler'[v].pc = handler[v].pc /\ handler'[v].tries = handler[v].tries
          \/ handler[v].pc = "loaded" /\ handler'[v].pc = "decided"

LEMMA QuietSteps ==
    ASSUME TypeOK, [Next]_vars
    PROVE  \/ \E w \in Workers, u \in Users : LoadMissing(w, u) \/ Load(w, u)
           \/ \E w \in Workers : LlmSucceeds(w) \/ LlmFails(w)
           \/ \E w \in Workers : Announce(w) \/ AnnounceMissing(w)
           \/ UNCHANGED <<calls, respLog>> /\ \A v \in Workers : Quiet(v)
<1> DEFINE AllQuiet == \A v \in Workers : Quiet(v)
<1>1. ASSUME UNCHANGED handler PROVE AllQuiet
  BY <1>1 DEF Quiet
<1>2. ASSUME NEW w \in Workers, NEW g, Proceed(w, g),
             \/ g.pc \in {"idle", "published"}
             \/ /\ g.req = handler[w].req
                /\ handler[w].pc = "loaded" /\ g.pc = "decided"
      PROVE  AllQuiet
  BY <1>2, OtherThreads DEF Quiet
<1>3. ASSUME NEW w \in Workers, Proceed(w, Idle) PROVE AllQuiet
  BY <1>2, <1>3 DEF Idle
<1>4. ASSUME NEW w \in Workers, AnswerNoData(w) \/ AnswerFallback(w)
      PROVE  AllQuiet /\ UNCHANGED <<calls, respLog>>
  <2>1. PICK e : Decide(w, e) /\ handler[w].pc = "loaded"
    BY <1>4 DEF AnswerNoData, AnswerFallback
  <2>2. handler[w] \in Handler
    BY DEF TypeOK
  <2> DEFINE g == [handler[w] EXCEPT !.pc = "decided", !.entity = e]
  <2>3. g.pc = "decided" /\ g.req = handler[w].req
    BY <2>2 DEF Handler
  <2> QED
    BY <1>2, <1>4, <2>1, <2>3 DEF Decide, AnswerNoData, AnswerFallback
<1>5. ASSUME NEW w \in Workers, ResponseLost(w)
      PROVE  AllQuiet /\ UNCHANGED <<calls, respLog>>
  <2>1. handler[w] \in Handler
    BY DEF TypeOK
  <2>2. [handler[w] EXCEPT !.pc = "published"].pc = "published"
    BY <2>1 DEF Handler
  <2> QED
    BY <1>2, <1>5, <2>2 DEF ResponseLost
<1>6. ASSUME NEW u \in Users, NEW w \in Workers, Rebalance(u, w)
      PROVE  AllQuiet /\ UNCHANGED <<calls, respLog>>
  <2>1. \A v \in Workers : /\ handler'[v].req = handler[v].req
                          /\ handler'[v].pc = handler[v].pc
                          /\ handler'[v].tries = handler[v].tries
    BY <1>6 DEF Rebalance, TypeOK, Handler
  <2> QED
    BY <1>6, <2>1 DEF Rebalance, Quiet
<1>7. ASSUME NEW w \in Workers, Commit(w) \/ HandlerFails(w) \/ Crash(w)
      PROVE  AllQuiet /\ UNCHANGED <<calls, respLog>>
  BY <1>3, <1>7 DEF Commit, HandlerFails, Crash, Ack, Nack
<1>8. CASE \/ \E w \in Workers, u \in Users : SkipTerminal(w, u)
           \/ \E u \in Users : CommitOffset(u)
           \/ \E r \in Req : Core(r)
           \/ UNCHANGED vars
  BY <1>1, <1>8 DEF vars, SkipTerminal, CommitOffset, Core, SendRequest, RequestLost,
                    CommitRequest, RequestRejected
<1> QED
  BY <1>4, <1>5, <1>6, <1>7, <1>8 DEF Next, Step, Environment

\* Quiet steps ask nothing and announce nothing.
LEMMA QuietKeeps ==
    ASSUME NEW r \in Req, NEW W, W \subseteq Workers, \A v \in W : Quiet(v)
    PROVE  /\ \A s \in Attempts(r)' : s[1] \in W => s \in Attempts(r)
           /\ \A v \in Silent(r)' : v \in W => v \in Silent(r)
BY DEF Quiet, Attempts, Silent

\* What one step does to the account of a request.
Spends(r) == \E s \in Attempts(r) : Attempts(r)' \subseteq Attempts(r) \ {s}
Begins(r) ==
    \E w \in Workers : /\ Attempts(r)' \subseteq Attempts(r) \cup ({w} \X (1 .. MaxLlmAttempts))
                       /\ Silent(r)' \subseteq Silent(r) \cup {w}
Answers(r) == \E w \in Silent(r) : Silent(r)' \subseteq Silent(r) \ {w}

\* The thread after it loads, asks, or announces.
LEMMA Loaded ==
    ASSUME NEW w \in Workers, NEW u \in Users, LoadMissing(w, u) \/ Load(w, u)
    PROVE  \E g : /\ Proceed(w, g) /\ g.req = Delivered(u) /\ ~g.fenced
                  /\ g.pc \in {"missing", "loaded"}
<1> DEFINE r == Delivered(u)
           m == [Idle EXCEPT !.pc = "missing", !.req = r]
           l == [Idle EXCEPT !.pc = "loaded", !.req = r, !.entity = rec[r]]
<1>1. /\ m.req = r /\ ~m.fenced /\ m.pc = "missing"
      /\ l.req = r /\ ~l.fenced /\ l.pc = "loaded"
  BY DEF Idle
<1>2. Proceed(w, m) \/ Proceed(w, l)
  BY DEF LoadMissing, Load
<1> HIDE DEF m, l
<1> QED
  BY <1>1, <1>2

LEMMA Asked ==
    ASSUME TypeOK, NEW w \in Workers, LlmSucceeds(w) \/ LlmFails(w)
    PROVE  \E g : /\ Proceed(w, g) /\ g.req = handler[w].req
                  /\ \/ g.pc = "decided"
                     \/ g.pc = "loaded" /\ g.tries = handler[w].tries + 1
<1> DEFINE h == handler[w]
           f == [h EXCEPT !.tries = @ + 1]
           d(e) == [h EXCEPT !.pc = "decided", !.entity = e]
<1>1. h \in Handler /\ h.pc = "loaded"
  BY DEF TypeOK, LlmSucceeds, LlmFails
<1>2. f.req = h.req /\ f.pc = "loaded" /\ f.tries = h.tries + 1
  BY <1>1 DEF Handler
<1>3. \A e : d(e).req = h.req /\ d(e).pc = "decided"
  BY <1>1 DEF Handler
<1>4. Proceed(w, f) \/ \E e : Proceed(w, d(e))
  BY DEF LlmSucceeds, LlmFails, Decide
<1> HIDE DEF f, d
<1> QED
  BY <1>2, <1>3, <1>4

LEMMA Told ==
    ASSUME TypeOK, NEW w \in Workers, Announce(w) \/ AnnounceMissing(w)
    PROVE  \E g : Proceed(w, g) /\ g.pc \in {"idle", "published"}
<1> DEFINE h == handler[w]
           p == [h EXCEPT !.pc = "published"]
<1>1. h \in Handler
  BY DEF TypeOK
<1>2. p.pc = "published" /\ Idle.pc = "idle"
  BY <1>1 DEF Handler, Idle
<1>3. Proceed(w, p) \/ Proceed(w, Idle)
  BY DEF Announce, AnnounceMissing, Ack
<1> HIDE DEF p
<1> QED
  BY <1>2, <1>3

LEMMA BeginStep ==
    ASSUME TypeOK, Safe, NEW r \in Req, NEW w \in Workers, NEW u \in Users,
           LoadMissing(w, u) \/ Load(w, u), Delivered(u) = r
    PROVE  Begins(r) /\ Vacant(r) /\ ~Vacant(r)'
<1>1. Deliverable(w, u) /\ \E e : Proceed(w, e)
  BY DEF LoadMissing, Load
<1>2. PICK g : /\ Proceed(w, g) /\ g.req = r /\ ~g.fenced /\ g.pc # "idle"
  BY Loaded
<1>3. handler'[w] = g /\ \A v \in Workers \ {w} : handler'[v] = handler[v]
  BY <1>2, OtherThreads
<1>4. \A v \in Workers \ {w} : Quiet(v)
  BY <1>3 DEF Quiet
<1>5. Begins(r)
  <2>1. \A s \in Attempts(r)' : s[1] \in Workers \ {w} => s \in Attempts(r)
    BY <1>4, QuietKeeps
  <2>2. \A v \in Silent(r)' : v \in Workers \ {w} => v \in Silent(r)
    BY <1>4, QuietKeeps
  <2>3. Attempts(r)' \subseteq Workers \X (1 .. MaxLlmAttempts)
    BY DEF Attempts
  <2>4. Silent(r)' \subseteq Workers
    BY DEF Silent
  <2>5. Attempts(r)' \subseteq Attempts(r) \cup ({w} \X (1 .. MaxLlmAttempts))
    BY <2>1, <2>3
  <2>6. Silent(r)' \subseteq Silent(r) \cup {w}
    BY <2>2, <2>4
  <2> QED
    BY <2>5, <2>6 DEF Begins
<1>6. ~Vacant(r)'
  BY <1>2, <1>3 DEF Vacant, Holds
<1>7. /\ pos[u] + 1 \in 1 .. Len(reqLog[u]) /\ pos[u] + 1 \in pos[u] + 1 .. Len(reqLog[u])
      /\ userOf[r] = u
  <2>1. pos[u] + 1 \in 1 .. Len(reqLog[u]) /\ pos[u] + 1 \in pos[u] + 1 .. Len(reqLog[u])
    BY <1>1 DEF Deliverable, TypeOK
  <2> QED
    BY <2>1 DEF Safe, Positions, Delivered
<1>8. ASSUME NEW v \in Workers, Holds(v), handler[v].req = r PROVE FALSE
  <2>1. owner[u] = v
    BY <1>7, <1>8 DEF Safe, Holders, PartitionOf
  <2> QED
    BY <1>1, <1>8, <2>1 DEF Deliverable, Holds
<1> QED
  BY <1>5, <1>6, <1>7, <1>8 DEF Vacant, Ahead, Delivered

LEMMA CallStep ==
    ASSUME TypeOK, NEW r \in Req, NEW w \in Workers,
           LlmSucceeds(w) \/ LlmFails(w), handler[w].req = r
    PROVE  Spends(r) /\ Silent(r)' \subseteq Silent(r)
<1> DEFINE h == handler[w]
           s == <<w, h.tries + 1>>
<1>1. /\ h \in Handler /\ h.pc = "loaded" /\ h.tries \in Nat /\ h.tries < MaxLlmAttempts
      /\ \E g : Proceed(w, g)
  BY CoachAssumption DEF LlmSucceeds, LlmFails, Decide, TypeOK, Handler
<1>2. /\ handler'[w].req = r
      /\ \/ handler'[w].pc = "decided"
         \/ handler'[w].pc = "loaded" /\ handler'[w].tries = h.tries + 1
  BY <1>1, OtherThreads, Asked
<1>3. \A v \in Workers \ {w} : handler'[v] = handler[v]
  BY <1>1, OtherThreads
<1>4. s \in Attempts(r)
  BY <1>1, CoachAssumption DEF Attempts
<1>5. \A x \in Attempts(r)' : x \in Attempts(r) /\ x # s
  BY <1>1, <1>2, <1>3 DEF Attempts
<1>6. Silent(r)' \subseteq Silent(r)
  BY <1>1, <1>3 DEF Silent
<1> QED
  BY <1>4, <1>5, <1>6 DEF Spends

LEMMA AnswerStep ==
    ASSUME TypeOK, NEW r \in Req, NEW w \in Workers,
           Announce(w) \/ AnnounceMissing(w), handler[w].req = r
    PROVE  /\ Answers(r) /\ Attempts(r)' \subseteq Attempts(r)
           /\ Len(respLog'[r]) = Len(respLog[r]) + 1
<1>1. /\ handler[w] \in Handler /\ respLog[r] \in Seq(Terminal)
      /\ handler[w].pc \in {"missing", "decided"}
      /\ \E g : Proceed(w, g)
      /\ \E e : respLog' = [respLog EXCEPT ![r] = Append(@, e)]
  BY DEF Announce, AnnounceMissing, Ack, TypeOK
<1>2. handler'[w].pc \in {"idle", "published"}
  BY OtherThreads, Told
<1>3. \A v \in Workers \ {w} : handler'[v] = handler[v]
  BY <1>1, OtherThreads
<1>4. Answers(r)
  BY <1>1, <1>2, <1>3 DEF Answers, Silent
<1>5. Attempts(r)' \subseteq Attempts(r)
  BY <1>2, <1>3 DEF Attempts
<1>6. Len(respLog'[r]) = Len(respLog[r]) + 1
  <2>1. PICK e : respLog'[r] = Append(respLog[r], e)
    BY <1>1 DEF TypeOK
  <2> QED
    BY <1>1, <2>1
<1> QED
  BY <1>4, <1>5, <1>6

\* What other requests' calls do changes nothing.
LEMMA AsideStep ==
    ASSUME TypeOK, NEW r \in Req, NEW w \in Workers, NEW g, Proceed(w, g),
           g.req # r \/ g.pc \in {"idle", "published"}
    PROVE  Attempts(r)' \subseteq Attempts(r) /\ Silent(r)' \subseteq Silent(r)
<1>1. handler'[w] = g /\ \A v \in Workers \ {w} : handler'[v] = handler[v]
  BY OtherThreads
<1>2. Attempts(r)' \subseteq Attempts(r)
  BY <1>1 DEF Attempts
<1>3. Silent(r)' \subseteq Silent(r)
  BY <1>1 DEF Silent
<1> QED
  BY <1>2, <1>3

LEMMA AccountSteps ==
    ASSUME TypeOK, Safe, [Next]_vars, NEW r \in Req
    PROVE  \/ /\ Attempts(r)' \subseteq Attempts(r) /\ Silent(r)' \subseteq Silent(r)
              /\ calls'[r] = calls[r] /\ Len(respLog'[r]) = Len(respLog[r])
           \/ /\ Begins(r) /\ Vacant(r) /\ ~Vacant(r)' /\ UNCHANGED faults
              /\ calls'[r] = calls[r] /\ Len(respLog'[r]) = Len(respLog[r])
           \/ /\ Spends(r) /\ Silent(r)' \subseteq Silent(r) /\ UNCHANGED faults
              /\ calls'[r] = calls[r] + 1 /\ Len(respLog'[r]) = Len(respLog[r])
           \/ /\ Answers(r) /\ Attempts(r)' \subseteq Attempts(r) /\ UNCHANGED faults
              /\ calls'[r] = calls[r] /\ Len(respLog'[r]) = Len(respLog[r]) + 1
<1> DEFINE Fewer == Attempts(r)' \subseteq Attempts(r) /\ Silent(r)' \subseteq Silent(r)
           Equal == calls'[r] = calls[r] /\ Len(respLog'[r]) = Len(respLog[r])
<1>1. ASSUME NEW w \in Workers, NEW u \in Users, LoadMissing(w, u) \/ Load(w, u)
      PROVE  /\ Equal /\ UNCHANGED faults
             /\ Fewer \/ (Begins(r) /\ Vacant(r) /\ ~Vacant(r)')
  <2>1. Equal /\ UNCHANGED faults
    BY <1>1 DEF LoadMissing, Load
  <2>2. CASE Delivered(u) = r
    BY <1>1, <2>1, <2>2, BeginStep
  <2>3. CASE Delivered(u) # r
    <3>1. PICK g : Proceed(w, g) /\ g.req # r
      BY <1>1, <2>3, Loaded
    <3> QED
      BY <2>1, <3>1, AsideStep
  <2> QED
    BY <2>2, <2>3
<1>2. ASSUME NEW w \in Workers, LlmSucceeds(w) \/ LlmFails(w)
      PROVE  /\ UNCHANGED <<faults, respLog>>
             /\ \/ Fewer /\ Equal
                \/ Spends(r) /\ Silent(r)' \subseteq Silent(r) /\ calls'[r] = calls[r] + 1
  <2>1. UNCHANGED <<faults, respLog>> /\ Call(w) /\ handler[w] \in Handler
    BY <1>2 DEF LlmSucceeds, LlmFails, TypeOK
  <2>2. CASE handler[w].req = r
    <3>1. calls'[r] = calls[r] + 1
      BY <2>1, <2>2 DEF Call, TypeOK
    <3> QED
      BY <1>2, <2>1, <2>2, <3>1, CallStep
  <2>3. CASE handler[w].req # r
    <3>1. calls'[r] = calls[r]
      BY <2>1, <2>3 DEF Call, TypeOK
    <3>2. PICK g : Proceed(w, g) /\ g.req # r
      BY <1>2, <2>3, Asked
    <3> QED
      BY <2>1, <3>1, <3>2, AsideStep
  <2> QED
    BY <2>2, <2>3
<1>3. ASSUME NEW w \in Workers, Announce(w) \/ AnnounceMissing(w)
      PROVE  /\ UNCHANGED <<faults, calls>>
             /\ \/ Fewer /\ Equal
                \/ /\ Answers(r) /\ Attempts(r)' \subseteq Attempts(r)
                   /\ Len(respLog'[r]) = Len(respLog[r]) + 1
  <2>1. UNCHANGED <<faults, calls>> /\ handler[w] \in Handler
    BY <1>3 DEF Announce, AnnounceMissing, TypeOK
  <2>2. CASE handler[w].req = r
    BY <1>3, <2>1, <2>2, AnswerStep
  <2>3. CASE handler[w].req # r
    <3>1. respLog'[r] = respLog[r]
      BY <1>3, <2>3 DEF Announce, AnnounceMissing, TypeOK
    <3>2. PICK g : Proceed(w, g) /\ g.pc \in {"idle", "published"}
      BY <1>3, Told
    <3> QED
      BY <2>1, <3>1, <3>2, AsideStep
  <2> QED
    BY <2>2, <2>3
<1>4. ASSUME UNCHANGED <<calls, respLog>>, \A v \in Workers : Quiet(v)
      PROVE  Fewer /\ Equal
  <2>1. /\ \A s \in Attempts(r)' : s[1] \in Workers => s \in Attempts(r)
        /\ \A v \in Silent(r)' : v \in Workers => v \in Silent(r)
    BY <1>4, QuietKeeps
  <2>2. \A s \in Attempts(r)' : s[1] \in Workers
    BY DEF Attempts
  <2>3. Silent(r)' \subseteq Workers
    BY DEF Silent
  <2> QED
    BY <1>4, <2>1, <2>2, <2>3
<1> QED
  BY <1>1, <1>2, <1>3, <1>4, QuietSteps

LEMMA BudgetStep ==
    ASSUME TypeOK, Safe, SentOnce, Budget, [Next]_vars
    PROVE  Budget'
<1> SUFFICES ASSUME NEW r \in Req
             PROVE  /\ IsFiniteSet(Attempts(r)') /\ IsFiniteSet(Silent(r)')
                    /\ calls'[r] + Cardinality(Attempts(r)')
                         + (IF Vacant(r)' THEN MaxLlmAttempts ELSE 0)
                         <= MaxLlmAttempts * (1 + faults')
                    /\ Len(respLog'[r]) + Cardinality(Silent(r)')
                         + (IF Vacant(r)' THEN 1 ELSE 0) <= 1 + faults'
  BY DEF Budget
<1> DEFINE a == Cardinality(Attempts(r))
           b == Cardinality(Attempts(r)')
           m == Cardinality(Silent(r))
           n == Cardinality(Silent(r)')
           B == MaxLlmAttempts * (1 + faults)
           C == MaxLlmAttempts * (1 + faults')
<1>0. /\ faults \in Nat /\ MaxLlmAttempts \in Nat /\ B \in Nat
  BY FaultSteps, CoachAssumption
<1>1. /\ IsFiniteSet(Attempts(r)) /\ IsFiniteSet(Silent(r)) /\ a \in Nat /\ m \in Nat
      /\ calls[r] + a <= B /\ Len(respLog[r]) + m <= 1 + faults
      /\ Vacant(r) => /\ calls[r] + a + MaxLlmAttempts <= B
                      /\ Len(respLog[r]) + m + 1 <= 1 + faults
  <2>1. /\ IsFiniteSet(Attempts(r)) /\ IsFiniteSet(Silent(r)) /\ a \in Nat /\ m \in Nat
        /\ calls[r] + a + (IF Vacant(r) THEN MaxLlmAttempts ELSE 0) <= B
        /\ Len(respLog[r]) + m + (IF Vacant(r) THEN 1 ELSE 0) <= 1 + faults
    BY FS_CardinalityType DEF Budget
  <2>2. /\ calls[r] \in Nat /\ Len(respLog[r]) \in Nat /\ MaxLlmAttempts \in Nat
    BY CoachAssumption DEF TypeOK
  <2> HIDE DEF a, m, B
  <2>3. CASE Vacant(r)
    BY <2>1, <2>2, <2>3, <1>0
  <2>4. CASE ~Vacant(r)
    BY <2>1, <2>2, <2>4
  <2> QED
    BY <2>1, <2>3, <2>4
<1>2. /\ calls[r] \in Nat /\ Len(respLog[r]) \in Nat /\ faults \in Nat
      /\ MaxLlmAttempts \in Nat /\ MaxLlmAttempts # 0
      /\ (faults' = faults \/ faults' = faults + 1)
  <2>1. calls[r] \in Nat /\ Len(respLog[r]) \in Nat
    BY DEF TypeOK
  <2> QED
    BY <2>1, FaultSteps, CoachAssumption
<1>3. B \in Nat /\ (faults' = faults => C = B) /\ (faults' = faults + 1 => C = B + MaxLlmAttempts)
  BY <1>2
<1>4. /\ Vacant(r)' => Vacant(r) \/ faults' = faults + 1
      /\ B <= C /\ (Vacant(r)' => Vacant(r) \/ C = B + MaxLlmAttempts)
  BY <1>0, <1>2, <1>3, VacatedByFault
<1> HIDE DEF B, C
<1> DEFINE Kept == /\ IsFiniteSet(Attempts(r)') /\ IsFiniteSet(Silent(r)')
                   /\ calls'[r] + b <= C /\ Len(respLog'[r]) + n <= 1 + faults'
                   /\ Vacant(r)' => /\ calls'[r] + b + MaxLlmAttempts <= C
                                     /\ Len(respLog'[r]) + n + 1 <= 1 + faults'
<1>5. ASSUME Attempts(r)' \subseteq Attempts(r)
      PROVE  IsFiniteSet(Attempts(r)') /\ b \in Nat /\ b <= a
  BY <1>1, <1>5, FS_Subset, FS_CardinalityType
<1>6. ASSUME Silent(r)' \subseteq Silent(r)
      PROVE  IsFiniteSet(Silent(r)') /\ n \in Nat /\ n <= m
  BY <1>1, <1>6, FS_Subset, FS_CardinalityType
<1>7. ASSUME Attempts(r)' \subseteq Attempts(r), Silent(r)' \subseteq Silent(r),
             calls'[r] = calls[r], Len(respLog'[r]) = Len(respLog[r])
      PROVE  Kept
  <2>1. b <= a /\ n <= m /\ b \in Nat /\ n \in Nat
    BY <1>5, <1>6, <1>7
  <2>2. calls'[r] + b <= C /\ (Vacant(r)' => calls'[r] + b + MaxLlmAttempts <= C)
    <3> HIDE DEF a, b
    <3>1. calls'[r] + b <= B /\ (Vacant(r) => calls'[r] + b + MaxLlmAttempts <= B)
      BY <1>1, <1>2, <1>3, <1>7, <2>1, SMTT(30)
    <3>2. C \in Nat
      BY <1>2, <1>3
    <3> QED
      BY <1>2, <1>3, <1>4, <1>7, <2>1, <3>1, <3>2
  <2>3. /\ Len(respLog'[r]) + n <= 1 + faults'
        /\ Vacant(r)' => Len(respLog'[r]) + n + 1 <= 1 + faults'
    BY <1>1, <1>2, <1>4, <1>7, <2>1, SMTT(30)
  <2> QED
    BY <1>5, <1>6, <1>7, <2>2, <2>3
<1>8. ASSUME Begins(r), Vacant(r), ~Vacant(r)', UNCHANGED faults,
             calls'[r] = calls[r], Len(respLog'[r]) = Len(respLog[r])
      PROVE  Kept
  <2>1. PICK w \in Workers :
            /\ Attempts(r)' \subseteq Attempts(r) \cup ({w} \X (1 .. MaxLlmAttempts))
            /\ Silent(r)' \subseteq Silent(r) \cup {w}
    BY <1>8 DEF Begins
  <2> DEFINE T == {w} \X (1 .. MaxLlmAttempts)
  <2>2. IsFiniteSet(T) /\ Cardinality(T) = MaxLlmAttempts
    <3>1. IsFiniteSet({w}) /\ Cardinality({w}) = 1
      BY FS_Singleton
    <3>2. IsFiniteSet(1 .. MaxLlmAttempts) /\ Cardinality(1 .. MaxLlmAttempts) = MaxLlmAttempts
      <4>1. 1 \in Int /\ MaxLlmAttempts \in Int /\ ~(1 > MaxLlmAttempts)
        BY <1>2
      <4>2. /\ IsFiniteSet(1 .. MaxLlmAttempts)
            /\ Cardinality(1 .. MaxLlmAttempts)
                 = IF 1 > MaxLlmAttempts THEN 0 ELSE MaxLlmAttempts - 1 + 1
        BY <4>1, FS_Interval, Zenon
      <4>3. MaxLlmAttempts - 1 + 1 = MaxLlmAttempts
        BY <1>2
      <4> QED
        BY <4>1, <4>2, <4>3
    <3> QED
      BY <1>2, <3>1, <3>2, FS_Product
  <2> HIDE DEF T
  <2>3. IsFiniteSet(Attempts(r) \cup T) /\ Cardinality(Attempts(r) \cup T) <= a + MaxLlmAttempts
    <3>1. /\ IsFiniteSet(Attempts(r) \cup T)
          /\ Cardinality(Attempts(r) \cup T)
               = a + MaxLlmAttempts - Cardinality(Attempts(r) \cap T)
      BY <1>1, <2>2, FS_Union
    <3>2. Cardinality(Attempts(r) \cap T) \in Nat
      BY <1>1, FS_Subset, FS_CardinalityType
    <3> QED
      BY <1>1, <1>2, <3>1, <3>2
  <2>4. IsFiniteSet(Attempts(r)') /\ b \in Nat /\ b <= a + MaxLlmAttempts
    <3>1. /\ IsFiniteSet(Attempts(r)') /\ b \in Nat
          /\ b <= Cardinality(Attempts(r) \cup T) /\ Cardinality(Attempts(r) \cup T) \in Nat
      BY <2>1, <2>3, FS_Subset, FS_CardinalityType DEF T
    <3> QED
      BY <1>1, <1>2, <2>3, <3>1
  <2>5. IsFiniteSet(Silent(r)') /\ n \in Nat /\ n <= m + 1
    <3>1. /\ IsFiniteSet(Silent(r) \cup {w})
          /\ Cardinality(Silent(r) \cup {w}) = m \/ Cardinality(Silent(r) \cup {w}) = m + 1
      BY <1>1, FS_AddElement
    <3>2. IsFiniteSet(Silent(r)') /\ n \in Nat /\ n <= Cardinality(Silent(r) \cup {w})
      BY <2>1, <3>1, FS_Subset, FS_CardinalityType
    <3> QED
      BY <1>1, <3>1, <3>2
  <2>6. calls'[r] + b <= C /\ (Vacant(r)' => calls'[r] + b + MaxLlmAttempts <= C)
    BY <1>1, <1>2, <1>3, <1>8, <2>4, SMTT(30)
  <2>7. /\ Len(respLog'[r]) + n <= 1 + faults'
        /\ Vacant(r)' => Len(respLog'[r]) + n + 1 <= 1 + faults'
    BY <1>1, <1>2, <1>8, <2>5
  <2> QED
    BY <2>4, <2>5, <2>6, <2>7
<1>9. ASSUME Spends(r), Silent(r)' \subseteq Silent(r), UNCHANGED faults,
             calls'[r] = calls[r] + 1, Len(respLog'[r]) = Len(respLog[r])
      PROVE  Kept
  <2>1. PICK s \in Attempts(r) : Attempts(r)' \subseteq Attempts(r) \ {s}
    BY <1>9 DEF Spends
  <2>2. IsFiniteSet(Attempts(r) \ {s}) /\ Cardinality(Attempts(r) \ {s}) = a - 1
    BY <1>1, FS_RemoveElement
  <2>3. IsFiniteSet(Attempts(r)') /\ b \in Nat /\ b <= a - 1
    BY <2>1, <2>2, FS_Subset, FS_CardinalityType
  <2>4. calls'[r] + b <= C /\ (Vacant(r)' => calls'[r] + b + MaxLlmAttempts <= C)
    <3> HIDE DEF a, b
    <3>1. calls'[r] + b <= B /\ (Vacant(r) => calls'[r] + b + MaxLlmAttempts <= B)
      BY <1>1, <1>2, <1>3, <1>9, <2>3, SMTT(30)
    <3> QED
      BY <1>2, <1>3, <1>4, <1>9, <3>1
  <2>5. /\ Len(respLog'[r]) + n <= 1 + faults'
        /\ Vacant(r)' => Len(respLog'[r]) + n + 1 <= 1 + faults'
    <3>1. n \in Nat /\ n <= m
      BY <1>6, <1>9
    <3> HIDE DEF m, n
    <3>2. Len(respLog'[r]) + n <= 1 + faults
      BY <1>1, <1>2, <1>9, <3>1
    <3>3. Vacant(r) => Len(respLog'[r]) + n + 1 <= 1 + faults
      BY <1>1, <1>2, <1>9, <3>1
    <3> QED
      BY <1>2, <1>4, <1>9, <3>1, <3>2, <3>3
  <2> QED
    BY <1>6, <1>9, <2>3, <2>4, <2>5
<1>10. ASSUME Answers(r), Attempts(r)' \subseteq Attempts(r), UNCHANGED faults,
              calls'[r] = calls[r], Len(respLog'[r]) = Len(respLog[r]) + 1
       PROVE  Kept
  <2>1. PICK w \in Silent(r) : Silent(r)' \subseteq Silent(r) \ {w}
    BY <1>10 DEF Answers
  <2>2. IsFiniteSet(Silent(r) \ {w}) /\ Cardinality(Silent(r) \ {w}) = m - 1
    BY <1>1, FS_RemoveElement
  <2>3. IsFiniteSet(Silent(r)') /\ n \in Nat /\ n <= m - 1
    BY <2>1, <2>2, FS_Subset, FS_CardinalityType
  <2>4. calls'[r] + b <= C /\ (Vacant(r)' => calls'[r] + b + MaxLlmAttempts <= C)
    BY <1>1, <1>2, <1>3, <1>4, <1>5, <1>10, SMTT(30)
  <2>5. /\ Len(respLog'[r]) + n <= 1 + faults'
        /\ Vacant(r)' => Len(respLog'[r]) + n + 1 <= 1 + faults'
    BY <1>1, <1>2, <1>4, <1>10, <2>3, SMTT(30)
  <2> QED
    BY <1>5, <1>10, <2>3, <2>4, <2>5
<1>11. Kept
  BY <1>7, <1>8, <1>9, <1>10, AccountSteps
<1>12. CASE Vacant(r)'
  BY <1>11, <1>12 DEF C
<1>13. CASE ~Vacant(r)'
  <2>1. calls'[r] + b + 0 = calls'[r] + b /\ Len(respLog'[r]) + n + 0 = Len(respLog'[r]) + n
    <3>1. b \in Nat /\ n \in Nat
      BY <1>11, FS_CardinalityType
    <3>2. calls'[r] \in Nat /\ Len(respLog'[r]) \in Nat
      BY SafeNextTypeOK DEF TypeOK
    <3> HIDE DEF b, n
    <3> QED
      BY <3>1, <3>2
  <2> QED
    BY <1>11, <1>13, <2>1 DEF C
<1> QED
  BY <1>12, <1>13

LEMMA InitBudget == Init => SentOnce /\ Budget
<1> SUFFICES ASSUME Init PROVE SentOnce /\ Budget
  OBVIOUS
<1>1. SentOnce
  BY DEF Init, SentOnce
<1>2. ASSUME NEW r \in Req
      PROVE  /\ IsFiniteSet(Attempts(r)) /\ IsFiniteSet(Silent(r))
             /\ calls[r] + Cardinality(Attempts(r))
                  + (IF Vacant(r) THEN MaxLlmAttempts ELSE 0) <= MaxLlmAttempts * (1 + faults)
             /\ Len(respLog[r]) + Cardinality(Silent(r)) + (IF Vacant(r) THEN 1 ELSE 0)
                  <= 1 + faults
  <2>1. Attempts(r) = {} /\ Silent(r) = {}
    BY DEF Init, Idle, Attempts, Silent
  <2>2. calls[r] = 0 /\ Len(respLog[r]) = 0 /\ faults = 0 /\ MaxLlmAttempts \in Nat
    BY CoachAssumption DEF Init
  <2> QED
    BY <2>1, <2>2, FS_EmptySet
<1> QED
  BY <1>1, <1>2 DEF Budget

\* However often a request is delivered, to however many agents, it costs three
\* LLM calls and one notification, and as much again for each fault at most.
THEOREM BoundedWork == Spec => []WorkIsBounded
<1>1. TypeOK /\ Budget => WorkIsBounded
  <2> SUFFICES ASSUME TypeOK, Budget, NEW r \in Req
               PROVE  /\ calls[r] <= MaxLlmAttempts * (1 + faults)
                      /\ Len(respLog[r]) <= 1 + faults
    BY DEF WorkIsBounded
  <2>1. /\ Cardinality(Attempts(r)) \in Nat /\ Cardinality(Silent(r)) \in Nat
        /\ calls[r] + Cardinality(Attempts(r)) + (IF Vacant(r) THEN MaxLlmAttempts ELSE 0)
             <= MaxLlmAttempts * (1 + faults)
        /\ Len(respLog[r]) + Cardinality(Silent(r)) + (IF Vacant(r) THEN 1 ELSE 0)
             <= 1 + faults
    BY FS_CardinalityType DEF Budget
  <2>2. /\ calls[r] \in Nat /\ Len(respLog[r]) \in Nat
        /\ MaxLlmAttempts \in Nat /\ faults \in Nat
    BY CoachAssumption DEF TypeOK
  <2> DEFINE B == MaxLlmAttempts * (1 + faults)
  <2>3. B \in Nat
    BY <2>2
  <2> HIDE DEF B
  <2>4. calls[r] <= B
    BY <2>1, <2>2, <2>3 DEF B
  <2> QED
    BY <2>1, <2>2, <2>4 DEF B
<1>2. TypeOK /\ Safe /\ SentOnce /\ Budget /\ [Next]_vars => (SentOnce /\ Budget)'
  BY SentOnceStep, BudgetStep
<1> QED
  BY <1>1, <1>2, InitBudget, SafeInvariant, PTL DEF Spec
=============================================================================
