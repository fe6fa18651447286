------------------------------ MODULE CoachFlow ------------------------------
(***************************************************************************)
(* Recommendations: the core service stores a PENDING row and asks the     *)
(* coach agent through coach-requests; the agent works out the advice,     *)
(* announces it on coach-responses and updates the row.                    *)
(*                                                                         *)
(* Both services write the database and Kafka in one method, without a     *)
(* common transaction: the send goes out at once, the row with the commit  *)
(* that follows.  Requests are keyed by user, so the requests of one user  *)
(* share a partition and are served in order.  The container delivers at   *)
(* least once, as in TransactionPipeline.                                  *)
(*                                                                         *)
(* Abstracted: the text of the advice (its origin is kept), timestamps,    *)
(* the parameters (CoachTools uses them, this flow does not), the back-off *)
(* between attempts, and payloads that do not parse (skipped unseen).      *)
(***************************************************************************)
EXTENDS Naturals, Sequences

CONSTANTS
    Req, Users, Workers,
    userOf,         \* [Req -> Users]
    Null,
    Keyed,          \* instances with an API key (LLMService.isConfigured)
    MaxLlmAttempts, \* runCatchingWithBackoff(3)
    MaxAttempts,    \* deliveries the container's error handler allows
    MaxFaults       \* bound: crashes, rebalances, failed statements or sends

ASSUME CoachAssumption ==
    /\ userOf \in [Req -> Users]
    /\ Null \notin Req \cup Users
    /\ Keyed \subseteq Workers
    /\ MaxLlmAttempts \in Nat \ {0}
    /\ MaxAttempts \in Nat \ {0}
    /\ MaxFaults \in Nat

VARIABLES
    rec,        \* recommendations.recommendations, committed
    creating,   \* the core transaction that creates the request
    reqLog,     \* coach-requests, per user
    respLog,    \* statuses announced on coach-responses, per request
    pos, off, owner, attempts,
    handler,    \* the agents' listener threads
    calls,      \* LLM calls made for a request
    losses, faults

vars == <<rec, creating, reqLog, respLog, pos, off, owner, attempts, handler,
          calls, losses, faults>>

Terminal == {"COMPLETED", "FAILED"}
Origins == {"no data", "fallback", "llm"}
Losses == {"request", "not found", "skipped", "response"}

Rec == [status: {"PENDING"} \cup Terminal,
        advice: Origins \cup {Null},
        error: BOOLEAN]

ASSUME NullIsNoData == Null \notin Rec \cup Origins

Pending == [status |-> "PENDING", advice |-> Null, error |-> FALSE]

Handler == [pc: {"idle", "missing", "loaded", "decided", "published"},
            req: Req \cup {Null},
            entity: Rec \cup {Null},
            tries: 0 .. MaxLlmAttempts,
            fenced: BOOLEAN]

Idle == [pc |-> "idle", req |-> Null, entity |-> Null, tries |-> 0,
         fenced |-> FALSE]

TypeOK ==
    /\ rec \in [Req -> Rec \cup {Null}]
    /\ creating \in [Req -> {"new", "sent", "accepted", "rejected"}]
    /\ reqLog \in [Users -> Seq(Req)]
    /\ respLog \in [Req -> Seq(Terminal)]
    /\ pos \in [Users -> Nat] /\ off \in [Users -> Nat]
    /\ owner \in [Users -> Workers]
    /\ attempts \in [Users -> 0 .. MaxAttempts - 1]
    /\ handler \in [Workers -> Handler]
    /\ \A w \in Workers :
          handler[w].pc # "idle" =>
              /\ handler[w].req \in Req
              /\ handler[w].pc # "missing" => handler[w].entity \in Rec
    /\ calls \in [Req -> Nat]
    /\ losses \subseteq Req \X Losses
    /\ faults \in 0 .. MaxFaults

Init ==
    /\ rec = [r \in Req |-> Null]
    /\ creating = [r \in Req |-> "new"]
    /\ reqLog = [u \in Users |-> <<>>]
    /\ respLog = [r \in Req |-> <<>>]
    /\ pos = [u \in Users |-> 0]
    /\ off = pos
    /\ owner \in [Users -> Workers]
    /\ attempts = [u \in Users |-> 0]
    /\ handler = [w \in Workers |-> Idle]
    /\ calls = [r \in Req |-> 0]
    /\ losses = {}
    /\ faults = 0

Fault == faults < MaxFaults /\ faults' = faults + 1
Lose(r, what) == losses' = losses \cup {<<r, what>>}

-----------------------------------------------------------------------------
(* createRecommendationRequest: save PENDING, publish, commit.             *)

SendRequest(r) ==
    /\ creating[r] = "new"
    /\ creating' = [creating EXCEPT ![r] = "sent"]
    /\ reqLog' = [reqLog EXCEPT ![userOf[r]] = Append(@, r)]
    /\ UNCHANGED <<rec, respLog, pos, off, owner, attempts, handler, calls,
                   losses, faults>>

\* The future of the send is ignored.
RequestLost(r) ==
    /\ Fault
    /\ creating[r] = "new"
    /\ creating' = [creating EXCEPT ![r] = "sent"]
    /\ Lose(r, "request")
    /\ UNCHANGED <<rec, reqLog, respLog, pos, off, owner, attempts, handler,
                   calls>>

CommitRequest(r) ==
    /\ creating[r] = "sent"
    /\ creating' = [creating EXCEPT ![r] = "accepted"]
    /\ rec' = [rec EXCEPT ![r] = Pending]
    /\ UNCHANGED <<reqLog, respLog, pos, off, owner, attempts, handler, calls,
                   losses, faults>>

\* A statement, the send or the commit fails, or the instance dies: the caller
\* gets an error and no row; the event may be out already.
RequestRejected(r) ==
    /\ Fault
    /\ creating[r] \in {"new", "sent"}
    /\ creating' = [creating EXCEPT ![r] = "rejected"]
    /\ UNCHANGED <<rec, reqLog, respLog, pos, off, owner, attempts, handler,
                   calls, losses>>

-----------------------------------------------------------------------------
(* The listener container of the agent.                                    *)

Deliverable(w, u) ==
    /\ handler[w].pc = "idle"
    /\ owner[u] = w
    /\ pos[u] < Len(reqLog[u])

Delivered(u) == reqLog[u][pos[u] + 1]
PartitionOf(w) == userOf[handler[w].req]

MoveOn(u) ==
    /\ pos' = [pos EXCEPT ![u] = @ + 1]
    /\ attempts' = [attempts EXCEPT ![u] = 0]

Proceed(w, h) == handler' = [handler EXCEPT ![w] = h]

Ack(w) ==
    /\ Proceed(w, Idle)
    /\ IF handler[w].fenced THEN UNCHANGED <<pos, attempts>>
                            ELSE MoveOn(PartitionOf(w))

\* Mutants: one delivery too many; the listener swallows the exception.
ExhaustedLate(w) == attempts[PartitionOf(w)] = MaxAttempts
NackSwallowed(w) ==
    Ack(w) /\ UNCHANGED <<rec, creating, reqLog, respLog, off, owner, calls, losses>>

\* The delivery that has just failed was the last one allowed.
Exhausted(w) == attempts[PartitionOf(w)] + 1 = MaxAttempts

\* The call threw: rolled back, delivered again until the attempts are used up.
Nack(w) ==
    /\ Proceed(w, Idle)
    /\ \/ /\ handler[w].fenced
          /\ UNCHANGED <<pos, attempts, losses>>
       \/ /\ ~handler[w].fenced
          /\ ~Exhausted(w)
          /\ attempts' = [attempts EXCEPT ![PartitionOf(w)] = @ + 1]
          /\ UNCHANGED <<pos, losses>>
       \/ /\ ~handler[w].fenced
          /\ Exhausted(w)
          /\ MoveOn(PartitionOf(w))
          /\ Lose(handler[w].req, "skipped")
    /\ UNCHANGED <<rec, creating, reqLog, respLog, off, owner, calls>>

-----------------------------------------------------------------------------
(* CoachService.process.                                                   *)

\* Mutant: a recommendation that is COMPLETED or FAILED is done again.
LoadTerminal(w, u) ==
    LET r == Delivered(u) IN
    /\ Deliverable(w, u)
    /\ rec[r] # Null
    /\ Proceed(w, [Idle EXCEPT !.pc = "loaded", !.req = r, !.entity = rec[r]])
    /\ UNCHANGED <<rec, creating, reqLog, respLog, pos, off, owner, attempts,
                   calls, losses, faults>>

\* findById finds nothing: the creating transaction is not committed (or never
\* will be).
LoadMissing(w, u) ==
    LET r == Delivered(u) IN
    /\ Deliverable(w, u)
    /\ rec[r] = Null
    /\ Proceed(w, [Idle EXCEPT !.pc = "missing", !.req = r])
    /\ UNCHANGED <<rec, creating, reqLog, respLog, pos, off, owner, attempts,
                   calls, losses, faults>>

\* COMPLETED or FAILED already: a duplicate, skipped.
SkipTerminal(w, u) ==
    LET r == Delivered(u) IN
    /\ Deliverable(w, u)
    /\ rec[r] # Null /\ rec[r].status \in Terminal
    /\ MoveOn(u)
    /\ UNCHANGED <<rec, creating, reqLog, respLog, off, owner, handler, calls,
                   losses, faults>>

Load(w, u) ==
    LET r == Delivered(u) IN
    /\ Deliverable(w, u)
    /\ rec[r] # Null /\ rec[r].status = "PENDING"
    /\ Proceed(w, [Idle EXCEPT !.pc = "loaded", !.req = r, !.entity = rec[r]])
    /\ UNCHANGED <<rec, creating, reqLog, respLog, pos, off, owner, attempts,
                   calls, losses, faults>>

\* handleMissingRecommendation: announce FAILED, touch no row, return.
AnnounceMissing(w) ==
    LET r == handler[w].req IN
    /\ handler[w].pc = "missing"
    /\ respLog' = [respLog EXCEPT ![r] = Append(@, "FAILED")]
    /\ Lose(r, "not found")
    /\ Ack(w)
    /\ UNCHANGED <<rec, creating, reqLog, off, owner, calls, faults>>

Completed(e, origin) == [e EXCEPT !.status = "COMPLETED", !.advice = origin,
                                  !.error = FALSE]
Failed(e) == [e EXCEPT !.status = "FAILED", !.error = TRUE]

Decide(w, e) == Proceed(w, [handler[w] EXCEPT !.pc = "decided", !.entity = e])

\* No transactions in the period, whether or not the LLM could be asked.
AnswerNoData(w) ==
    /\ handler[w].pc = "loaded" /\ handler[w].tries = 0
    /\ Decide(w, Completed(handler[w].entity, "no data"))
    /\ UNCHANGED <<rec, creating, reqLog, respLog, pos, off, owner, attempts,
                   calls, losses, faults>>

\* No key: buildDeterministicFallback.
AnswerFallback(w) ==
    /\ handler[w].pc = "loaded" /\ w \notin Keyed
    /\ Decide(w, Completed(handler[w].entity, "fallback"))
    /\ UNCHANGED <<rec, creating, reqLog, respLog, pos, off, owner, attempts,
                   calls, losses, faults>>

Call(w) == calls' = [calls EXCEPT ![handler[w].req] = @ + 1]

LlmSucceeds(w) ==
    /\ handler[w].pc = "loaded" /\ w \in Keyed
    /\ handler[w].tries < MaxLlmAttempts
    /\ Call(w)
    /\ Decide(w, Completed(handler[w].entity, "llm"))
    /\ UNCHANGED <<rec, creating, reqLog, respLog, pos, off, owner, attempts,
                   losses, faults>>

\* Mutant: attempt <= maxAttempts + 1.
LlmFailsOnceMore(w) ==
    LET h == handler[w] IN
    /\ h.pc = "loaded" /\ w \in Keyed
    /\ Call(w)
    /\ IF h.tries < MaxLlmAttempts
       THEN Proceed(w, [h EXCEPT !.tries = @ + 1])
       ELSE Decide(w, Failed(h.entity))
    /\ UNCHANGED <<rec, creating, reqLog, respLog, pos, off, owner, attempts,
                   losses, faults>>

\* An attempt throws (time-out, error status, empty answer): again, after a
\* back-off, until failRecommendation.
LlmFails(w) ==
    LET h == handler[w] IN
    /\ h.pc = "loaded" /\ w \in Keyed
    /\ h.tries < MaxLlmAttempts
    /\ Call(w)
    /\ IF h.tries + 1 < MaxLlmAttempts
       THEN Proceed(w, [h EXCEPT !.tries = @ + 1])
       ELSE Decide(w, Failed(h.entity))
    /\ UNCHANGED <<rec, creating, reqLog, respLog, pos, off, owner, attempts,
                   losses, faults>>

\* The response goes out; the update of the row waits for the commit.
Announce(w) ==
    LET h == handler[w] IN
    /\ h.pc = "decided"
    /\ Proceed(w, [h EXCEPT !.pc = "published"])
    /\ respLog' = [respLog EXCEPT ![h.req] = Append(@, h.entity.status)]
    /\ UNCHANGED <<rec, creating, reqLog, pos, off, owner, attempts, calls,
                   losses, faults>>

ResponseLost(w) ==
    LET h == handler[w] IN
    /\ Fault
    /\ h.pc = "decided"
    /\ Proceed(w, [h EXCEPT !.pc = "published"])
    /\ Lose(h.req, "response")
    /\ UNCHANGED <<rec, creating, reqLog, respLog, pos, off, owner, attempts,
                   calls>>

\* Mutants: only the columns this call set are written; the commit does not
\* wait for the response.
CommitChangedColumns(w) ==
    LET h == handler[w] IN
    /\ h.pc = "published"
    /\ rec' = [rec EXCEPT ![h.req].status = h.entity.status,
                          ![h.req].advice = IF h.entity.advice # Null
                                               THEN h.entity.advice ELSE @,
                          ![h.req].error = h.entity.error]
    /\ Ack(w)
    /\ UNCHANGED <<creating, reqLog, respLog, off, owner, calls, losses, faults>>
CommitUnannounced(w) ==
    LET h == handler[w] IN
    /\ h.pc \in {"decided", "published"}
    /\ rec' = [rec EXCEPT ![h.req] = h.entity]
    /\ Ack(w)
    /\ UNCHANGED <<creating, reqLog, respLog, off, owner, calls, losses, faults>>

\* The managed entity is written whole (no @DynamicUpdate, no @Version).
Commit(w) ==
    LET h == handler[w] IN
    /\ h.pc = "published"
    /\ rec' = [rec EXCEPT ![h.req] = h.entity]
    /\ Ack(w)
    /\ UNCHANGED <<creating, reqLog, respLog, off, owner, calls, losses, faults>>

\* A query, the serialisation, the send or the commit throws, or the back-off
\* is interrupted.
HandlerFails(w) ==
    /\ Fault
    /\ handler[w].pc # "idle"
    /\ Nack(w)

-----------------------------------------------------------------------------
(* Offsets, rebalances, crashes.                                           *)

\* Mutant: what was polled is committed before it is processed.
CommitOffsetEarly(u) ==
    /\ off[u] < Len(reqLog[u])
    /\ off' = [off EXCEPT ![u] = Len(reqLog[u])]
    /\ UNCHANGED <<rec, creating, reqLog, respLog, pos, owner, attempts,
                   handler, calls, losses, faults>>

CommitOffset(u) ==
    /\ off[u] < pos[u]
    /\ off' = [off EXCEPT ![u] = pos[u]]
    /\ UNCHANGED <<rec, creating, reqLog, respLog, pos, owner, attempts,
                   handler, calls, losses, faults>>

\* Three attempts of up to a minute each outlast max.poll.interval when a poll
\* returned two records: the partition goes to w from the committed offset,
\* and the old owner goes on with its call.
Rebalance(u, w) ==
    /\ Fault
    /\ owner' = [owner EXCEPT ![u] = w]
    /\ pos' = [pos EXCEPT ![u] = off[u]]
    /\ attempts' = [attempts EXCEPT ![u] = 0]
    /\ handler' = [v \in Workers |->
          IF handler[v].pc # "idle" /\ PartitionOf(v) = u
             THEN [handler[v] EXCEPT !.fenced = TRUE] ELSE handler[v]]
    /\ UNCHANGED <<rec, creating, reqLog, respLog, off, calls, losses>>

Crash(w) ==
    /\ Fault
    /\ Proceed(w, Idle)
    /\ pos' = [u \in Users |-> IF owner[u] = w THEN off[u] ELSE pos[u]]
    /\ attempts' = [u \in Users |-> IF owner[u] = w THEN 0 ELSE attempts[u]]
    /\ UNCHANGED <<rec, creating, reqLog, respLog, off, owner, calls, losses>>

-----------------------------------------------------------------------------
Core(r) == SendRequest(r) \/ RequestLost(r) \/ CommitRequest(r) \/ RequestRejected(r)

Step(w) ==
    \/ \E u \in Users : LoadMissing(w, u) \/ SkipTerminal(w, u) \/ Load(w, u)
    \/ AnnounceMissing(w) \/ AnswerNoData(w) \/ AnswerFallback(w)
    \/ LlmSucceeds(w) \/ LlmFails(w) \/ Announce(w) \/ Commit(w)

Environment ==
    \/ \E u \in Users : CommitOffset(u) \/ \E w \in Workers : Rebalance(u, w)
    \/ \E w \in Workers : ResponseLost(w) \/ HandlerFails(w) \/ Crash(w)

Next == \/ \E r \in Req : Core(r)
        \/ \E w \in Workers : Step(w)
        \/ Environment

Spec == Init /\ [][Next]_vars

\* A started request transaction ends, and the listener threads keep running:
\* every LLM attempt is bounded by orTimeout, the attempts by three.
Fairness == /\ \A r \in Req : WF_vars(CommitRequest(r))
            /\ \A w \in Workers : WF_vars(Step(w))

FairSpec == Spec /\ Fairness

-----------------------------------------------------------------------------
(* Safety.                                                                 *)

\* Whoever writes last, the row is one call's outcome whole: a COMPLETED row
\* has its advice and no error, a FAILED row an error and no advice, even when
\* a fenced agent and its successor both finish (completeRecommendation,
\* failRecommendation, and the full-row UPDATE).
RowIsWhole ==
    \A r \in Req : rec[r] # Null =>
        CASE rec[r].status = "COMPLETED" -> rec[r].advice # Null /\ ~rec[r].error
          [] rec[r].status = "FAILED"    -> rec[r].advice = Null /\ rec[r].error
          [] OTHER                       -> rec[r] = Pending

Announced(r, s) == \E i \in 1 .. Len(respLog[r]) : respLog[r][i] = s
Lost(r) == \E l \in Losses : <<r, l>> \in losses

\* The notification precedes the commit: a status a user can read was
\* announced on coach-responses, unless that send was lost.
TerminalIsAnnounced ==
    \A r \in Req : rec[r] # Null /\ rec[r].status \in Terminal =>
        Announced(r, rec[r].status) \/ <<r, "response">> \in losses

\* An offset is committed past a request only when its row is final, or the
\* request has been given up (row not found, attempts exhausted).
AcknowledgedIsServed ==
    \A u \in Users : \A i \in 1 .. off[u] :
        LET r == reqLog[u][i] IN
        \/ rec[r] # Null /\ rec[r].status \in Terminal
        \/ Lost(r)

\* The price of a request: at most three LLM calls and one notification for
\* every delivery, and a delivery is repeated only after a fault.
WorkIsBounded ==
    \A r \in Req : /\ calls[r] <= MaxLlmAttempts * (1 + faults)
                   /\ Len(respLog[r]) <= 1 + faults

StatusOf(r) == IF rec[r] = Null THEN "absent" ELSE rec[r].status

Lifecycle == INSTANCE RecommendationLifecycle WITH
                 status <- [r \in Req |-> StatusOf(r)]

\* With one agent instance a poller sees the promised lifecycle: a final
\* status never changes, through redeliveries and crashes (two instances break
\* this: a fenced call still commits).
LifecycleSpec == Lifecycle!Spec

-----------------------------------------------------------------------------
(* Liveness.                                                               *)

\* A pending recommendation gets its final status, unless the request was lost
\* or given up.
PendingIsServed ==
    \A r \in Req : StatusOf(r) = "PENDING" ~> (StatusOf(r) \in Terminal \/ Lost(r))

\* docs/services/core-service.md: the agent updates the PENDING row to
\* COMPLETED or to FAILED.
PendingAlwaysEnds ==
    \A r \in Req : StatusOf(r) = "PENDING" ~> StatusOf(r) \in Terminal
=============================================================================
