------------------------- MODULE TransactionPipeline -------------------------
(***************************************************************************)
(* The classification pipeline of the core service: a raw transaction is   *)
(* consumed from raw-transactions, classified synchronously by the ML      *)
(* classifier, and, below the confidence threshold, handed to the LLM      *)
(* agent through llm-classifier-requests / llm-classifier-responses.       *)
(*                                                                         *)
(* Each listener call is one database transaction.  It is split where      *)
(* another actor can come between: existsById, the SELECT of the merge in  *)
(* save, the flush forced by the history query (which takes the row lock), *)
(* the Kafka send (which is not part of the database transaction), and the *)
(* commit.  Kafka delivers at least once: a topic is a log per key with a  *)
(* read position and a committed offset, and a crash or a rebalance        *)
(* returns the position to the offset.  Events of one transaction share a  *)
(* key, hence a partition, hence an order.                                 *)
(*                                                                         *)
(* Abstracted: the payload of the events (history included), user and      *)
(* account creation (a failure of it is a HandlerFails step), timestamps   *)
(* (only whether classifiedAt is set), request ids (core never reads them).*)
(***************************************************************************)
EXTENDS Naturals, Sequences

CONSTANTS
    Tx,           \* transaction ids
    Workers,      \* instances of the core service (one group, stateless)
    Categories,   \* category names
    Null,         \* SQL NULL, and no row
    MlAnswers,    \* what the classifier can answer for a transaction: one
                  \* answer while it runs, maybe another after a restart
                  \* with other rules or another model
    LlmAnswers,   \* the answers the LLM agent can give
    Threshold,    \* app.classifier.confidence-threshold
    MaxCopies,    \* bound: times a raw event may be published
    MaxAttempts,  \* deliveries the container's error handler allows a record
    MaxFaults     \* bound: crashes, rebalances, database failures, lost sends

Answer == [category: Categories, confidence: Nat]

ASSUME PipelineAssumption ==
    /\ Null \notin Tx \cup Categories \cup Nat \cup {"ML", "LLM"}
    /\ MlAnswers \in [Tx -> SUBSET Answer]
    /\ LlmAnswers \subseteq Answer
    /\ Threshold \in Nat
    /\ MaxAttempts \in Nat \ {0}
    /\ MaxCopies \in Nat /\ MaxFaults \in Nat

VARIABLES
    row,          \* core.transactions, committed: [Tx -> Row or Null]
    rawEnd,       \* length of the raw-transactions log of a transaction
    reqEnd,       \* length of its llm-classifier-requests log
    respLog,      \* its llm-classifier-responses log
    pos, off,     \* next record to deliver less one; committed offset
    owner,        \* the instance its partition is assigned to
    attempts,     \* failed deliveries of the record at the position
    handler,      \* the listener threads: one per topic and instance
    losses,       \* what was given up: <<tx, what>>
    faults

vars == <<row, rawEnd, reqEnd, respLog, pos, off, owner, attempts, handler,
          losses, faults>>

CoreTopics == {"raw", "resp"}
Topics == {"raw", "req", "resp"}
Losses == {"raw", "req", "resp", "not found"}

Status == {"NEW", "ML_CLASSIFYING", "LLM_CLASSIFYING", "CLASSIFIED",
           "RETRYING", "FAILED"}

Row == [status: Status,
        category: Categories \cup {Null},
        source: {"ML", "LLM", Null},
        confidence: Nat \cup {Null},
        dated: BOOLEAN]

ASSUME NullIsNoRow == Null \notin Row

\* A listener thread: the step its call has reached, the transaction, the
\* managed entity, whether saving it will INSERT (or UPDATE a row the merge
\* found), and whether its partition has been taken away since it started.
Handler == [pc: {"idle", "checked", "saved", "decided", "flushed",
                 "published", "loaded"},
            tx: Tx \cup {Null},
            entity: Row \cup {Null},
            inserts: BOOLEAN,
            fenced: BOOLEAN]

Idle == [pc |-> "idle", tx |-> Null, entity |-> Null, inserts |-> FALSE,
         fenced |-> FALSE]

Unclassified(s) == [status |-> s, category |-> Null, source |-> Null,
                    confidence |-> Null, dated |-> FALSE]
Labelled(s, src, a, d) == [status |-> s, category |-> a.category,
                           source |-> src, confidence |-> a.confidence,
                           dated |-> d]

EndOf(topic, t) == CASE topic = "raw"  -> rawEnd[t]
                     [] topic = "req"  -> reqEnd[t]
                     [] topic = "resp" -> Len(respLog[t])

TypeOK ==
    /\ row \in [Tx -> Row \cup {Null}]
    /\ rawEnd \in [Tx -> Nat]
    /\ reqEnd \in [Tx -> Nat]
    /\ respLog \in [Tx -> Seq(LlmAnswers)]
    /\ pos \in [Topics -> [Tx -> Nat]]
    /\ off \in [Topics -> [Tx -> Nat]]
    /\ owner \in [CoreTopics -> [Tx -> Workers]]
    /\ attempts \in [CoreTopics -> [Tx -> 0 .. MaxAttempts - 1]]
    /\ handler \in [CoreTopics -> [Workers -> Handler]]
    /\ \A c \in CoreTopics, w \in Workers :
          handler[c][w].pc # "idle" => /\ handler[c][w].tx \in Tx
                                       /\ handler[c][w].pc # "checked" =>
                                             handler[c][w].entity \in Row
    /\ losses \subseteq Tx \X Losses
    /\ faults \in 0 .. MaxFaults

Init ==
    /\ row = [t \in Tx |-> Null]
    /\ rawEnd = [t \in Tx |-> 0]
    /\ reqEnd = [t \in Tx |-> 0]
    /\ respLog = [t \in Tx |-> <<>>]
    /\ pos = [c \in Topics |-> [t \in Tx |-> 0]]
    /\ off = pos
    /\ owner \in [CoreTopics -> [Tx -> Workers]]
    /\ attempts = [c \in CoreTopics |-> [t \in Tx |-> 0]]
    /\ handler = [c \in CoreTopics |-> [w \in Workers |-> Idle]]
    /\ losses = {}
    /\ faults = 0

-----------------------------------------------------------------------------
(* The listener container: delivery, acknowledgement, failure.             *)

Deliverable(c, w, t) ==
    /\ handler[c][w].pc = "idle"
    /\ owner[c][t] = w
    /\ pos[c][t] < EndOf(c, t)

MoveOn(c, t) ==
    /\ pos' = [pos EXCEPT ![c][t] = @ + 1]
    /\ attempts' = [attempts EXCEPT ![c][t] = 0]

\* The call returned: the record is done, unless the partition was lost.
Ack(c, w) ==
    /\ handler' = [handler EXCEPT ![c][w] = Idle]
    /\ IF handler[c][w].fenced THEN UNCHANGED <<pos, attempts>>
                               ELSE MoveOn(c, handler[c][w].tx)

\* Mutants: one delivery too many; an exception swallowed by the listener.
ExhaustedLate(c, t) == attempts[c][t] = MaxAttempts
NackSwallowed(c, w) ==
    Ack(c, w) /\ UNCHANGED <<row, rawEnd, reqEnd, respLog, off, owner, losses>>

\* The delivery that has just failed was the last one allowed.
Exhausted(c, t) == attempts[c][t] + 1 = MaxAttempts

\* The call threw: its database transaction is rolled back and the record is
\* delivered again, until the error handler's attempts are used up and it is
\* logged and skipped.
Nack(c, w) ==
    LET t == handler[c][w].tx IN
    /\ handler' = [handler EXCEPT ![c][w] = Idle]
    /\ \/ /\ handler[c][w].fenced
          /\ UNCHANGED <<pos, attempts, losses>>
       \/ /\ ~handler[c][w].fenced
          /\ ~Exhausted(c, t)
          /\ attempts' = [attempts EXCEPT ![c][t] = @ + 1]
          /\ UNCHANGED <<pos, losses>>
       \/ /\ ~handler[c][w].fenced
          /\ Exhausted(c, t)
          /\ MoveOn(c, t)
          /\ losses' = losses \cup {<<t, c>>}
    /\ UNCHANGED <<row, rawEnd, reqEnd, respLog, off, owner>>

Proceed(c, w, h) == handler' = [handler EXCEPT ![c][w] = h]

Fault == faults < MaxFaults /\ faults' = faults + 1

-----------------------------------------------------------------------------
(* handleRawTransaction                                                    *)

\* The row lock: taken by the first statement that writes the row, released
\* by commit or rollback.
LocksRow(w, t) == /\ handler["raw"][w].pc \in {"flushed", "published"}
                  /\ handler["raw"][w].tx = t

Unlocked(w, t) == \A v \in Workers \ {w} : ~LocksRow(v, t)

\* INSERT of a primary key that has been committed in the meantime.
Conflict(w) == /\ handler["raw"][w].inserts
               /\ row[handler["raw"][w].tx] # Null

\* Mutant: no existsById before the work.
BeginRawUnchecked(w, t) ==
    /\ Deliverable("raw", w, t)
    /\ Proceed("raw", w, [Idle EXCEPT !.pc = "checked", !.tx = t])
    /\ UNCHANGED <<row, rawEnd, reqEnd, respLog, pos, off, owner, attempts,
                   losses, faults>>

ReachesThreshold(a) == a.confidence >= Threshold
Accepted(a) == Labelled("CLASSIFIED", "ML", a, TRUE)
Deferred(a) == Labelled("LLM_CLASSIFYING", "ML", a, FALSE)

\* The transactions a restarted classifier may decide the other way.
Disputed == {t \in Tx : \E a, b \in MlAnswers[t] :
                           ReachesThreshold(a) /\ ~ReachesThreshold(b)}

\* existsById is true: the event is skipped.
SkipDuplicate(w, t) ==
    /\ Deliverable("raw", w, t)
    /\ row[t] # Null
    /\ MoveOn("raw", t)
    /\ UNCHANGED <<row, rawEnd, reqEnd, respLog, off, owner, handler, losses,
                   faults>>

\* existsById is false; ensureUserAndAccount.
BeginRaw(w, t) ==
    /\ Deliverable("raw", w, t)
    /\ row[t] = Null
    /\ Proceed("raw", w, [Idle EXCEPT !.pc = "checked", !.tx = t])
    /\ UNCHANGED <<row, rawEnd, reqEnd, respLog, pos, off, owner, attempts,
                   losses, faults>>

\* Mutant: the save commits on its own.
SaveMlClassifyingAlone(w) ==
    LET h == handler["raw"][w] IN
    /\ h.pc = "checked"
    /\ row' = [row EXCEPT ![h.tx] = Unclassified("ML_CLASSIFYING")]
    /\ Proceed("raw", w, [h EXCEPT !.pc = "saved", !.entity = row'[h.tx]])
    /\ UNCHANGED <<rawEnd, reqEnd, respLog, pos, off, owner, attempts, losses,
                   faults>>

\* save of an entity with an assigned id is a merge: it SELECTs the row, and
\* a row committed since existsById is overwritten with ML_CLASSIFYING.
SaveMlClassifying(w) ==
    LET h == handler["raw"][w] IN
    /\ h.pc = "checked"
    /\ Proceed("raw", w, [h EXCEPT !.pc = "saved",
                                   !.entity = Unclassified("ML_CLASSIFYING"),
                                   !.inserts = (row[h.tx] = Null)])
    /\ UNCHANGED <<row, rawEnd, reqEnd, respLog, pos, off, owner, attempts,
                   losses, faults>>

\* Mutant: no return after the ML branch.
AcceptMlFallsThrough(w) ==
    LET h == handler["raw"][w] IN
    /\ h.pc = "saved"
    /\ \E a \in MlAnswers[h.tx] :
          /\ ReachesThreshold(a)
          /\ Proceed("raw", w, [h EXCEPT !.pc = "flushed", !.entity = Accepted(a)])
    /\ UNCHANGED <<row, rawEnd, reqEnd, respLog, pos, off, owner, attempts,
                   losses, faults>>

\* The classifier's confidence reaches the threshold.
AcceptMl(w) ==
    LET h == handler["raw"][w] IN
    /\ h.pc = "saved"
    /\ \E a \in MlAnswers[h.tx] :
          /\ ReachesThreshold(a)
          /\ Proceed("raw", w, [h EXCEPT !.pc = "decided", !.entity = Accepted(a)])
    /\ UNCHANGED <<row, rawEnd, reqEnd, respLog, pos, off, owner, attempts,
                   losses, faults>>

\* The classifier call throws (error status, timeout, empty body).
ClassifierFails(w) ==
    LET h == handler["raw"][w] IN
    /\ h.pc = "saved"
    /\ Proceed("raw", w, [h EXCEPT !.pc = "decided", !.entity.status = "FAILED"])
    /\ UNCHANGED <<row, rawEnd, reqEnd, respLog, pos, off, owner, attempts,
                   losses, faults>>

\* Below the threshold: the entity becomes LLM_CLASSIFYING and the history
\* query flushes it, waiting for the row lock (the answer was taken before
\* the wait, which it does not depend on).  A conflicting INSERT marks the
\* transaction for rollback whatever the catch block does.
DeferToLlm(w) ==
    LET h == handler["raw"][w] IN
    /\ h.pc = "saved"
    /\ Unlocked(w, h.tx)
    /\ \E a \in MlAnswers[h.tx] :
          /\ ~ReachesThreshold(a)
          /\ IF Conflict(w)
             THEN Nack("raw", w) /\ UNCHANGED faults
             ELSE /\ Proceed("raw", w,
                             [h EXCEPT !.pc = "flushed", !.entity = Deferred(a)])
                  /\ UNCHANGED <<row, rawEnd, reqEnd, respLog, pos, off, owner,
                                 attempts, losses, faults>>

\* The send is handed to Kafka before the commit.
PublishRequest(w) ==
    LET h == handler["raw"][w] IN
    /\ h.pc = "flushed"
    /\ Proceed("raw", w, [h EXCEPT !.pc = "published"])
    /\ reqEnd' = [reqEnd EXCEPT ![h.tx] = @ + 1]
    /\ UNCHANGED <<row, rawEnd, respLog, pos, off, owner, attempts, losses,
                   faults>>

\* The future of the send is ignored: a send that fails later is lost.
RequestLost(w) ==
    LET h == handler["raw"][w] IN
    /\ h.pc = "flushed"
    /\ Fault
    /\ Proceed("raw", w, [h EXCEPT !.pc = "published"])
    /\ losses' = losses \cup {<<h.tx, "req">>}
    /\ UNCHANGED <<row, rawEnd, reqEnd, respLog, pos, off, owner, attempts>>

\* Mutant: the catch block only logs.
PublishThrowsUnmarked(w) ==
    LET h == handler["raw"][w] IN
    /\ h.pc = "flushed"
    /\ Proceed("raw", w, [h EXCEPT !.pc = "published"])
    /\ UNCHANGED <<row, rawEnd, reqEnd, respLog, pos, off, owner, attempts,
                   losses, faults>>

\* The send throws at once: the catch block stores FAILED.
PublishThrows(w) ==
    LET h == handler["raw"][w] IN
    /\ h.pc = "flushed"
    /\ Proceed("raw", w, [h EXCEPT !.pc = "published", !.entity.status = "FAILED"])
    /\ UNCHANGED <<row, rawEnd, reqEnd, respLog, pos, off, owner, attempts,
                   losses, faults>>

ReadyToCommit(w) ==
    LET h == handler["raw"][w] IN
    \/ h.pc = "published"
    \/ h.pc = "decided" /\ Unlocked(w, h.tx)

\* Commit writes every column of the entity (no @DynamicUpdate, no @Version).
CommitRaw(w) ==
    LET h == handler["raw"][w] IN
    /\ ReadyToCommit(w)
    /\ h.pc = "decided" => ~Conflict(w)
    /\ row' = [row EXCEPT ![h.tx] = h.entity]
    /\ Ack("raw", w)
    /\ UNCHANGED <<rawEnd, reqEnd, respLog, off, owner, losses, faults>>

\* The INSERT issued by the commit conflicts.
CommitConflict(w) ==
    /\ ReadyToCommit(w)
    /\ handler["raw"][w].pc = "decided" /\ Conflict(w)
    /\ Nack("raw", w)
    /\ UNCHANGED faults

-----------------------------------------------------------------------------
(* handleLlmClassifierResponse                                             *)

\* findById finds nothing (the raw handler has not committed): warn, return.
DropResponse(w, t) ==
    /\ Deliverable("resp", w, t)
    /\ row[t] = Null
    /\ MoveOn("resp", t)
    /\ losses' = losses \cup {<<t, "not found">>}
    /\ UNCHANGED <<row, rawEnd, reqEnd, respLog, off, owner, handler, faults>>

\* Mutant: the confidence of the row survives.
AnsweredKeepingConfidence(t, a) ==
    [Labelled("CLASSIFIED", "LLM", a, TRUE) EXCEPT !.confidence = row[t].confidence]

\* The row after the five assignments.
Answered(t, a) == Labelled("CLASSIFIED", "LLM", a, TRUE)

\* findById, and the five assignments: no test of status or of requestId.
LoadForResponse(w, t) ==
    /\ Deliverable("resp", w, t)
    /\ row[t] # Null
    /\ Proceed("resp", w,
               [Idle EXCEPT !.pc = "loaded", !.tx = t,
                  !.entity = Answered(t, respLog[t][pos["resp"][t] + 1])])
    /\ UNCHANGED <<row, rawEnd, reqEnd, respLog, pos, off, owner, attempts,
                   losses, faults>>

CommitResponse(w) ==
    LET h == handler["resp"][w] IN
    /\ h.pc = "loaded"
    /\ \A v \in Workers : ~LocksRow(v, h.tx)
    /\ row' = [row EXCEPT ![h.tx] = h.entity]
    /\ Ack("resp", w)
    /\ UNCHANGED <<rawEnd, reqEnd, respLog, off, owner, losses, faults>>

-----------------------------------------------------------------------------
(* The LLM agent: one response per delivery of a request.                  *)

\* Mutant: a request that cannot be classified gets no response.
RespondNever(t) ==
    /\ pos["req"][t] < reqEnd[t]
    /\ pos' = [pos EXCEPT !["req"][t] = @ + 1]
    /\ UNCHANGED <<row, rawEnd, reqEnd, respLog, off, owner, attempts, handler,
                   losses, faults>>

Respond(t) ==
    /\ pos["req"][t] < reqEnd[t]
    /\ \E a \in LlmAnswers : respLog' = [respLog EXCEPT ![t] = Append(@, a)]
    /\ pos' = [pos EXCEPT !["req"][t] = @ + 1]
    /\ UNCHANGED <<row, rawEnd, reqEnd, off, owner, attempts, handler, losses,
                   faults>>

\* The agent's send fails, at once (until skipped) or in its ignored future.
ResponseLost(t) ==
    /\ pos["req"][t] < reqEnd[t]
    /\ Fault
    /\ pos' = [pos EXCEPT !["req"][t] = @ + 1]
    /\ losses' = losses \cup {<<t, "resp">>}
    /\ UNCHANGED <<row, rawEnd, reqEnd, respLog, off, owner, attempts, handler>>

-----------------------------------------------------------------------------
(* The environment.                                                        *)

\* An upstream system publishes the raw event, possibly again.
Upstream(t) ==
    /\ rawEnd[t] < MaxCopies
    /\ rawEnd' = [rawEnd EXCEPT ![t] = @ + 1]
    /\ UNCHANGED <<row, reqEnd, respLog, pos, off, owner, attempts, handler,
                   losses, faults>>

\* Mutant: auto-commit of what was polled, before it is processed.
CommitOffsetEarly(c, t) ==
    /\ off[c][t] < EndOf(c, t)
    /\ off' = [off EXCEPT ![c][t] = EndOf(c, t)]
    /\ UNCHANGED <<row, rawEnd, reqEnd, respLog, pos, owner, attempts, handler,
                   losses, faults>>

CommitOffset(c, t) ==
    /\ off[c][t] < pos[c][t]
    /\ off' = [off EXCEPT ![c][t] = pos[c][t]]
    /\ UNCHANGED <<row, rawEnd, reqEnd, respLog, pos, owner, attempts, handler,
                   losses, faults>>

\* The partition is assigned (again) to w, from the committed offset.  The
\* instance that held it goes on with the call it is in.
Rebalance(c, t, w) ==
    /\ Fault
    /\ owner' = [owner EXCEPT ![c][t] = w]
    /\ pos' = [pos EXCEPT ![c][t] = off[c][t]]
    /\ attempts' = [attempts EXCEPT ![c][t] = 0]
    /\ handler' = [handler EXCEPT ![c] =
          [v \in Workers |->
             IF @[v].tx = t THEN [@[v] EXCEPT !.fenced = TRUE] ELSE @[v]]]
    /\ UNCHANGED <<row, rawEnd, reqEnd, respLog, off, losses>>

AgentRestart(t) ==
    /\ Fault
    /\ off["req"][t] < pos["req"][t]
    /\ pos' = [pos EXCEPT !["req"][t] = off["req"][t]]
    /\ UNCHANGED <<row, rawEnd, reqEnd, respLog, off, owner, attempts, handler,
                   losses>>

\* A statement or the commit of the call fails.
HandlerFails(c, w) ==
    /\ Fault
    /\ handler[c][w].pc # "idle"
    /\ Nack(c, w)

\* The instance dies and restarts; open database transactions are rolled back.
Crash(w) ==
    /\ Fault
    /\ handler' = [c \in CoreTopics |-> [handler[c] EXCEPT ![w] = Idle]]
    /\ pos' = [c \in Topics |-> [t \in Tx |->
                 IF c \in CoreTopics /\ owner[c][t] = w THEN off[c][t]
                                                        ELSE pos[c][t]]]
    /\ attempts' = [c \in CoreTopics |-> [t \in Tx |->
                      IF owner[c][t] = w THEN 0 ELSE attempts[c][t]]]
    /\ UNCHANGED <<row, rawEnd, reqEnd, respLog, off, owner, losses>>

-----------------------------------------------------------------------------
RawStep(w) ==
    \/ \E t \in Tx : SkipDuplicate(w, t) \/ BeginRaw(w, t)
    \/ SaveMlClassifying(w) \/ AcceptMl(w) \/ ClassifierFails(w)
    \/ DeferToLlm(w) \/ PublishRequest(w) \/ PublishThrows(w)
    \/ CommitRaw(w) \/ CommitConflict(w)

RespStep(w) ==
    \/ \E t \in Tx : DropResponse(w, t) \/ LoadForResponse(w, t)
    \/ CommitResponse(w)

Environment ==
    \/ \E t \in Tx : Upstream(t) \/ ResponseLost(t) \/ AgentRestart(t)
    \/ \E c \in Topics, t \in Tx : CommitOffset(c, t)
    \/ \E c \in CoreTopics, t \in Tx, w \in Workers : Rebalance(c, t, w)
    \/ \E c \in CoreTopics, w \in Workers : HandlerFails(c, w)
    \/ \E w \in Workers : RequestLost(w) \/ Crash(w)

Next ==
    \/ \E w \in Workers : RawStep(w) \/ RespStep(w)
    \/ \E t \in Tx : Respond(t)
    \/ Environment

Spec == Init /\ [][Next]_vars

\* Listener threads and the agent keep running: Kafka polls again after every
\* call, and every call is bounded by the client timeouts.
Fairness ==
    /\ \A w \in Workers : WF_vars(RawStep(w)) /\ WF_vars(RespStep(w))
    /\ \A t \in Tx : WF_vars(Respond(t))

FairSpec == Spec /\ Fairness

-----------------------------------------------------------------------------
(* Safety.                                                                 *)

\* What a query can see.  The states a handler passes through inside its
\* database transaction never show, an ML classification is visible only at
\* or above the threshold, a pending row carries the ML guess below it, and a
\* failed row is never dated (handleRawTransaction, both save paths, commit).
RowsAreSettled ==
    \A t \in Tx : row[t] # Null =>
        LET r == row[t] IN
        \/ /\ r.status = "CLASSIFIED" /\ r.category # Null /\ r.dated
           /\ \/ r.source = "LLM"
              \/ r.source = "ML" /\ r.confidence >= Threshold
        \/ /\ r.status \in {"LLM_CLASSIFYING", "FAILED"} /\ ~r.dated
           /\ r.source = "ML" /\ r.confidence < Threshold
        \/ r = Unclassified("FAILED")

\* The delivery that settles a transaction by the ML classifier has asked
\* nobody.  What other deliveries of it asked was asked at the price of a
\* fault each, and nothing was asked at all unless the classifier was
\* restarted in between and decides the transaction otherwise now: only then
\* can an answer come to overwrite the row (handleRawTransaction against
\* handleLlmClassifierResponse, which would overwrite it without a test).
MlDecisionsAreFinal ==
    \A t \in Tx :
        row[t] # Null /\ row[t].status = "CLASSIFIED" /\ row[t].source = "ML" =>
            /\ reqEnd[t] <= faults
            /\ t \notin Disputed => reqEnd[t] = 0 /\ respLog[t] = <<>>

\* A row labelled by the LLM shows one answer the agent gave for that very
\* transaction: category and confidence of the same response, never a blend
\* of two deliveries or of an answer and the ML guess.
LlmLabelsAreAnswers ==
    \A t \in Tx : row[t] # Null /\ row[t].source = "LLM" =>
            \E i \in 1 .. Len(respLog[t]) :
                row[t] = Labelled("CLASSIFIED", "LLM", respLog[t][i], TRUE)

\* "No loss of transactions": once a raw event's offset is committed the
\* transaction is in the database, or the container gave the record up after
\* MaxAttempts deliveries.
CommittedOffsetsAreRecorded ==
    \A t \in Tx : off["raw"][t] > 0 => row[t] # Null \/ <<t, "raw">> \in losses

HasWork(t) == pos["req"][t] < reqEnd[t] \/ pos["resp"][t] < Len(respLog[t])
Pending(t) == row[t] # Null /\ row[t].status = "LLM_CLASSIFYING"
Lossless(t) == \A l \in Losses : <<t, l>> \notin losses

\* A pending row is never orphaned silently: the request or its answer is
\* still to be processed, unless a loss has been suffered.  The code has no
\* timer for LLM_CLASSIFYING, so this is all that can bring it forward.
PendingHasWork ==
    \A t \in Tx : Pending(t) /\ Lossless(t) => HasWork(t)

\* The handler's existsById keeps duplicates of the raw event from asking the
\* LLM again: every request after the first is the price of one fault.
RequestsAreBounded == \A t \in Tx : reqEnd[t] <= 1 + faults

\* With one instance a classified transaction stays classified: only a later
\* LLM answer may relabel it (two instances can break this: SaveMlClassifying
\* overwrites a row committed since existsById).
ClassifiedStaysClassified ==
    [][\A t \in Tx : row[t] # Null /\ row[t].status = "CLASSIFIED" =>
             \/ row'[t] = row[t]
             \/ row'[t].status = "CLASSIFIED" /\ row'[t].source = "LLM"]_row

-----------------------------------------------------------------------------
(* What a transaction promises to a reader: TransactionLifecycle.          *)

StateOf(r) == IF r = Null                           THEN "absent"
              ELSE IF r.status = "LLM_CLASSIFYING" THEN "pending"
              ELSE IF r.status = "FAILED"          THEN "failed"
              ELSE IF r.source = "ML"              THEN "ml"
              ELSE "llm"

Lifecycle == INSTANCE TransactionLifecycle WITH
                 state <- [t \in Tx |-> StateOf(row[t])]
LifecycleSpec == Lifecycle!Spec

-----------------------------------------------------------------------------
(* Liveness.                                                               *)

\* Every published raw event ends up as a row, or is given up by the container.
RawEventsAreRecorded ==
    \A t \in Tx : rawEnd[t] > 0 ~> (row[t] # Null \/ <<t, "raw">> \in losses)

\* A pending row is eventually answered, unless a loss has been suffered.
PendingIsAnswered ==
    \A t \in Tx : Pending(t) ~> (~Pending(t) \/ ~Lossless(t))

-----------------------------------------------------------------------------
(* What the documentation says and the code does not do.                   *)

\* docs/services/core-service.md: the category, source and confidence of a
\* CLASSIFIED transaction are final.
ClassifiedIsFinal ==
    [][\A t \in Tx : row[t] # Null /\ row[t].status = "CLASSIFIED" =>
          row'[t] = row[t]]_row

\* docs/services/core-service.md: an error of the classifier makes the
\* transaction RETRYING; FAILED follows the retries, or a timeout of the LLM.
FailedOnlyAfterRetries ==
    [][\A t \in Tx : row'[t] # Null /\ row'[t].status = "FAILED" =>
          /\ row[t] # Null
          /\ row[t].status \in {"RETRYING", "LLM_CLASSIFYING", "FAILED"}]_row

\* docs/services/core-service.md: LLM_CLASSIFYING is left for CLASSIFIED on an
\* answer and for FAILED on a timeout: it does not last.
PendingAlwaysEnds ==
    \A t \in Tx : Pending(t) ~> ~Pending(t)
=============================================================================
