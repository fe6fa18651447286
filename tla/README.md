# finSense: formal models and proofs

TLA+ modules for the parts of finSense whose correctness depends on the order
of things: the classification pipeline of the core service with its users and
accounts and the LLM agent behind it, the recommendation flow between the core
service and the coach agent, the rule engine of the classifier service, and the
three tools: the transaction tester, the prompt lab and the training of the
model the classifier service loads. TLC checks them on small instances; TLAPS
proves every safety property they check for every value of the constants.

## The system

| Component | State it keeps | Operations | Interacts with |
|---|---|---|---|
| core-service, pipeline (`TransactionService`) | `core.transactions` | `handleRawTransaction`, `handleLlmClassifierResponse` | consumes `raw-transactions` and `llm-classifier-responses`, calls the classifier over HTTP, publishes `llm-classifier-requests` |
| core-service, recommendations (`RecommendationService`, `RecommendationScheduler`) | `recommendations.recommendations` | `createRecommendationRequest`, queries, the nightly schedule | publishes `coach-requests`; the coach agent updates its row in the shared database |
| core-service, users (`UserBootstrapService`) | users, accounts | `ensureUserAndAccount` | called inside both of the above |
| transaction-classifier-agent | none | `ClassificationService.process`: up to N LLM attempts, then a fallback | `llm-classifier-requests` to `llm-classifier-responses` |
| financial-coach-agent | the recommendation rows | `CoachService.process`; analytics queries; LLM with tools | `coach-requests` to `coach-responses`, and the database |
| classifier-service | the rule set, or an ONNX model, both read at start-up | `RuleEngine.classify`, `OnnxInferenceEngine.predict` | answers the core's HTTP call |
| transaction-tester | a browser session: remembered users, the explorer's rows, a summary | Preview, Run (Dry), Run with verification, Load transactions | publishes `raw-transactions`, pages through the core's REST API |
| prompt-lab | a browser session: the last 30 results | Run prompt, with or without tools | an OpenAI-style API |
| ml-training | a data directory, an artifact directory | `export_dataset`, `train`, `evaluate` | the classifier service reads the artifacts when it starts |
| notify-service | - | - | no source yet |

All Kafka consumers are Spring listeners with the default error handler: at
least once, a throwing record is delivered again a bounded number of times and
then skipped. Every listener method of the core and of the coach is one
database transaction; no Kafka send is part of it, and the future of a send is
ignored. Entities have no `@Version` and no `@DynamicUpdate`: a save writes all
columns, and `save` of an entity with an assigned id is a merge.

What is hard here: sends that overtake commits, answers to a delivery that has
been rolled back, duplicates, two instances in the same record after a
rebalance, steps that fail half way, and waits nothing ends. PROJECT.json lists
each hazard with its line and the properties that watch it.

What makes each part correct:

* pipeline: intermediate states are never visible; no acknowledged transaction
  is lost; an ML decision is final as long as the classifier does not change its
  mind; an LLM label is one answer given for that
  transaction; the LLM is not asked again by duplicates; a pending row still
  has something that will move it on;
* recommendations: a row is one outcome whole, it was announced, its final
  status does not change, the work a request costs is bounded, and it ends;
* classifier agent: one answer per delivery, a bounded number of LLM calls;
* rules: from an accepted file of finite numbers, confidences stay in range and
  are monotone in the support, and the category is the best one;
* users: one user and one account per id, and the race for them costs a retry
  at most; scheduler: one user's failure does not stop the others;
* tester: a batch is what the page announced, a page walk misses nothing, the
  verdict accounts for every event that was generated, and a verification ends;
* prompt lab: no step of the trace shows what came after it, every tool call has its reply, a
  result counts what the run cost;
* training: rows keep their shares, held-out merchants stay out of training,
  and no answer is given under a wrong label, whatever files are left behind.

## Modules

| Module | Models |
|---|---|
| `TransactionLifecycle` | abstract: what the REST API shows of one transaction over time |
| `TransactionPipeline` | both handlers of `TransactionService`, the listener container, topics, offsets, failures; the agent as one step |
| `MCTransactionPipeline` | instances for TLC |
| `TransactionPipelineProofs` | types, the safety invariants and, for one instance, the lifecycle, proved |
| `RecommendationLifecycle` | abstract: what a user polling a recommendation sees |
| `CoachFlow` | `createRecommendationRequest` and `CoachService.process`, composed through `coach-requests`, with the database they share |
| `MCCoachFlow` | instances for TLC |
| `CoachFlowProofs` | types, safety and, for one instance, the lifecycle, proved |
| `JavaDoubles` | Java's `double` with NaN and the infinities, as far as rules can tell them apart |
| `RulesLoader` | what makes a rules file load, and what it then means |
| `RuleEngine` | start-up and `RuleEngine.classify`, the keyword loop a step per category |
| `MCRuleEngine` | rules files for TLC |
| `RuleEngineProofs` | all properties of the rule engine, proved |
| `CoreStore` | the tables, topics and losses that the end-to-end modules share |
| `UserBootstrap` | `handleRawTransaction` again, for users and accounts and their race |
| `UserBootstrapProofs` | the invariant of `UserBootstrap` and its steps: lemmas for the two compositions |
| `ClassifierAgent` | `ClassificationService.process`: attempts, timed-out calls, back-off, both publishes, redelivery |
| `LabelledBatch` | `UserBootstrap` composed with `ClassifierAgent` |
| `LabelledBatchProofs` | its safety properties, proved |
| `PythonNumbers` | Python's `round`, `max` and `min` |
| `TransactionGenerator` | the batches `generate_transactions` can produce |
| `TransactionTester` | a session of the tester: preview, run, publish, verify, explore |
| `VerifiedBatch` | `UserBootstrap` composed with `TransactionTester` |
| `VerifiedBatchProofs` | its safety properties, proved |
| `PromptLab` | a session of the prompt lab, with the loop of tool calls |
| `PromptLabProofs` | the trace, the replies, the cost and the end of a run, proved |
| `TrainingData` | rows per category and merchant groups of a split |
| `ModelArtifacts` | export, train, evaluate and the classifier service over the files they share |
| `ModelArtifactsProofs` | its labels, its held-out merchants and its shares, proved |
| `MCLabelledBatch`, `MCVerifiedBatch`, `MCPromptLab`, `MCModelArtifacts` | instances for TLC |

### TransactionPipeline

`row` is the committed table. A handler call is a record in `handler`: the step
it has reached (`pc`), the managed entity, whether its flush will INSERT or
UPDATE, and whether its partition has been taken away (`fenced`). The call is
split where another actor can come between:

| Step | Code |
|---|---|
| `SkipDuplicate`, `BeginRaw` | `existsById`, `ensureUserAndAccount` |
| `SaveMlClassifying` | `save`: the merge SELECTs and decides on INSERT or UPDATE |
| `AcceptMl`, `ClassifierFails`, `DeferToLlm` | the HTTP answer and the three branches; the history query flushes the pending row and takes its lock |
| `PublishRequest`, `RequestLost`, `PublishThrows` | the send: accepted, lost later, or thrown at once and caught |
| `CommitRaw`, `CommitConflict` | the commit with its full-row write, or the primary-key conflict |
| `DropResponse`, `LoadForResponse`, `CommitResponse` | the response handler |

A topic is a log per transaction (events of one transaction have its id as
their key, so they share a partition) with a position and a committed offset;
`Crash` and `Rebalance` return the position to the offset. A rebalance leaves
the old instance in its call, which may still commit: that is how two instances
meet in one record. `losses` is a history variable: what was given up, by the
code or the container (dropped response, skipped record) or by a lost send.
Properties that hold only without a loss say so by it.

Abstracted: payloads and history, timestamps (only whether `classifiedAt` is
set), request ids (the core never reads them), users and accounts (a failure
there is a `HandlerFails` step; `UserBootstrap` has them), the rounding of the
confidence by the REAL column. The classifier is stateless, but it reads its
rules or its model when it starts and may be restarted with others between two
deliveries of an event: it gives any answer of `MlAnswers[t]` to every call for
transaction `t`. `Disputed` are the transactions it can decide both ways. (A NaN
confidence, from a rules file that says so, is not below nor above anything: the core
defers it like a low one, and it is represented by one.) The agent gives any answer of `LlmAnswers` to every
delivery of a request, or its answer is lost (`ClassifierAgent` has its steps).

### CoachFlow

`creating` is the core transaction of a request (new, sent, accepted,
rejected): the send precedes the commit. The agents' `handler`s go through
`LoadMissing` / `SkipTerminal` / `Load`, then `AnswerNoData`, `AnswerFallback`
(no API key on that instance) or up to `MaxLlmAttempts` of `LlmSucceeds` /
`LlmFails`, then `Announce` (the response is out) and `Commit` (the row).
`calls` counts LLM calls. The advice is kept as its origin. Requests are keyed
by user, so a user's requests are one log.

### RulesLoader and RuleEngine

Confidences are integers with `Unit` standing for 1.0; the file's values are
hundredths, or NaN, or infinite (`JavaDoubles`): validateConfidence refuses what
is outside a range, and NaN is outside of none. A text is the set of words it contains, which is all
`countKeywordHits` asks of it; normalisation is a function from the file's
spellings to words. The rounding of the Java doubles is not modelled. `KeywordRules` merges the entries of a category and drops blanks and
repetitions, `MccRule` lets the later of two entries for a code win,
`FirstOccurrence` gives the order of the `LinkedHashSet`.

### UserBootstrap, ClassifierAgent and LabelledBatch

`UserBootstrap` follows a handler through the two lookups of
`ensureUserAndAccount` (`FindUser`, `FindAccount`) to the moment its INSERTs
reach the database: at the history query before a request (`Flush`) or at the
commit (`CommitRaw`). A flushed INSERT holds the unique keys of `core.users` and
`core.accounts` against other handlers (`Unlocked`); once one is committed, the
others fail (`Conflict`), roll back and are delivered again (`Fails`). Events
have their transaction as key, so those of one user lie in several partitions
and several threads get them at once. Positions and rebalances are not repeated
here: `TransactionPipeline` has them.

`ClassifierAgent` has one step per thing that can happen to
`ClassificationService.process`: the call returns, fails or times out (it then
goes on by itself: `running`), the publish works, throws inside the attempt or
is lost later, the back-off ends or is interrupted, the fallback is published or
throws out of `process`. An unconfigured agent goes to the fallback at once. Its
container keeps `position` and the `committed` offset to which `AgentCrash`
returns. `delivered` is a history variable.

The two meet in the request and response topics. `lost` plays the part of
`losses`: `"event"`, `"request"`, `"response"`, or `"dropped"` for a response
that met no row.

### TransactionGenerator, TransactionTester and VerifiedBatch

`TransactionGenerator` has no variables: `Valid` is what `_validate_config` lets
through, `Targets` the profile counts with their rounding and clamp, and
`Batches` the set of all batches the random generator can end up with.
`AsConfigured` states what the page promises of one.

`TransactionTester` is the session. A click reruns the page's script from the
top, so a script is a sequence of steps from `ui = "idle"` back to it (`Leave`
drops its locals); `known` (generated users), `shown` and `summary` survive. A
page walk is `walk`: one `FetchPage` per request, while rows are inserted and
labelled. The API sorts by `transactionDate` only, so `Pages` gives any set of
rows with the right number of each date. In `summary`, `found` and `missing` are
the code's, `generated` the batch they have to account for; `had` and `cut` of a
walk are history too. `RequestFails` and `EmptyBody` are the
two ways a request goes wrong that the code tells apart. A send that timed out
after 30 s may be delivered afterwards (`LateDelivery`), until the `flush()` at
the end of the publishing.

`VerifiedBatch` puts it against `UserBootstrap`; the LLM agent is the one step
`Answer` there. The explorer's typed-in user and its client-side filters are
left out: they only narrow what is shown of the rows a walk returned.

### PromptLab

`run` holds the locals of `DeepSeekClient.run`. `messages` is one list that all
payloads refer to; a step with tool calls takes its copy when the step ends
(`StepEnds`), the one with the final answer keeps the payload, to which nothing
is appended any more, and `sent` and `received` are what went over the wire. The run
ends in the many places it can: no key or no dataset (`Click`), a failed call, a
response without a message or with a token count that is no number, arguments
that are no JSON object (`ArgumentsBroken`, outside the `try` that answers a
failing tool), the iteration limit.

### TrainingData and ModelArtifacts

Ratios and shares are in hundredths. `RealisticCounts` is the largest-remainder
rule: the whole parts (`Floor`), a row each for the largest remainders (`Lucky`)
and, where the shares are below one, a random rest (`AtRandom`); `Pool` the split of a category's merchant groups,
seeded per category and not per split. The remainders are floats in the code:
where two are equal exactly, rounding errors order them, so ties break either
way in the model. (For the catalog's shares and totals up to 20 000 the float
computation was compared with the exact one; they differ in ties only.)

`ModelArtifacts` is about files. Export, train and evaluate are run by hand one
after the other, write in place and file by file, and may die in between,
leaving a partial file; the classifier service reads the labels when it loads
(`Load`) and the model a moment later (`CreateSession`), and is restarted at any
time. `cfg` and `seen` in a file are what it was made from, which the properties
compare and the code does not.

## Runs

| Run | Instance | Shows |
|---|---|---|
| `pipeline_one` | 2 transactions (one decided both ways by a restarted classifier, one at the threshold), 1 instance, 2 copies, 2 attempts, 1 fault, fair | `CommittedOffsetsAreRecorded`, `RequestsAreBounded`, `ClassifiedStaysClassified`, `RawEventsAreRecorded`, `PendingIsAnswered`, and that the pipeline implements `TransactionLifecycle` |
| `pipeline_two` | 2 transactions as above, 2 instances, 1 fault, 1 attempt | `TypeOK`, `RowsAreSettled`, `MlDecisionsAreFinal`, `LlmLabelsAreAnswers`, `PendingHasWork` with two instances in one record |
| `coach_one` | 2 requests of one user, 1 instance, 2 faults | `TypeOK`, `AcknowledgedIsServed`, `WorkIsBounded`, and that the flow implements `RecommendationLifecycle` |
| `coach_two` | 1 request, 2 instances of which one has a key, 2 faults, fair | `RowIsWhole`, `TerminalIsAnnounced`, `PendingIsServed` |
| `rule_engine` | rules files with every check of the loader crossed, NaN and Infinity in every place, all texts over 3 words | `TypeOK`, `ConfidenceInRange`, `SupportNeverHurts`, `KeywordDecisionIsBest` |
| `labelled_batch` | 2 transactions of a new user, 2 listener threads, 1 agent with or without a key, 2 attempts and 2 deliveries of it, 1 fault, fair | `TypeOK`, `OneAccountPerUser`, `RacesCostOneDelivery`, `DoneIsAnswered`, `DeliveryIsBounded`, `PendingIsLabelled` |
| `verified_batch` | batches of 2 events (one user, two users), 8 configurations to preview or refuse, 1 listener thread, pages of one row, 2 polls, 1 explorer load, 1 fault, fair | `TypeOK`, `BatchIsAsConfigured`, `WalkMissesNothing`, `VerdictIsSound`, `SentUsersAreKnown`, `VerificationEnds` |
| `prompt_lab` | 3 runs, 3 iterations, 2 results kept, 6 dataset files, 6 responses | `TraceStopsAtItsStep`, `RepliesFollowCalls`, `ResultIsWhole` |
| `model_artifacts` | 3 categories, one with three merchant groups, 4 configurations, 2 exports, 2 trainings, 2 deaths | `AnswersAreLabelled`, `NoMerchantLeaks`, `SharesAreKept` |

Runs that show where the code departs from its documentation:

| Run | Shows |
|---|---|
| `pipeline_final` | `ClassifiedIsFinal` fails: a repeated delivery of a request gives a second answer, which replaces the label of a CLASSIFIED transaction |
| `pipeline_stuck` | `PendingAlwaysEnds` fails without any fault: the response overtakes the commit, is dropped, and nothing ends LLM_CLASSIFYING |
| `coach_stuck` | `PendingAlwaysEnds` fails without any fault: the agent reads the request before the row commits; the row stays PENDING |

The bounds, and why they are enough to meet the interesting cases: two
instances are what one rebalance can bring into one record; one fault is a
crash, a rebalance, a failed statement or a lost send at any step, two let one
follow another (a crash in the redelivery); two copies are a duplicate;
`MaxAttempts` 2 (the container allows ten) has a retry, and 1 in `pipeline_two` a
skip at once. One of the two transactions may be answered below the threshold or
at it, so that a restarted classifier can decide its redelivery the other way;
the other is always at the threshold.
Two transactions are what a race for one new user needs; a third would
only queue behind them. Pages of one row make every walk of two rows three
requests long, so that rows can be inserted before, between and behind its
pages. Three iterations are one tool round that leads to another and the one
that gives up; three runs overflow a history of two. Two exports and two
trainings are what it takes to pair files of different origin, and the second
death lets a training fail on what a failed export left. The systems may stop,
when everything has been processed, so deadlock is not checked.

What some of the properties do not say:

* `MlDecisionsAreFinal` and `TransactionLifecycle` except the transactions in
  `Disputed`. There is an execution behind the exception: a delivery asks the
  LLM and is lost in a crash, the redelivery meets a classifier that has been
  restarted with other rules and settles the transaction, and the LLM's answer
  then replaces that decision (`ml` to `llm`). Without a fault before it, no ML
  decision is put to the LLM, disputed or not. `ClassifiedIsFinal` is what the
  document says of it.
* `SupportNeverHurts` and the range in `ConfidenceInRange` are about files of
  finite numbers; for the others see the disagreements below.
* `VerdictIsSound` says that a found transaction is in the core, not that a
  missing one is not: the last poll may have been too early, or cut short by an
  empty body, which `WalkMissesNothing` lets hide the rows behind it.
* `TraceStopsAtItsStep` does not say that a step shows its request: it does not
  (see the disagreements below).
* `NoMerchantLeaks` compares a model with files of its own configuration; what a
  mixture of two exports leaks is among the disagreements below.
* `WalkMissesNothing` excepts rows that share a date with another row of the
  user: the query does not order them, and a walk can miss one even while
  nothing is inserted. It also excepts what an empty body hides: rows behind the
  pages read.
* `AnswersAreLabelled` excepts a model trained on a CSV file whose last row was
  cut in its label. Without that exception there is a counterexample: an export
  dies in the middle of a row, a training on what it left has one wrong label,
  and a service that had read the old labels then reads the new model, which has
  as many columns. The exact-label check of the loader stops such a model at the
  next start; the evaluation looks at the number of columns only.

With two instances less holds. `ClassifiedStaysClassified` and the refinement
of `TransactionLifecycle` need one instance: `SaveMlClassifying` of a second
one can overwrite a committed row, and store FAILED over CLASSIFIED. Likewise
`RecommendationLifecycle`: a fenced coach still commits, so a final status can
change once, although ".ai/CONTEXT.md" asks for idempotent handlers. The
deployment runs one instance of each; `pipeline_two` and `coach_two` say what
remains true beyond that.

### Fairness

Weak fairness of the listener threads (`RawStep`, `RespStep`, `Step`), of the
agent (`Respond`) and of the end of a started core transaction
(`CommitRequest`): a listener polls again after each call, and every call is
bounded, by the timeouts of the HTTP client and of the LLM futures and by the
number of attempts. Nothing is assumed of failures, of upstream or of offset
commits. No strong fairness is used.

`LabelledBatch` assumes the same of the listener threads (`Handle`,
`ApplyResponse`) and of the agent's steps together (`Process`): something
happens to a call, no particular answer has to. `VerifiedBatch` assumes it of
the tester's running script alone (sends and requests have timeouts) and nothing
of the core: a verification has to end even when nothing arrives. `PromptLab`
and `ModelArtifacts` are checked for safety only: whether a person clicks or
trains is not the code's business.

## Proofs

Every theorem is `Spec => []P` (or the refinement) for all values of the
constants that meet the named assumptions: any number of transactions, users,
instances, threads, attempts, copies and faults. Each rests on an inductive
invariant; those that go beyond the property were checked by TLC on the runs'
instances before they were proved.

| Module | Theorems |
|---|---|
| `TransactionPipelineProofs` | `TypeCorrect`, `SettledRows`, `FinalMlDecisions`, `LlmLabels`, `RecordedOffsets`, `BoundedRequests`, `PendingRows`; for one instance `StaysClassified` and `OneInstanceLifecycle` |
| `CoachFlowProofs` | `TypeCorrect`, `WholeRows`, `AnnouncedStatuses`, `AcknowledgedRequests`, `BoundedWork`; for one instance `OneInstanceLifecycle` |
| `RuleEngineProofs` | `TypeCorrect`, `RangeOfConfidence`, `BestKeywordDecision`, `SupportIsMonotone` |
| `LabelledBatchProofs` | `TypeCorrect`, `OneAccount`, `OneRetry`, `EveryRequestAnswered`, `OneAnswerPerDelivery` |
| `VerifiedBatchProofs` | `TypeCorrect`, `BatchAsAnnounced`, `SoundVerdict`, `KnownUsers`, `NothingMissed` |
| `PromptLabProofs` | `TraceIsTrue`, `EveryCallIsReplied`, `WholeResults` |
| `ModelArtifactsProofs` | `LabelledAnswers`, `NoLeaks`, `SharesKept` |

### The pipeline

* `SettledRows`. `RowsAreSettled` is not inductive: it needs `RawEntities`, what
  a raw handler's entity can be at each step (an accepted entity reaches the
  threshold, a deferred one does not), and `RespEntities` for the other handler.
* `FinalMlDecisions`. A row settled by the ML classifier has left unspent what
  its delivery could have asked (`Unspent`, below: a request in advance), so
  every request there is was paid for by a fault; and only a transaction the
  classifier may put below the threshold is ever sent (`OnlyUnsureAreSent`,
  `Unsure`). Without two answers that disagree there is no such request, and
  without a request no answer that could replace the decision.
* `LlmLabels`. The entity a response handler holds is an answer in the log
  (`IsAnswer`), and the log only grows.
* `RecordedOffsets`. The position passes a raw record only with its row
  committed or with the loss recorded (`PassedIsRecorded`), and the offset never
  passes the position.
* `BoundedRequests`. Counting requests against faults is not inductive, because
  requests are sent before the commit that would stop the next one. `Budget`
  pays in advance: the requests sent, the calls in flight that may still send
  (`Asking`, a finite set), and one in advance (`Unspent`) are together at most
  one more than the faults. The advance is there for a record no call holds and
  no row excludes (`Vacant`), and stays with a row the ML classifier has settled
  (`SettledByMl`). A delivery moves it from the record to the call, which spends
  it on a request or leaves it with its row; only a fault makes a second one.
* `PendingRows`. `Work` adds to the property the calls that have sent but not
  committed: their transaction too is awaited (`Awaits`) by a request, an answer
  or a recorded loss. A response handler cannot consume the answer before the
  row is there without recording it as dropped, and after it is there the lock
  of the raw call keeps it waiting. The positions and their calls (`Bounds`) say
  that what is behind a position is done.
* `StaysClassified` and `OneInstanceLifecycle` assume `Alone`, one instance, as
  the deployment has. `Solo` says what that gives: a raw call past the duplicate
  check finds no row of its transaction until it commits one, and each commit is
  a step of `TransactionLifecycle` (`LifecycleStep`). With two instances both
  are false, as the section on the runs says.

The steps are grouped by what they do to the row, the logs and the handlers
(`RawMove`, `RowSteps`, `LogSteps`, `RespSteps`), so that each part of the
invariant is proved over a few shapes of step instead of over all actions.

### The recommendation flow

`Safe` is the invariant: what a handler's entity may be (a loaded one is
pending, a decided one is one call's outcome, a published one is announced or
its send was lost), that a row is whole (`Rows`), that a position passes a
request only when it is served (`Positions`), and that a call that is not fenced
is at its position (`Holders`). `AnnouncedStatuses` holds although a fenced agent still
commits, since it too has announced its own entity. `BoundedWork` has the same
shape as the request budget of the pipeline: attempts a call may still make, the
notification it still owes, and the vacant slot of the next delivery are paid
in advance (`Budget`, with `SentOnce`: the core sends a request once). In
`OneInstanceLifecycle` a call of the only instance holds the row it found
pending (`WorksOnPending`), so the commit gives it one final status.

### The rule engine

All four properties hold for every rules file, text and category set, from
`RulesAssumption`, `EngineAssumption` and `DoublesAssumption`; `SupportIsMonotone`
and the range need the file to be finite (`Finite`), and what the loader's
comparisons give of a file is stated twice, once for any (`Checked`) and once
for a finite one (`Sound`). For any file a confidence is in range or NaN
(`InRange`). The inductive invariant adds the loop
invariant of `classify` (`IsLeader`: the best candidate leads the categories
passed so far) and the origin of the answers (`AnswerInv`). `LeaderPasses` is
the argument about the tie-break: a higher confidence means more matches because
the cap is monotone, and among equal confidences the matches decide. That the
largest number of contradicting matches exists follows from the
well-foundedness of strict inclusion on finite sets.

### Users, accounts and the agent

`UserBootstrapProofs` has the invariant of the race (`CoreInv`): what a thread
has seen of the user and the account stays true while others commit, of two
threads that would insert the same only one holds the key, and a thread that
lost the race has one failed delivery and then sees both. It is proved against
the core's actions alone, so that both compositions use it. `Answers` counts
what the agent has answered: until it is done, the delivery under way has given
no answer yet, which is what each of the five ways out of `process` needs.

### The tester

* `BatchAsAnnounced` is about the generator for every valid configuration: the
  rounding and the clamp never select more than the total.
* `SoundVerdict` and `KnownUsers`: `TesterInv` says at every step of the script
  what the remembered users, the polls and the walk may hold; nothing that was
  found is taken back, because rows are never deleted, and what a poll has
  matched was generated (`Matches`), so found and missing make up the batch.
* `NothingMissed` is the argument about offset paging under insertion. `Reached`
  says of a row that was there when the walk began that it has been returned or
  lies behind the rows the walk has passed: an insertion moves it back, never
  forward. So what an empty body hides lies behind it. `PagePrefix` shows, by induction on the number of newer rows, that a
  page has the rows of its slots, although the query orders by date only.

### The prompt lab

`Lab` describes the list that grows while payloads refer to it: the messages of
a run are the last request followed by the assistant's message and a reply for
each call made so far (`Replying`), and every step of the trace links one
request to the next (`Links`). It holds for any list of calls and any limit;
the run of TLC has three iterations.

`WholeResults` adds the cost (`Metered`: the running total is the sum over what
was received). The sum is a recursive function, and the library's induction
theorems, which take an operator as a parameter, cannot be used with the
installed provers. The induction is made instead from the least element of a
set of naturals (`LeastNatural`, from `WFMin`, which takes a set): the least
length without a sum (`SumExists`), the least index at which two sums differ
(`SumIsUnique`). `PagePrefix` of the tester is proved the same way.

### The training artifacts

The invariant (`IInv`) says what every file and every program holds, whoever
wrote it and when: the rows of a CSV file come from the merchant pools of its
split (`CsvOk`), a model that can be read has seen the training pools only and
its columns are one of the `Orders`, the ascending orders of a set of labels
(`ModelOk`); the exporter's plan is one of the plans of its configuration
(`PlanOk`). A file is overwritten by one of its own kind (`OneCsv`,
`OneArtifact`), and a partial one keeps what is said of a whole one
(`PartIsOk`), so deaths and mixtures of runs do no harm. From there:

* `LabelledAnswers`. The service compares numbers of columns only. Two orders
  are equal when their label sets are, and a set of labels as large as all of
  them is all of them (`SameOrder`). That a set of numbers has one ascending
  order to begin with is `SomeAscending`: the rank of a member is an injection
  into 1 .. n, hence takes every value. (`Classes` chooses that order instead of
  calling TLC's `SortSeq`, which tlapm does not know.)
* `NoLeaks`. Whatever the ratio rounds to, one group at least is held out and
  one at least is not (`SomeHeldOut`), and a shuffle that lists all groups in as
  many places lists none twice, so its two parts are disjoint
  (`PoolsAreDisjoint`). The file compared with the model may be of another
  export, as long as its configuration is the same: the shuffle is a function of
  the seed.
* `SharesKept`. The whole parts leave as many rows over as the remainders make
  up, in hundredths (`WholeParts`); that is less than one row per category, so
  where the shares make up the whole the largest remainders take all of it. A
  category with no remainder at all never gets a row more: nothing outside the
  lucky ones would have a remainder, and those inside could not make up what
  they are given (`RowsAreClose`).

`SumOf` is a fold of the community modules. Its recursion is shown to have a
solution (`FoldExists`), and from its equation (`SumStep`) a sum is linear,
monotone and counts an indicator function; each by `SubsetInduction`, which
takes the smallest subset outside a set of subsets (`WFMin`, strict inclusion).

### Assumptions

Besides the ranges of the bounds: the absent value `Null` is none of the values
it stands beside (`NullIsNoRow`, `NullIsNoData`, `NullIsNoWalk`), as null is no
row; transaction ids are numbers and finitely many in a batch, and user ids do
not run out (`IdsAssumption`: they are random UUIDs); the container allows at
least one delivery (`BootstrapAssumption`); the catalog is a sequence of
categories, its shares are hundredths that make up no more than the whole, and a
shuffle lists the merchant groups of its category (`CatalogAssumption`; the
shares of the repository's catalog add up to 1); NaN and the two infinities are
three values that are no integers (`DoublesAssumption`). No assumption limits
the order of steps.

### Only model-checked

* All liveness (`RawEventsAreRecorded`, `PendingIsAnswered`, `PendingIsServed`,
  `PendingIsLabelled`, `VerificationEnds`): temporal properties under fairness,
  and ENABLED, are beyond TLAPS here.
* What holds with several instances beyond the theorems: nothing is claimed of
  the two lifecycles there.

A proof also found a fault in the models: `StateOf` of the pipeline's refinement
was a CASE whose guards overlapped for a deferred row (source ML, status
LLM_CLASSIFYING). TLC takes the first guard that is true; TLA+ leaves the value
open, so the refinement could not be proved. It is now an IF. Likewise the
assumptions about the catalog left open that a shuffle is a sequence and that
the catalog's categories are finitely many; they now say so.

## Further disagreements

Five more statements of the documents are properties of the modules. Each is
violated under the configuration named, which is kept beside those of the runs
(`tlc -config PipelineFailed.cfg MCTransactionPipeline`).

* `FailedOnlyAfterRetries` (PipelineFailed.cfg). docs/services/core-service.md
  has a temporary ML error lead to RETRYING and a retry (131-133, 149), and
  RETRYING to FAILED once `maxRetries` is exceeded (151); the catch block of
  `handleRawTransaction` (TransactionService.kt:127) commits FAILED at the first
  error of the classifier. No code sets RETRYING, and duplicates of the event are
  skipped because the row exists. `TransactionLifecycle` describes the code: its
  transition from absent to FAILED needs no retry.
* `AnswersAreProbabilities` (RuleEngineNaN.cfg). docs/services/classifier-service.md:10
  promises a confidence "в диапазоне `0.0–1.0`". The checks of
  `validateConfidence` (RulesLoader.java:140-166) refuse `x < 0.0 || x > max`,
  which is false of NaN, and a boost has no upper bound: times no match an
  infinite one is NaN. A file with `.nan` or `.inf` loads, and the answer's
  confidence is NaN.
* `LoadsToTheLastPage` (TesterEmptyBody.cfg). src/tools/transaction-tester/README.md
  says that "Load all pages" iterates "until the last page" (31) and that an empty
  body shows an error (33). Behind the first page an empty body ends a walk as
  the last page does (core_client.py:142): a row behind it is not loaded, and
  counts as missing in a verification.
* `TraceShowsRequests` (PromptLabTrace.cfg). src/tools/prompt-lab/README.md:14-15
  lists "request payloads" in the full run trace. The payload of a step with tool
  calls is copied (deepseek_client.py:143) after its answer and replies were
  appended to the list it refers to, so the step shows what the next request had.
* `EvaluationMerchantsAreUnseen` (MixedExport.cfg). src/tools/ml-training/README.md:73-74
  describes `realistic` with "unseen-merchant evaluation". An export that throws
  at its second split (its validation size is 0, which nothing refuses before)
  has overwritten train.csv: the metadata of the export before stand beside a
  training file that has merchants of its evaluation files.

Two statements were met that are about texts or file names, which the models
abstract from:

* src/tools/transaction-tester/README.md:44 says of `low_confidence` events that
  they are "intended to produce classified transactions with confidence below
  `0.9`". `_build_low_confidence_text` (generator.py:353-371) always appends
  "transfer", which is a keyword of BANKING_AND_FEES in the rules file: such an
  event of that category is confirmed by it and can reach 0.93.
* src/tools/ml-training/README.md:90 says that evaluation reports "include
  dataset identity in the filename to avoid overwriting". The `dataset_id`
  (dataset.py:103-136) leaves out the sizes of the splits: reports of two exports
  that differ only in size overwrite each other.

## Not modelled

* The scheduler's loop over users (`RecommendationScheduler`): nine lines around
  `createRecommendationRequest`, which `CoachFlow` has; that one failure ends the
  loop is plain from the missing `try`.
* The coach's analytics and the windows of `CoachTools`: queries and date
  arithmetic without state.
* The rounding of `classifier_confidence` by its REAL column: nothing compares
  the stored value again.
* Texts: prompts, templates, parsers of LLM answers beyond accepted or not,
  transaction descriptions, merchant names, noise, MCC codes, amounts; HTTP
  layouts, logging, rendering.
* Fitting, feature extraction, metrics, ONNX conversion and inference, and
  `predict`: floating-point arithmetic in libraries.
* notify-service, which has no source.

## Plan

Done: all components listed above, their runs, and the theorems of the section
on proofs. The pipeline's one-step agent (`Respond`) assumes an answer for every
delivery and no more than one: `EveryRequestAnswered` and
`OneAnswerPerDelivery` prove it of the agent in detail.

Every safety property of a passing run is now a theorem, and so are the two lifecycles
for one instance. What could come next is an abstract specification of what the
two flows still promise with two instances in one record: weaker than the
lifecycles, as the section on the runs says.
