-------------------------- MODULE TransactionTester --------------------------
(***************************************************************************)
(* One browser session of the transaction tester: preview or run a batch,  *)
(* publish it event by event, verify it through the core's REST API, and   *)
(* explore a user's transactions.  A click reruns the page's script from   *)
(* the top; the locals of a script are in work and walk, what survives it  *)
(* (st.session_state, and what is on screen) in known, shown and summary.  *)
(*                                                                         *)
(* The API sorts by transactionDate only: rows of one date come in any     *)
(* order, and in another order in the next query.  A page is therefore any *)
(* set of rows with the right number of each date.                         *)
(*                                                                         *)
(* KafkaTransactionPublisher flushes before it returns and when it is      *)
(* closed, so no send is under way once the publishing is over.            *)
(*                                                                         *)
(* Abstracted: the explorer's records once they are shown (client-side     *)
(* filters, summary, formatting), the bound of 2000 pages, how often a row *)
(* is shown that was sent twice.                                           *)
(***************************************************************************)
EXTENDS CoreStore, TransactionGenerator

CONSTANTS
    Previewed,    \* bound: configurations tried with Preview or Run (Dry)
    Published,    \* bound: configurations of a Run
    TargetUser,   \* the target user UUID, where one is given
    PageSize,     \* size of a page, after min(200, size)
    MaxPolls,     \* bound: polls before the deadline
    Loads,        \* bound: forms tried in the explorer: [filter, page, all]
    MaxLoads      \* bound: loads in the explorer

ASSUME TesterAssumption ==
    /\ Previewed \cup Published \subseteq Config
    /\ TargetUser \in UserIds
    /\ Loads \subseteq [filter: Status \cup {"any"}, page: Nat, all: BOOLEAN]
    /\ PageSize \in Nat \ {0} /\ MaxPolls \in Nat \ {0} /\ MaxLoads \in Nat

\* Ids do not run out: fresh user ids can be made up (uuid4), and every
\* transaction that is sent has one.
ASSUME IdsAssumption ==
    /\ \A cfg \in Previewed \cup Published : cfg.target = "none" =>
          \E ids \in [1 .. cfg.users -> UserIds \ {TargetUser}] :
             \A i, j \in 1 .. cfg.users : ids[i] = ids[j] => i = j
    /\ \A cfg \in Published : 1 .. Total(cfg) \subseteq Tx

VARIABLES
    ui,        \* where the script is
    work,      \* the generation result and its configuration, or Null
    next,      \* the transaction to send next
    late,      \* sends that timed out and may still arrive
    walk,      \* the page walk of fetch_user_transactions_all, or Null
    matched,   \* matched_records of the last complete poll
    polls, loads, ran,   \* polls and loads so far; whether there was a Preview or Run
    summary,   \* the verification's result on screen, or Null
    known,     \* generated_user_ids
    shown      \* explorer_last_user, or Null

testerVars == <<ui, work, next, late, walk, matched, polls, loads, ran, summary,
                known, shown>>

Nothing == [t \in Tx |-> "absent"]
Records == [Tx -> Status \cup {"absent"}]
Found(records) == {t \in Tx : records[t] # "absent"}

Walk == [user: UserIds, todo: Seq(UserIds), filter: Status \cup {"any"},
         first: Nat, page: Nat, all: BOOLEAN, got: Records, had: SUBSET Tx,
         over: BOOLEAN, cut: BOOLEAN]

ASSUME NullIsNoWalk == Null \notin Walk

TesterInit ==
    /\ ui = "idle" /\ work = Null /\ next = 0 /\ late = {}
    /\ walk = Null /\ matched = Nothing
    /\ polls = 0 /\ loads = 0 /\ ran = FALSE
    /\ summary = Null /\ known = {} /\ shown = Null

TesterTypeOK ==
    /\ ui \in {"idle", "generated", "publishing", "polling", "walking", "exploring"}
    /\ work # Null => work.cfg \in Config /\ ui \in
          {"generated", "publishing", "polling", "walking"}
    /\ next \in Nat /\ late \subseteq Tx
    /\ (walk # Null) <=> ui \in {"walking", "exploring"}
    /\ walk # Null => walk \in Walk /\ walk.first <= walk.page
    /\ matched \in Records
    /\ polls \in 0 .. MaxPolls /\ loads \in 0 .. MaxLoads /\ ran \in BOOLEAN
    /\ summary # Null => /\ summary.generated \subseteq Tx
                         /\ summary.found \in Records /\ summary.missing \subseteq Tx
    /\ known \subseteq UserIds
    /\ shown \in UserIds \cup {Null}

Backend == UNCHANGED storeVars

\* The script ends, its locals with it.
Leave ==
    /\ ui' = "idle" /\ work' = Null /\ walk' = Null
    /\ next' = 0 /\ matched' = Nothing /\ polls' = 0

-----------------------------------------------------------------------------
(* The generator tab.                                                      *)

\* user_ids: fresh ones, or the target user.
Ids(cfg) ==
    IF cfg.target = "uuid" THEN <<TargetUser>>
    ELSE CHOOSE ids \in [1 .. cfg.users -> UserIds \ (known \cup {TargetUser})] :
            \A i, j \in 1 .. cfg.users : ids[i] = ids[j] => i = j

Expected == DOMAIN work.batch
UsersOf(ids) == {ids[i] : i \in DOMAIN ids}

\* generate_transactions, then remember_generated_user_ids.
Generate(cfg) ==
    /\ Valid(cfg)
    /\ LET ids == Ids(cfg) IN
       /\ \E batch \in Batches(cfg, ids) :
             work' = [cfg |-> cfg, ids |-> ids, batch |-> batch]
       /\ known' = known \cup UsersOf(ids)
    /\ summary' = Null

\* "Preview sample" and "Run (Dry)": nothing is sent, yet the users are
\* remembered.  Bound: one Preview or Run per session.
Preview(cfg) ==
    /\ ui = "idle" /\ ~ran
    /\ Generate(cfg)
    /\ ui' = "generated" /\ ran' = TRUE
    /\ UNCHANGED <<next, late, walk, matched, polls, loads, shown>> /\ Backend

Rendered ==
    /\ ui = "generated"
    /\ Leave
    /\ UNCHANGED <<late, loads, ran, summary, known, shown>> /\ Backend

\* Mutant: the users of a run are not remembered.
RunForgetful(cfg) ==
    /\ ui = "idle" /\ ~ran /\ Valid(cfg)
    /\ \E batch \in Batches(cfg, Ids(cfg)) :
          work' = [cfg |-> cfg, ids |-> Ids(cfg), batch |-> batch]
    /\ summary' = Null /\ UNCHANGED known
    /\ ui' = "publishing" /\ next' = 1 /\ ran' = TRUE
    /\ UNCHANGED <<late, walk, matched, polls, loads, shown>> /\ Backend

\* "Run": run_publish begins.  Bound: see Preview.
Run(cfg) ==
    /\ ui = "idle" /\ ~ran
    /\ Generate(cfg)
    /\ ui' = "publishing" /\ next' = 1 /\ ran' = TRUE
    /\ UNCHANGED <<late, walk, matched, polls, loads, shown>> /\ Backend

Deliver(t) ==
    raw' = [raw EXCEPT ![t] = [user |-> work.batch[t].user, date |-> work.batch[t].date]]

\* One turn of publish: acknowledged, rejected, or timed out after 30 s: the
\* last two count as failed, the last may arrive all the same.
Send ==
    /\ ui = "publishing" /\ next \in Expected
    /\ next' = next + 1
    /\ \/ Deliver(next) /\ UNCHANGED <<faults, late>>
       \/ Fault /\ UNCHANGED <<raw, late>>
       \/ Fault /\ late' = late \cup {next} /\ UNCHANGED raw
    /\ UNCHANGED <<ui, work, walk, matched, polls, loads, ran, summary, known, shown>>
    /\ UNCHANGED <<users, accounts, row, requests, responses, lost>>

\* The producer's own retry gets a timed-out send through.
LateDelivery ==
    /\ \E t \in late : Deliver(t) /\ late' = late \ {t}
    /\ UNCHANGED <<ui, work, next, walk, matched, polls, loads, ran, summary, known, shown>>
    /\ UNCHANGED <<users, accounts, row, requests, responses, lost, faults>>

\* The producer cannot be created, or a click reruns the script while it
\* reports progress: the rest is not sent, nothing is verified; close() waits
\* for what is under way, or drops it when its delivery times out.
Interrupt ==
    /\ ui = "publishing" /\ next \in Expected
    /\ Fault /\ Leave /\ late' = {}
    /\ UNCHANGED <<loads, ran, summary, known, shown>>
    /\ UNCHANGED <<raw, users, accounts, row, requests, responses, lost>>

\* flush() has returned: verification, where it is ticked.
Sent ==
    /\ ui = "publishing" /\ next \notin Expected
    /\ late' = {}
    /\ \/ Leave
       \/ ui' = "polling" /\ UNCHANGED <<work, walk, next, matched, polls>>
    /\ UNCHANGED <<loads, ran, summary, known, shown>>
    /\ Backend

-----------------------------------------------------------------------------
(* The core's API, and the page walk over it.                              *)

RowsOf(u) == {t \in Tx : row[t] # Null /\ row[t].user = u}

Matching(u, filter) ==
    {t \in RowsOf(u) : filter = "any" \/ row[t].status = filter}

\* Page p: as many rows of every date as the sorted result has in its slots.
Pages(u, filter, p) ==
    LET all == Matching(u, filter)
        slots == p * PageSize + 1 .. (p + 1) * PageSize
        newer(d) == Cardinality({t \in all : row[t].date > d})
        same(d) == {t \in all : row[t].date = d}
        share(d) == Cardinality(slots \cap
                        (newer(d) + 1 .. newer(d) + Cardinality(same(d))))
    IN {page \in SUBSET all :
           \A t \in all : Cardinality(page \cap same(row[t].date)) = share(row[t].date)}

\* had and cut: history, the rows the walk should find, and whether it ended
\* with an empty body.
StartWalk(u, todo, filter, page, all, got) ==
    walk' = [user |-> u, todo |-> todo, filter |-> filter, first |-> page,
             page |-> page, all |-> all, got |-> got, had |-> RowsOf(u),
             over |-> FALSE, cut |-> FALSE]

Update(records, page) ==
    [t \in Tx |-> IF t \in page THEN row[t].status ELSE records[t]]

\* Mutant: pages are numbered by rows.
FetchPageSkipping ==
    /\ walk # Null /\ ~walk.over
    /\ \E page \in Pages(walk.user, walk.filter, walk.page) :
          walk' = [walk EXCEPT !.got = Update(walk.got, page),
                               !.page = @ + PageSize + 1,
                               !.over = ~walk.all \/ Cardinality(page) < PageSize]
    /\ UNCHANGED <<ui, work, next, late, matched, polls, loads, ran, summary, known, shown>>
    /\ Backend

\* One request; a short page is the last one.
FetchPage ==
    /\ walk # Null /\ ~walk.over
    /\ \E page \in Pages(walk.user, walk.filter, walk.page) :
          walk' = [walk EXCEPT !.got = Update(walk.got, page),
                               !.page = @ + 1,
                               !.over = ~walk.all \/ Cardinality(page) < PageSize]
    /\ UNCHANGED <<ui, work, next, late, matched, polls, loads, ran, summary, known, shown>>
    /\ Backend

\* A request fails: the verification is given up without a summary; the
\* explorer keeps what it showed.
RequestFails ==
    /\ walk # Null /\ ~walk.over
    /\ Fault /\ Leave
    /\ UNCHANGED <<late, loads, ran, summary, known, shown>>
    /\ UNCHANGED <<raw, users, accounts, row, requests, responses, lost>>

\* An empty body ends the walk as a short page does, but fails the first page.
EmptyBody ==
    /\ walk # Null /\ ~walk.over /\ walk.page > walk.first
    /\ Fault
    /\ walk' = [walk EXCEPT !.over = TRUE, !.cut = TRUE]
    /\ UNCHANGED <<ui, work, next, late, matched, polls, loads, ran, summary, known, shown>>
    /\ UNCHANGED <<raw, users, accounts, row, requests, responses, lost>>

-----------------------------------------------------------------------------
(* Verification.                                                           *)

\* Before the deadline, and at least once: _fetch_matching_transactions.
Poll ==
    /\ ui = "polling" /\ polls < MaxPolls
    /\ Found(matched) # Expected
    /\ ui' = "walking" /\ polls' = polls + 1
    /\ StartWalk(work.ids[1], Tail(work.ids), "any", 0, TRUE, Nothing)
    /\ UNCHANGED <<work, next, late, matched, loads, ran, summary, known, shown>>
    /\ Backend

NextUser ==
    /\ ui = "walking" /\ walk.over /\ walk.todo # <<>>
    /\ StartWalk(Head(walk.todo), Tail(walk.todo), "any", 0, TRUE, walk.got)
    /\ UNCHANGED <<ui, work, next, late, matched, polls, loads, ran, summary, known, shown>>
    /\ Backend

\* Mutant: the walk is not put away.
EndPollKeepingWalk ==
    /\ ui = "walking" /\ walk.over /\ walk.todo = <<>>
    /\ matched' = [t \in Tx |-> IF t \in Expected THEN walk.got[t] ELSE "absent"]
    /\ ui' = "polling"
    /\ UNCHANGED <<work, next, late, walk, polls, loads, ran, summary, known, shown>>
    /\ Backend

\* Only what was generated counts, of what the users have.
EndPoll ==
    /\ ui = "walking" /\ walk.over /\ walk.todo = <<>>
    /\ matched' = [t \in Tx |-> IF t \in Expected THEN walk.got[t] ELSE "absent"]
    /\ ui' = "polling" /\ walk' = Null
    /\ UNCHANGED <<work, next, late, polls, loads, ran, summary, known, shown>>
    /\ Backend

\* Mutant: what the publisher has not got through is not expected.
SummarizeSent ==
    /\ ui = "polling" /\ polls > 0
    /\ summary' = [generated |-> Expected, found |-> matched,
                   missing |-> {t \in Expected : raw[t] # Null} \ Found(matched)]
    /\ Leave
    /\ UNCHANGED <<late, loads, ran, known, shown>> /\ Backend

\* Mutant: no deadline.
SummarizeWhenAllFound ==
    /\ ui = "polling" /\ Found(matched) = Expected
    /\ summary' = [generated |-> Expected, found |-> matched, missing |-> {}]
    /\ Leave
    /\ UNCHANGED <<late, loads, ran, known, shown>> /\ Backend

\* All found, or past the deadline (at any time after the first poll).
\* generated: history, the batch of the run.
Summarize ==
    /\ ui = "polling" /\ polls > 0
    /\ summary' = [generated |-> Expected, found |-> matched,
                   missing |-> Expected \ Found(matched)]
    /\ Leave
    /\ UNCHANGED <<late, loads, ran, known, shown>> /\ Backend

-----------------------------------------------------------------------------
(* The explorer tab.                                                       *)

\* "Load transactions" for a remembered user, a page or all of them.  Bound:
\* not after a verification.
Load(u, filter, page, all) ==
    /\ ui = "idle" /\ loads < MaxLoads /\ summary = Null
    /\ ui' = "exploring" /\ loads' = loads + 1
    /\ StartWalk(u, <<>>, filter, page, all, Nothing)
    /\ UNCHANGED <<work, next, late, matched, polls, ran, summary, known, shown>>
    /\ Backend

\* explorer_records and explorer_last_user change together, after the fetch.
Show ==
    /\ ui = "exploring" /\ walk.over
    /\ shown' = walk.user
    /\ Leave
    /\ UNCHANGED <<late, loads, ran, summary, known>> /\ Backend

\* The script, once a click has started it.
Script ==
    \/ Rendered \/ Send \/ Sent \/ FetchPage \/ RequestFails \/ EmptyBody
    \/ Poll \/ NextUser \/ EndPoll \/ Summarize \/ Show

TesterNext ==
    \/ Script \/ Interrupt \/ LateDelivery
    \/ \E cfg \in Previewed : Preview(cfg)
    \/ \E cfg \in Published : Run(cfg)
    \/ \E u \in known, form \in Loads : Load(u, form.filter, form.page, form.all)

-----------------------------------------------------------------------------
\* Every generated batch is what the page announced (AsConfigured), for every
\* configuration _validate_config lets through, rounding of the ratios and
\* fallbacks included.
BatchIsAsConfigured == work # Null => AsConfigured(work.cfg, work.ids, work.batch)

\* A transaction alone on its date among those of its user.
AloneOnItsDate(t) ==
    \A s \in RowsOf(row[t].user) \ {t} : row[s].date # row[t].date

Newer(rows, d) == {s \in rows : row[s].date > d}

\* Sorted by date, the row comes after the pages the walk has read.
Coming(t) == Cardinality(Newer(RowsOf(walk.user), row[t].date)) >= walk.page * PageSize

\* Offset pages over a table that grows: a walk over all pages returns every
\* row that was there when it began, although rows are inserted before, between
\* and behind the pages meanwhile, and an empty body, which ends it early, hides
\* only rows behind the pages read.  Rows that share a date, which the query
\* does not order, may be missed.
WalkMissesNothing ==
    walk # Null =>
        (walk.over /\ walk.all /\ walk.first = 0 /\ walk.filter = "any" =>
            \A t \in walk.had : AloneOnItsDate(t) =>
                walk.got[t] # "absent" \/ (walk.cut /\ Coming(t)))

\* The README's claim, that loading all pages goes on to the last one and that an
\* empty body is shown as an error.  Violated: an empty body ends the walk as the
\* last page does, and the rows behind it are taken to be missing.
LoadsToTheLastPage ==
    walk # Null =>
        (walk.over /\ walk.all /\ walk.first = 0 /\ walk.filter = "any" =>
            \A t \in walk.had : AloneOnItsDate(t) => walk.got[t] # "absent")

\* A status on the screen is the row's, or was until the LLM answered.
Shown(t, status) ==
    status # "absent" => row[t] # Null /\ row[t].status \in {status, "llm"}

\* The verdict accounts for the batch: every generated transaction, whether its
\* send succeeded, failed or timed out, is found or missing and not both, nothing
\* else is, and a found one is in the core with the status shown or a later one.
\* (A missing one may be in the core all the same: the last poll did not see it.)
VerdictIsSound ==
    summary # Null =>
        /\ Found(summary.found) \cup summary.missing = summary.generated
        /\ Found(summary.found) \cap summary.missing = {}
        /\ \A t \in Tx : Shown(t, summary.found[t])

\* Every user with an event in Kafka can be selected in the explorer, even when
\* the run that made it was interrupted or its verification gave up.
SentUsersAreKnown == \A t \in Tx : raw[t] # Null => raw[t].user \in known

\* A verification ends, whatever never arrives: the deadline is looked at
\* between polls, and a poll is a walk over finitely many pages.
VerificationEnds == (ui = "polling") ~> (ui = "idle")
=============================================================================
