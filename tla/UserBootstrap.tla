---------------------------- MODULE UserBootstrap ----------------------------
(***************************************************************************)
(* handleRawTransaction once more, for what TransactionPipeline leaves     *)
(* out: the user and the account are created by whichever transaction of   *)
(* the user comes first, and two of them can come at once.  Events have    *)
(* their transaction id as key, so those of one user are spread over the   *)
(* partitions.                                                             *)
(*                                                                         *)
(* A handler is a database transaction at READ COMMITTED.  Its INSERTs are *)
(* held back until a flush: by the history query before the request is     *)
(* sent, or by the commit.  A flushed INSERT holds the unique keys (users  *)
(* id, accounts number) against other INSERTs of the same user.            *)
(*                                                                         *)
(* Abstracted: what TransactionPipeline already models (positions and      *)
(* offsets, rebalances, two instances in one transaction).                 *)
(***************************************************************************)
EXTENDS CoreStore

CONSTANT MaxAttempts   \* deliveries the container's error handler allows

ASSUME BootstrapAssumption == MaxAttempts \in Nat \ {0}

VARIABLES
    handler,    \* the listener threads
    attempts,   \* failed deliveries of an event
    acked,      \* events whose offset is committed
    labelled    \* responses the core has consumed

coreVars == <<handler, attempts, acked, labelled>>

NoCall == [pc |-> "idle", tx |-> Null, hasUser |-> FALSE, account |-> Null,
           status |-> Null, held |-> FALSE]

CoreInit ==
    /\ handler = [w \in Workers |-> NoCall]
    /\ attempts = [t \in Tx |-> 0]
    /\ acked = {}
    /\ labelled = 0

CoreTypeOK ==
    /\ handler \in [Workers ->
          [pc: {"idle", "user", "account", "flushed", "decided", "committed"},
           tx: Tx \cup {Null}, hasUser: BOOLEAN, account: Tx \cup {Null},
           status: Status \cup {Null}, held: BOOLEAN]]
    /\ attempts \in [Tx -> 0 .. MaxAttempts]
    /\ acked \subseteq Tx
    /\ labelled \in 0 .. Len(responses)

UserOf(w) == raw[handler[w].tx].user
AccountsOf(u) == {a \in accounts : a[1] = u}

Deliverable(w, t) ==
    /\ handler[w].pc = "idle"
    /\ raw[t] # Null /\ t \notin acked
    /\ \A v \in Workers : handler[v].tx # t

\* existsById is true: skipped.
SkipDuplicate(w, t) ==
    /\ Deliverable(w, t) /\ row[t] # Null
    /\ acked' = acked \cup {t}
    /\ UNCHANGED <<storeVars, handler, attempts, labelled>>

\* existsById is false; ensureUserAndAccount: userRepository.findById.
FindUser(w, t) ==
    /\ Deliverable(w, t) /\ row[t] = Null
    /\ handler' = [handler EXCEPT ![w] =
          [NoCall EXCEPT !.pc = "user", !.tx = t,
                         !.hasUser = raw[t].user \in users]]
    /\ UNCHANGED <<storeVars, attempts, acked, labelled>>

\* Mutant: an account of the transaction's own, without a look at the table.
FindAccountNever(w) ==
    /\ handler[w].pc = "user"
    /\ handler' = [handler EXCEPT ![w].pc = "account"]
    /\ UNCHANGED <<storeVars, attempts, acked, labelled>>

\* findFirstByUserIdOrderByCreatedAtAsc.
FindAccount(w) ==
    /\ handler[w].pc = "user"
    /\ \E found \in IF AccountsOf(UserOf(w)) = {} THEN {Null}
                    ELSE {a[2] : a \in AccountsOf(UserOf(w))} :
          handler' = [handler EXCEPT ![w].pc = "account", ![w].account = found]
    /\ UNCHANGED <<storeVars, attempts, acked, labelled>>

InsertsUser(w) == ~handler[w].hasUser
InsertsAccount(w) == handler[w].account = Null

\* The unique keys the handler needs are held by no other one ...
Unlocked(w) ==
    \A v \in Workers \ {w} :
        handler[v].held /\ UserOf(v) = UserOf(w)
        => ~(InsertsUser(v) /\ InsertsUser(w)) /\ ~(InsertsAccount(v) /\ InsertsAccount(w))

\* Mutant: no unique keys, or a merge that ignores them.
ConflictNever(w) == FALSE

\* ... but may have been committed since it looked.
Conflict(w) ==
    \/ InsertsUser(w) /\ UserOf(w) \in users
    \/ InsertsAccount(w) /\ AccountsOf(UserOf(w)) # {}

\* The listener throws: the database transaction is rolled back, the record is
\* delivered again, or skipped after the last attempt.
Fails(w) ==
    LET t == handler[w].tx  n == attempts[t] + 1 IN
    /\ handler' = [handler EXCEPT ![w] = NoCall]
    /\ attempts' = [attempts EXCEPT ![t] = n]
    /\ acked' = IF n = MaxAttempts THEN acked \cup {t} ELSE acked
    /\ lost' = IF n = MaxAttempts THEN lost \cup {<<t, "event">>} ELSE lost
    /\ UNCHANGED <<raw, users, accounts, row, requests, responses, faults, labelled>>

\* The classifier is confident, or its call fails: nothing flushed until the commit.
Decide(w) ==
    /\ handler[w].pc = "account"
    /\ \E s \in {"ml", "failed"} :
          handler' = [handler EXCEPT ![w].pc = "decided", ![w].status = s]
    /\ UNCHANGED <<storeVars, attempts, acked, labelled>>

\* Below the threshold: the history query flushes.
Flush(w) ==
    /\ handler[w].pc = "account"
    /\ Unlocked(w)
    /\ IF Conflict(w) THEN Fails(w)
       ELSE /\ handler' = [handler EXCEPT ![w].pc = "flushed", ![w].status = "pending",
                                          ![w].held = TRUE]
            /\ UNCHANGED <<storeVars, attempts, acked, labelled>>

\* The request goes out before the commit, or its send is lost, or the send
\* throws and the catch block settles for FAILED.
PublishRequest(w) ==
    /\ handler[w].pc = "flushed"
    /\ \/ /\ requests' = Append(requests, handler[w].tx)
          /\ handler' = [handler EXCEPT ![w].pc = "decided"]
          /\ UNCHANGED <<lost, faults>>
       \/ /\ Fault
          /\ handler' = [handler EXCEPT ![w].pc = "decided"]
          /\ lost' = lost \cup {<<handler[w].tx, "request">>}
          /\ UNCHANGED requests
       \/ /\ Fault
          /\ handler' = [handler EXCEPT ![w].pc = "decided", ![w].status = "failed"]
          /\ UNCHANGED <<requests, lost>>
    /\ UNCHANGED <<raw, users, accounts, row, responses, attempts, acked, labelled>>

CommitRaw(w) ==
    LET h == handler[w]  t == h.tx
        account == IF h.account = Null THEN t ELSE h.account
    IN
    /\ h.pc = "decided"
    /\ h.held \/ Unlocked(w)
    /\ IF ~h.held /\ Conflict(w) THEN Fails(w)
       ELSE /\ users' = users \cup {UserOf(w)}
            /\ accounts' = accounts \cup {<<UserOf(w), account>>}
            /\ row' = [row EXCEPT ![t] =
                  [user |-> UserOf(w), account |-> account,
                   date |-> raw[t].date, status |-> h.status]]
            /\ handler' = [handler EXCEPT ![w].pc = "committed", ![w].held = FALSE]
            /\ UNCHANGED <<raw, requests, responses, lost, faults, attempts, acked,
                           labelled>>

\* The container commits the offset.
Acknowledge(w) ==
    /\ handler[w].pc = "committed"
    /\ acked' = acked \cup {handler[w].tx}
    /\ handler' = [handler EXCEPT ![w] = NoCall]
    /\ UNCHANGED <<storeVars, attempts, labelled>>

\* The instance dies: the database rolls back, the record is delivered again.
CoreCrash(w) ==
    /\ handler[w].pc # "idle"
    /\ Fault
    /\ handler' = [handler EXCEPT ![w] = NoCall]
    /\ UNCHANGED <<raw, users, accounts, row, requests, responses, lost, attempts,
                   acked, labelled>>

\* handleLlmClassifierResponse: a response without a row is dropped.
ApplyResponse ==
    /\ labelled < Len(responses)
    /\ LET t == responses[labelled + 1] IN
       IF row[t] = Null
       THEN lost' = lost \cup {<<t, "dropped">>} /\ UNCHANGED row
       ELSE row' = [row EXCEPT ![t].status = "llm"] /\ UNCHANGED lost
    /\ labelled' = labelled + 1
    /\ UNCHANGED <<raw, users, accounts, requests, responses, faults, handler,
                   attempts, acked>>

Handle(w) ==
    \/ \E t \in Tx : SkipDuplicate(w, t) \/ FindUser(w, t)
    \/ FindAccount(w) \/ Decide(w) \/ Flush(w) \/ PublishRequest(w)
    \/ CommitRaw(w) \/ Acknowledge(w)

CoreNext ==
    \/ \E w \in Workers : Handle(w) \/ CoreCrash(w)
    \/ ApplyResponse

-----------------------------------------------------------------------------
\* However many transactions of a new user come at once, there is one user and
\* one account, and every stored transaction is in the account of its own user
\* (ensureUserAndAccount reads and inserts without a lock).
OneAccountPerUser ==
    /\ \A a, b \in accounts : a[1] = b[1] => a = b
    /\ \A t \in Tx : row[t] # Null =>
          row[t].user \in users /\ <<row[t].user, row[t].account>> \in accounts

\* The race for a new user costs a transaction at most one delivery: a
\* container that retries at all gives nothing up because of it.
RacesCostOneDelivery ==
    \A t \in Tx : attempts[t] <= 1
=============================================================================
