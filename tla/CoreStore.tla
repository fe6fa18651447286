------------------------------ MODULE CoreStore ------------------------------
(***************************************************************************)
(* What the parts of an end-to-end run share: the raw events in Kafka, the *)
(* core service's committed tables as the REST API and the consumers see   *)
(* them, and the topics between the core service and the LLM agent.        *)
(* Transactions are numbered as the tester generates them.                 *)
(***************************************************************************)
EXTENDS Integers, Sequences, FiniteSets

CONSTANTS
    Tx,         \* transaction ids: 1 .. n
    UserIds,
    Workers,    \* listener threads of the core service, over all instances
    Null,
    MaxFaults   \* bound: crashes of core and agent, lost sends, failed requests

ASSUME StoreAssumption ==
    /\ Tx \subseteq Nat /\ IsFiniteSet(Tx)
    /\ Null \notin Tx \cup UserIds
    /\ MaxFaults \in Nat

VARIABLES
    raw,        \* the event delivered to raw-transactions: [user, date] or Null
    users,      \* core.users
    accounts,   \* core.accounts: <<user, id>>
    row,        \* core.transactions: Row or Null
    requests,   \* llm-classifier-requests
    responses,  \* llm-classifier-responses
    lost,       \* history: what was lost, dropped or given up: <<tx, what>>
    faults

storeVars == <<raw, users, accounts, row, requests, responses, lost, faults>>

Event == [user: UserIds, date: Nat]
Status == {"pending", "failed", "ml", "llm"}
Row == [user: UserIds, account: Tx, date: Nat, status: Status]

ASSUME NullIsNoRow == Null \notin Row \cup Event

StoreInit(events) ==
    /\ raw = events
    /\ users = {} /\ accounts = {}
    /\ row = [t \in Tx |-> Null]
    /\ requests = <<>> /\ responses = <<>>
    /\ lost = {}
    /\ faults = 0

StoreTypeOK ==
    /\ raw \in [Tx -> Event \cup {Null}]
    /\ users \subseteq UserIds
    /\ accounts \subseteq UserIds \X Tx
    /\ row \in [Tx -> Row \cup {Null}]
    /\ requests \in Seq(Tx) /\ responses \in Seq(Tx)
    /\ lost \subseteq Tx \X {"event", "request", "response", "dropped"}
    /\ faults \in 0 .. MaxFaults

Fault == faults < MaxFaults /\ faults' = faults + 1

StatusOf(t) == IF row[t] = Null THEN "absent" ELSE row[t].status
=============================================================================
