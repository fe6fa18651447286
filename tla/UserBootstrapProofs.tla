------------------------- MODULE UserBootstrapProofs -------------------------
(***************************************************************************)
(* The steps of UserBootstrap, for every set of transactions, users and    *)
(* listener threads: what a thread has seen of the user and the account    *)
(* stays true while others commit, and two threads never insert the same.  *)
(* The modules that compose UserBootstrap with an agent or a tester build  *)
(* their theorems on these lemmas.                                         *)
(***************************************************************************)
EXTENDS UserBootstrap, TLAPS

Busy(w) == handler[w].pc # "idle"

Calls == [pc: {"idle", "user", "account", "flushed", "decided", "committed"},
          tx: Tx \cup {Null}, hasUser: BOOLEAN, account: Tx \cup {Null},
          status: Status \cup {Null}, held: BOOLEAN]

-----------------------------------------------------------------------------
(* The inductive invariant, in parts.                                      *)

\* A thread has an event of its own, not yet acknowledged.
Handlers ==
    /\ \A w \in Workers :
          LET h == handler[w] IN
          /\ h.pc = "idle" => h.tx = Null /\ h.held = FALSE
          /\ h.pc # "idle" => h.tx \in Tx /\ h.tx \notin acked /\ raw[h.tx] # Null
          /\ h.pc \in {"flushed", "decided", "committed"} => h.status \in Status
    /\ \A v, w \in Workers : Busy(v) /\ handler[v].tx = handler[w].tx => v = w
    /\ \A t \in Tx : t \notin acked => attempts[t] < MaxAttempts

\* Users and accounts are committed together, one account for each user.
Tables ==
    /\ \A u \in UserIds : u \in users <=> AccountsOf(u) # {}
    /\ \A a, b \in accounts : a[1] = b[1] => a = b
    /\ \A t \in Tx : row[t] # Null =>
          row[t].user \in users /\ <<row[t].user, row[t].account>> \in accounts

\* What a thread found is committed; what it has flushed is not in conflict.
Seen ==
    \A w \in Workers : Busy(w) =>
        /\ handler[w].hasUser => UserOf(w) \in users
        /\ handler[w].account # Null => <<UserOf(w), handler[w].account>> \in accounts
        /\ handler[w].held => ~Conflict(w) /\ handler[w].pc \in {"flushed", "decided"}

\* The unique keys keep flushed inserts of one user apart.
Exclude(v, w) == /\ ~(InsertsUser(v) /\ InsertsUser(w))
                 /\ ~(InsertsAccount(v) /\ InsertsAccount(w))

Apart ==
    \A v, w \in Workers :
        v # w /\ handler[v].held /\ handler[w].held /\ UserOf(v) = UserOf(w)
            => Exclude(v, w)

\* After a failed delivery the user and the account are there to be found.
Retried ==
    \A t \in Tx : attempts[t] > 0 =>
        /\ attempts[t] = 1
        /\ raw[t] # Null /\ raw[t].user \in users
        /\ \A w \in Workers : handler[w].tx = t =>
              /\ handler[w].hasUser
              /\ handler[w].pc # "user" => handler[w].account # Null

\* The row is written once: by the commit.
Unwritten ==
    \A w \in Workers :
        Busy(w) /\ handler[w].pc # "committed" => row[handler[w].tx] = Null

CoreInv == Handlers /\ Tables /\ Seen /\ Apart /\ Retried /\ Unwritten

-----------------------------------------------------------------------------
(* What a step of the core does, by shape.                                 *)

\* The thread lets its event go: acknowledged, failed, or the instance dies.
Drops(w) ==
    LET t == handler[w].tx  n == attempts[t] + 1 IN
    /\ Busy(w)
    /\ handler' = [handler EXCEPT ![w] = NoCall]
    /\ UNCHANGED <<raw, users, accounts, row>>
    /\ \/ UNCHANGED <<attempts, acked>>
       \/ UNCHANGED attempts /\ acked' = acked \cup {t}
       \/ /\ Conflict(w) /\ handler[w].pc # "user"
          /\ attempts' = [attempts EXCEPT ![t] = n]
          /\ acked' = IF n = MaxAttempts THEN acked \cup {t} ELSE acked

\* The thread goes on with its event.
GoesOn(w, g) ==
    LET h == handler[w] IN
    /\ Busy(w) /\ h.pc # "committed" /\ g.pc \in {"account", "flushed", "decided"}
    /\ handler' = [handler EXCEPT ![w] = g]
    /\ g.tx = h.tx /\ g.hasUser = h.hasUser
    /\ \/ h.pc # "user" /\ g.account = h.account
       \/ /\ h.pc = "user"
          /\ IF AccountsOf(UserOf(w)) = {} THEN g.account = Null
             ELSE \E a \in AccountsOf(UserOf(w)) : g.account = a[2]
    /\ g.status = h.status \/ g.status \in Status
    /\ g.pc = "account" => h.pc = "user"
    /\ g.pc \in {"flushed", "decided"} =>
          h.pc # "user" /\ (g.status \in Status \/ h.pc = "flushed")
    /\ \/ g.held = h.held /\ (g.held => g.pc # "account")
       \/ g.held /\ g.pc = "flushed" /\ Unlocked(w) /\ ~Conflict(w)
    /\ UNCHANGED <<raw, users, accounts, row, attempts, acked>>

\* The thread commits.
Commits(w) ==
    LET h == handler[w]  t == h.tx
        account == IF h.account = Null THEN t ELSE h.account
    IN
    /\ h.pc = "decided"
    /\ h.held \/ (Unlocked(w) /\ ~Conflict(w))
    /\ users' = users \cup {UserOf(w)}
    /\ accounts' = accounts \cup {<<UserOf(w), account>>}
    /\ row' = [row EXCEPT ![t] =
          [user |-> UserOf(w), account |-> account,
           date |-> raw[t].date, status |-> h.status]]
    /\ handler' = [handler EXCEPT ![w].pc = "committed", ![w].held = FALSE]
    /\ UNCHANGED <<raw, attempts, acked>>

\* No thread moves; a duplicate is acknowledged or a label is written.
Aside ==
    /\ UNCHANGED <<raw, users, accounts, handler, attempts>>
    /\ \/ UNCHANGED row /\ \E t \in Tx : /\ \A v \in Workers : handler[v].tx # t
                                        /\ acked' = acked \cup {t}
       \/ UNCHANGED acked /\ UNCHANGED row
       \/ /\ UNCHANGED acked
          /\ \E t \in Tx : row[t] # Null /\ row' = [row EXCEPT ![t].status = "llm"]

LEMMA CoreSteps ==
    ASSUME StoreTypeOK, CoreTypeOK, CoreInv, CoreNext
    PROVE  \/ \E w \in Workers : Drops(w) \/ Commits(w) \/ \E g \in Calls : GoesOn(w, g)
           \/ \E w \in Workers, t \in Tx : FindUser(w, t)
           \/ Aside
<1> DEFINE Goal ==
           \/ \E w \in Workers : Drops(w) \/ Commits(w) \/ \E g \in Calls : GoesOn(w, g)
           \/ \E w \in Workers, t \in Tx : FindUser(w, t)
           \/ Aside
<1>1. \A w \in Workers : handler[w] \in Calls
  BY DEF CoreTypeOK, Calls
<1>2. ASSUME NEW w \in Workers, Fails(w), Conflict(w), Busy(w),
             handler[w].pc # "user"
      PROVE  Goal
  BY <1>2 DEF Fails, Drops
<1>3. ASSUME NEW w \in Workers, NEW t \in Tx, SkipDuplicate(w, t) PROVE Goal
  BY <1>3 DEF SkipDuplicate, Deliverable, storeVars, Aside
<1>4. ASSUME NEW w \in Workers, FindAccount(w) PROVE Goal
  <2> DEFINE h == handler[w]
  <2>1. PICK found \in IF AccountsOf(UserOf(w)) = {} THEN {Null}
                       ELSE {a[2] : a \in AccountsOf(UserOf(w))} :
          handler' = [handler EXCEPT ![w].pc = "account", ![w].account = found]
    BY <1>4 DEF FindAccount
  <2> DEFINE g == [h EXCEPT !.pc = "account", !.account = found]
  <2>2. found \in Tx \cup {Null}
    BY <2>1 DEF StoreTypeOK, AccountsOf
  <2>3. g \in Calls
    BY <1>1, <2>2 DEF Calls
  <2>4. handler' = [handler EXCEPT ![w] = g]
    BY <2>1 DEF CoreTypeOK
  <2>5. h.held = FALSE
    <3>1. ~h.held
      BY <1>4 DEF FindAccount, CoreInv, Seen, Busy
    <3> QED
      BY <3>1, <1>1 DEF Calls
  <2>6. GoesOn(w, g)
    BY <1>1, <1>4, <2>1, <2>4, <2>5 DEF FindAccount, GoesOn, Busy, Calls, storeVars
  <2> QED
    BY <2>3, <2>6
<1>5. ASSUME NEW w \in Workers, Decide(w) PROVE Goal
  <2> DEFINE h == handler[w]
  <2>1. PICK s \in {"ml", "failed"} :
          handler' = [handler EXCEPT ![w].pc = "decided", ![w].status = s]
    BY <1>5 DEF Decide
  <2> DEFINE g == [h EXCEPT !.pc = "decided", !.status = s]
  <2>2. g \in Calls /\ s \in Status
    BY <1>1 DEF Calls, Status
  <2>3. handler' = [handler EXCEPT ![w] = g]
    BY <2>1 DEF CoreTypeOK
  <2>4. GoesOn(w, g)
    BY <1>1, <1>5, <2>2, <2>3 DEF Decide, GoesOn, Busy, Calls, storeVars
  <2> QED
    BY <2>2, <2>4
<1>6. ASSUME NEW w \in Workers, Flush(w) PROVE Goal
  <2> DEFINE h == handler[w]
             g == [h EXCEPT !.pc = "flushed", !.status = "pending", !.held = TRUE]
  <2>1. CASE Conflict(w)
    BY <1>6, <2>1, <1>2 DEF Flush, Busy
  <2>2. CASE ~Conflict(w)
    <3>1. g \in Calls /\ g.status \in Status
      BY <1>1 DEF Calls, Status
    <3>2. handler' = [handler EXCEPT ![w] = g]
      BY <1>6, <2>2 DEF CoreTypeOK, Flush
    <3>3. GoesOn(w, g)
      BY <1>1, <1>6, <2>2, <3>1, <3>2 DEF Flush, GoesOn, Busy, Calls, storeVars
    <3> QED
      BY <3>1, <3>3
  <2> QED
    BY <2>1, <2>2
<1>7. ASSUME NEW w \in Workers, PublishRequest(w) PROVE Goal
  <2> DEFINE h == handler[w]
             g == [h EXCEPT !.pc = "decided"]
             f == [h EXCEPT !.pc = "decided", !.status = "failed"]
  <2>1. g \in Calls /\ f \in Calls /\ f.status \in Status
    BY <1>1 DEF Calls, Status
  <2>2. \/ handler' = [handler EXCEPT ![w] = g]
        \/ handler' = [handler EXCEPT ![w] = f]
    BY <1>7 DEF PublishRequest, CoreTypeOK
  <2>3. GoesOn(w, g) \/ GoesOn(w, f)
    BY <1>1, <1>7, <2>1, <2>2 DEF PublishRequest, GoesOn, Busy, Calls
  <2> QED
    BY <2>1, <2>3
<1>8. ASSUME NEW w \in Workers, CommitRaw(w) PROVE Goal
  <2>1. CASE ~handler[w].held /\ Conflict(w)
    BY <1>8, <2>1, <1>2 DEF CommitRaw, Busy
  <2>2. CASE handler[w].held \/ ~Conflict(w)
    <3> DEFINE h == handler[w]  t == h.tx
               account == IF h.account = Null THEN t ELSE h.account
    <3>0. /\ h.pc = "decided"
          /\ h.held \/ Unlocked(w)
          /\ users' = users \cup {UserOf(w)}
          /\ accounts' = accounts \cup {<<UserOf(w), account>>}
          /\ row' = [row EXCEPT ![t] =
                [user |-> UserOf(w), account |-> account,
                 date |-> raw[t].date, status |-> h.status]]
          /\ handler' = [handler EXCEPT ![w].pc = "committed", ![w].held = FALSE]
          /\ UNCHANGED <<raw, requests, responses, lost, faults, attempts, acked,
                         labelled>>
      BY <1>8, <2>2, Zenon DEF CommitRaw
    <3>1. Commits(w)
      <4>1. UNCHANGED <<raw, attempts, acked>>
        BY <3>0
      <4> QED
        BY <2>2, <3>0, <4>1, Zenon DEF Commits
    <3> QED
      BY <3>1
  <2> QED
    BY <2>1, <2>2
<1>9. ASSUME NEW w \in Workers, Acknowledge(w) \/ CoreCrash(w) PROVE Goal
  BY <1>9 DEF Acknowledge, CoreCrash, Drops, Busy, storeVars
<1>10. CASE ApplyResponse
  <2> DEFINE t == responses[labelled + 1]
  <2>1. t \in Tx
    BY <1>10 DEF ApplyResponse, StoreTypeOK, CoreTypeOK
  <2> QED
    BY <1>10, <2>1 DEF ApplyResponse, Aside
<1> QED
  BY <1>3, <1>4, <1>5, <1>6, <1>7, <1>8, <1>9, <1>10 DEF CoreNext, Handle

-----------------------------------------------------------------------------
(* The parts of the invariant are kept.                                    *)

LEMMA CoreTypeStep ==
    ASSUME StoreTypeOK, CoreTypeOK, CoreInv, CoreNext
    PROVE  /\ handler' \in [Workers -> Calls]
           /\ attempts' \in [Tx -> 0 .. MaxAttempts]
           /\ acked' \subseteq Tx
           /\ users' \subseteq UserIds
           /\ accounts' \subseteq UserIds \X Tx
           /\ row' \in [Tx -> Row \cup {Null}]
<1> DEFINE Goal ==
           /\ handler' \in [Workers -> Calls]
           /\ attempts' \in [Tx -> 0 .. MaxAttempts]
           /\ acked' \subseteq Tx
           /\ users' \subseteq UserIds
           /\ accounts' \subseteq UserIds \X Tx
           /\ row' \in [Tx -> Row \cup {Null}]
<1>1. /\ handler \in [Workers -> Calls]
      /\ attempts \in [Tx -> 0 .. MaxAttempts]
      /\ acked \subseteq Tx
      /\ users \subseteq UserIds
      /\ accounts \subseteq UserIds \X Tx
      /\ row \in [Tx -> Row \cup {Null}]
      /\ raw \in [Tx -> Event \cup {Null}]
  BY DEF StoreTypeOK, CoreTypeOK, Calls
<1>2. NoCall \in Calls
  BY DEF NoCall, Calls
<1>3. ASSUME NEW w \in Workers, Busy(w)
      PROVE  /\ handler[w] \in Calls
             /\ handler[w].tx \in Tx /\ handler[w].tx \notin acked
             /\ raw[handler[w].tx] \in Event
             /\ handler[w].pc \in {"flushed", "decided", "committed"} =>
                   handler[w].status \in Status
  BY <1>1, <1>3 DEF CoreInv, Handlers, Busy
<1>4. ASSUME NEW w \in Workers, Drops(w) PROVE Goal
  <2> DEFINE t == handler[w].tx
  <2>1. t \in Tx /\ t \notin acked
    BY <1>3, <1>4 DEF Drops
  <2>2. attempts[t] + 1 \in 0 .. MaxAttempts
    <3>1. attempts[t] < MaxAttempts /\ attempts[t] \in 0 .. MaxAttempts
      BY <1>1, <2>1 DEF CoreInv, Handlers
    <3> QED
      BY <3>1, BootstrapAssumption
  <2>3. handler' \in [Workers -> Calls]
    BY <1>1, <1>2, <1>4 DEF Drops
  <2>4. attempts' \in [Tx -> 0 .. MaxAttempts] /\ acked' \subseteq Tx
    BY <1>1, <1>4, <2>1, <2>2 DEF Drops
  <2> QED
    BY <1>1, <1>4, <2>3, <2>4 DEF Drops
<1>5. ASSUME NEW w \in Workers, Commits(w) PROVE Goal
  <2> DEFINE h == handler[w]  t == h.tx
             account == IF h.account = Null THEN t ELSE h.account
             new == [user |-> UserOf(w), account |-> account,
                     date |-> raw[t].date, status |-> h.status]
  <2>1. /\ h \in Calls /\ t \in Tx /\ raw[t] \in Event /\ h.status \in Status
    BY <1>3, <1>5 DEF Commits, Busy
  <2>2. UserOf(w) \in UserIds /\ account \in Tx
    BY <2>1 DEF UserOf, Event, Calls
  <2>3. new \in Row
    BY <2>1, <2>2 DEF Row, Event
  <2>4. row' \in [Tx -> Row \cup {Null}]
    BY <1>1, <1>5, <2>3 DEF Commits
  <2>5. handler' \in [Workers -> Calls]
    <3> DEFINE g == [h EXCEPT !.pc = "committed", !.held = FALSE]
    <3>1. handler' = [handler EXCEPT ![w] = g]
      BY <1>1, <1>5 DEF Commits
    <3>2. g \in Calls
      BY <2>1 DEF Calls
    <3> QED
      BY <1>1, <3>1, <3>2
  <2> QED
    BY <1>1, <1>5, <2>2, <2>4, <2>5 DEF Commits
<1>6. ASSUME NEW w \in Workers, NEW g \in Calls, GoesOn(w, g) PROVE Goal
  BY <1>1, <1>6 DEF GoesOn
<1>7. ASSUME NEW w \in Workers, NEW t \in Tx, FindUser(w, t) PROVE Goal
  <2> DEFINE g == [NoCall EXCEPT !.pc = "user", !.tx = t,
                                 !.hasUser = raw[t].user \in users]
  <2>0. (raw[t].user \in users) \in BOOLEAN
    OBVIOUS
  <2>1. g \in Calls
    <3>1. ASSUME NEW b \in BOOLEAN
          PROVE  [NoCall EXCEPT !.pc = "user", !.tx = t, !.hasUser = b] \in Calls
      BY DEF NoCall, Calls
    <3> QED
      BY <2>0, <3>1, Zenon
  <2> QED
    BY <1>1, <1>7, <2>1 DEF FindUser, storeVars
<1>8. CASE Aside
  <2>1. ASSUME NEW t \in Tx, row[t] # Null, row' = [row EXCEPT ![t].status = "llm"]
        PROVE  row' \in [Tx -> Row \cup {Null}]
    BY <1>1, <2>1 DEF Row, Status
  <2> QED
    BY <1>1, <1>8, <2>1 DEF Aside
<1> QED
  BY <1>4, <1>5, <1>6, <1>7, <1>8, CoreSteps

LEMMA HandlersStep ==
    ASSUME StoreTypeOK, CoreTypeOK, CoreInv, CoreNext
    PROVE  Handlers'
<1> USE DEF CoreInv, Handlers, Busy
<1>1. handler \in [Workers -> Calls] /\ attempts \in [Tx -> 0 .. MaxAttempts]
  BY DEF CoreTypeOK, Calls
<1>2. Null \notin Tx
  BY StoreAssumption
<1>3. ASSUME NEW w \in Workers, Drops(w) PROVE Handlers'
  <2>1. \A v \in Workers : handler'[v] = IF v = w THEN NoCall ELSE handler[v]
    BY <1>1, <1>3 DEF Drops
  <2>2. handler[w].tx \in Tx /\ acked' \subseteq acked \cup {handler[w].tx}
    BY <1>3 DEF Drops
  <2>3. \A t \in Tx : t \notin acked' => attempts'[t] < MaxAttempts
    <3>1. CASE UNCHANGED attempts
      BY <1>3, <3>1 DEF Drops
    <3>2. CASE ~UNCHANGED attempts
      <4> DEFINE q == handler[w].tx
      <4>1. /\ attempts' = [attempts EXCEPT ![q] = attempts[q] + 1]
            /\ acked' = IF attempts[q] + 1 = MaxAttempts THEN acked \cup {q}
                                                       ELSE acked
            /\ q \notin acked
        BY <1>3, <3>2 DEF Drops
      <4>2. attempts[q] \in Nat /\ attempts[q] < MaxAttempts /\ MaxAttempts \in Nat
        BY <1>1, <2>2, <4>1, BootstrapAssumption
      <4> QED
        BY <1>1, <2>2, <4>1, <4>2
    <3> QED
      BY <3>1, <3>2
  <2>4. NoCall.pc = "idle" /\ NoCall.tx = Null /\ NoCall.held = FALSE
    BY DEF NoCall
  <2>5. UNCHANGED raw
    BY <1>3 DEF Drops
  <2>6. \A v, u \in Workers : Busy(v)' /\ handler'[v].tx = handler'[u].tx => v = u
    BY <1>2, <2>1, <2>4
  <2>7. \A v \in Workers :
          LET h == handler'[v] IN
          /\ h.pc = "idle" => h.tx = Null /\ h.held = FALSE
          /\ h.pc # "idle" => h.tx \in Tx /\ h.tx \notin acked' /\ raw'[h.tx] # Null
          /\ h.pc \in {"flushed", "decided", "committed"} => h.status \in Status
    BY <1>3, <2>1, <2>2, <2>4, <2>5 DEF Drops
  <2> QED
    BY <2>3, <2>6, <2>7
<1>4. ASSUME NEW w \in Workers, NEW g, Busy(w), handler' = [handler EXCEPT ![w] = g],
             g.tx = handler[w].tx, g.pc # "idle",
             g.pc \in {"flushed", "decided", "committed"} => g.status \in Status,
             UNCHANGED <<raw, attempts, acked>>
      PROVE  Handlers'
  <2>1. \A v \in Workers : handler'[v] = IF v = w THEN g ELSE handler[v]
    BY <1>1, <1>4
  <2> QED
    BY <1>4, <2>1
<1>5. ASSUME NEW w \in Workers, NEW g \in Calls, GoesOn(w, g) PROVE Handlers'
  BY <1>5, <1>4 DEF GoesOn
<1>6. ASSUME NEW w \in Workers, Commits(w) PROVE Handlers'
  <2> DEFINE g == [handler[w] EXCEPT !.pc = "committed", !.held = FALSE]
  <2>1. handler' = [handler EXCEPT ![w] = g]
    BY <1>1, <1>6 DEF Commits
  <2>2. g.tx = handler[w].tx /\ g.pc = "committed" /\ g.status = handler[w].status
    BY <1>1 DEF Calls
  <2> QED
    BY <1>6, <2>1, <2>2, <1>4 DEF Commits
<1>7. ASSUME NEW w \in Workers, NEW t \in Tx, FindUser(w, t) PROVE Handlers'
  <2> DEFINE g == [NoCall EXCEPT !.pc = "user", !.tx = t,
                                 !.hasUser = raw[t].user \in users]
  <2>1. \A v \in Workers : handler'[v] = IF v = w THEN g ELSE handler[v]
    BY <1>1, <1>7 DEF FindUser
  <2>2. g.pc = "user" /\ g.tx = t
    BY DEF NoCall
  <2>3. /\ raw[t] # Null /\ t \notin acked
        /\ \A v \in Workers : handler[v].tx # t
    BY <1>7 DEF FindUser, Deliverable
  <2> QED
    BY <1>7, <2>1, <2>2, <2>3 DEF FindUser, storeVars
<1>8. CASE Aside
  BY <1>8 DEF Aside
<1> QED
  BY <1>3, <1>5, <1>6, <1>7, <1>8, CoreSteps

LEMMA CommitFacts ==
    ASSUME StoreTypeOK, CoreTypeOK, CoreInv, NEW w \in Workers, Commits(w)
    PROVE  /\ Busy(w) /\ handler[w].tx \in Tx /\ UserOf(w) \in UserIds
           /\ ~Conflict(w)
           /\ handler[w].account = Null => AccountsOf(UserOf(w)) = {}
           /\ handler[w].account # Null => accounts' = accounts
           /\ AccountsOf(UserOf(w))' # {}
           /\ \A u \in UserIds : u # UserOf(w) =>
                 /\ AccountsOf(u)' = AccountsOf(u)
                 /\ u \in users' <=> u \in users
<1>1. Busy(w)
  BY DEF Commits, Busy
<1>2. handler[w].tx \in Tx /\ raw[handler[w].tx] \in Event
  BY <1>1 DEF StoreTypeOK, CoreInv, Handlers, Busy
<1>3. UserOf(w) \in UserIds
  BY <1>2 DEF UserOf, Event
<1>4. ~Conflict(w)
  BY <1>1 DEF Commits, CoreInv, Seen
<1>5. handler[w].account = Null => AccountsOf(UserOf(w)) = {}
  BY <1>4 DEF Conflict, InsertsAccount
<1>6. handler[w].account # Null => accounts' = accounts
  BY <1>1 DEF Commits, CoreInv, Seen
<1> DEFINE new == <<UserOf(w), IF handler[w].account = Null THEN handler[w].tx
                                                         ELSE handler[w].account>>
<1>7. accounts' = accounts \cup {new} /\ users' = users \cup {UserOf(w)}
  BY DEF Commits
<1>8. \A u : AccountsOf(u)' = {a \in accounts' : a[1] = u}
  BY DEF AccountsOf
<1>9. new[1] = UserOf(w)
  OBVIOUS
<1>10. AccountsOf(UserOf(w))' # {}
  <2>1. UserOf(w)' = UserOf(w)
    BY DEF UserOf, Commits, CoreTypeOK
  <2> QED
    BY <1>7, <1>9, <2>1 DEF AccountsOf
<1>11. \A u \in UserIds : u # UserOf(w) =>
          AccountsOf(u)' = AccountsOf(u) /\ (u \in users' <=> u \in users)
  BY <1>7, <1>8, <1>9 DEF AccountsOf
<1> QED
  BY <1>1, <1>2, <1>3, <1>4, <1>5, <1>6, <1>10, <1>11

LEMMA TablesStep ==
    ASSUME StoreTypeOK, CoreTypeOK, CoreInv, CoreNext
    PROVE  Tables'
<1>1. Tables
  BY DEF CoreInv
<1>2. CASE UNCHANGED <<users, accounts, row>>
  BY <1>1, <1>2 DEF Tables, AccountsOf
<1>3. ASSUME NEW w \in Workers, Commits(w) PROVE Tables'
  <2> DEFINE u == UserOf(w)  t == handler[w].tx
             account == IF handler[w].account = Null THEN t ELSE handler[w].account
             new == [user |-> u, account |-> account,
                     date |-> raw[t].date, status |-> handler[w].status]
  <2>1. /\ users' = users \cup {u} /\ accounts' = accounts \cup {<<u, account>>}
        /\ row' = [row EXCEPT ![t] = new]
    BY <1>3 DEF Commits
  <2>2. u' = u
    BY <1>3 DEF UserOf, Commits, CoreTypeOK
  <2>3. \A x \in UserIds : x \in users' <=> AccountsOf(x)' # {}
    BY <1>1, <1>3, <2>1, <2>2, CommitFacts DEF Tables
  <2>4. \A a, b \in accounts' : a[1] = b[1] => a = b
    <3>1. CASE handler[w].account = Null
      <4>1. \A a \in accounts : a[1] # u
        BY <1>3, <3>1, CommitFacts DEF AccountsOf
      <4> QED
        BY <1>1, <2>1, <4>1 DEF Tables
    <3>2. CASE handler[w].account # Null
      BY <1>1, <1>3, <3>2, CommitFacts DEF Tables
    <3> QED
      BY <3>1, <3>2
  <2>5. \A x \in Tx : row'[x] # Null =>
          row'[x].user \in users' /\ <<row'[x].user, row'[x].account>> \in accounts'
    <3>1. \A x \in Tx : row'[x] = IF x = t THEN new ELSE row[x]
      BY <2>1 DEF StoreTypeOK
    <3>2. new.user = u /\ new.account = account
      OBVIOUS
    <3> QED
      BY <1>1, <2>1, <3>1, <3>2 DEF Tables
  <2> QED
    BY <2>3, <2>4, <2>5 DEF Tables
<1>4. ASSUME NEW t \in Tx, row[t] # Null, row' = [row EXCEPT ![t].status = "llm"],
             UNCHANGED <<users, accounts>>
      PROVE  Tables'
  <2>1. \A x \in Tx : row[x] \in Row \cup {Null}
    BY DEF StoreTypeOK
  <2>2. \A x \in Tx : row'[x] # Null => /\ row[x] # Null
                                       /\ row'[x].user = row[x].user
                                       /\ row'[x].account = row[x].account
    BY <1>4, <2>1 DEF StoreTypeOK, Row
  <2> QED
    BY <1>1, <1>4, <2>2 DEF Tables, AccountsOf
<1>5. CASE Aside
  BY <1>2, <1>4, <1>5 DEF Aside
<1>6. ASSUME NEW w \in Workers, Drops(w) \/ \E g \in Calls : GoesOn(w, g) PROVE Tables'
  BY <1>2, <1>6 DEF Drops, GoesOn
<1>7. ASSUME NEW w \in Workers, NEW t \in Tx, FindUser(w, t) PROVE Tables'
  BY <1>2, <1>7 DEF FindUser, storeVars
<1> QED
  BY <1>3, <1>5, <1>6, <1>7, CoreSteps

\* What must hold of one thread, for its record h and its user u.
SeenBy(h, u) ==
    /\ h.hasUser => u \in users
    /\ h.account # Null => <<u, h.account>> \in accounts
    /\ h.held => /\ ~(~h.hasUser /\ u \in users)
                 /\ ~(h.account = Null /\ AccountsOf(u) # {})
                 /\ h.pc \in {"flushed", "decided"}

LEMMA SeenIsSeenBy ==
    Seen <=> \A w \in Workers : Busy(w) => SeenBy(handler[w], UserOf(w))
BY DEF Seen, SeenBy, Conflict, InsertsUser, InsertsAccount

LEMMA SeenStep ==
    ASSUME StoreTypeOK, CoreTypeOK, CoreInv, CoreNext
    PROVE  Seen'
<1>1. Seen' <=> \A w \in Workers : Busy(w)' => SeenBy(handler[w], UserOf(w))'
  BY DEF Seen, SeenBy, Conflict, InsertsUser, InsertsAccount
<1> SUFFICES ASSUME NEW v \in Workers, Busy(v)'
             PROVE  SeenBy(handler[v], UserOf(v))'
  BY <1>1
<1>2. \A w \in Workers : Busy(w) => SeenBy(handler[w], UserOf(w))
  BY SeenIsSeenBy DEF CoreInv
<1>3. handler \in [Workers -> Calls]
  BY DEF CoreTypeOK, Calls
<1>4. ASSUME handler'[v] = handler[v], UNCHANGED <<raw, users, accounts>>
      PROVE  SeenBy(handler[v], UserOf(v))'
  <2>1. Busy(v) /\ UserOf(v)' = UserOf(v)
    BY <1>4 DEF Busy, UserOf
  <2>2. SeenBy(handler[v], UserOf(v))
    BY <2>1, <1>2
  <2> QED
    BY <1>4, <2>1, <2>2 DEF SeenBy, AccountsOf
<1>5. ASSUME NEW w \in Workers, Drops(w) PROVE SeenBy(handler[v], UserOf(v))'
  <2>1. v # w
    BY <1>3, <1>5 DEF Drops, Busy, NoCall
  <2> QED
    BY <1>3, <1>4, <1>5, <2>1 DEF Drops
<1>6. ASSUME NEW w \in Workers, NEW g \in Calls, GoesOn(w, g)
      PROVE  SeenBy(handler[v], UserOf(v))'
  <2>1. CASE v # w
    BY <1>3, <1>4, <1>6, <2>1 DEF GoesOn
  <2>2. CASE v = w
    <3> DEFINE h == handler[w]
               u == UserOf(w)
    <3>1. handler'[v] = g /\ UserOf(v)' = u /\ SeenBy(h, u)
      BY <1>2, <1>3, <1>6, <2>2 DEF GoesOn, UserOf
    <3>2. g.hasUser => u \in users
      BY <1>6, <3>1 DEF GoesOn, SeenBy
    <3>3. g.account # Null => <<u, g.account>> \in accounts
      <4>1. \A a \in accounts : a = <<a[1], a[2]>>
        BY DEF StoreTypeOK
      <4> QED
        BY <1>6, <3>1, <4>1 DEF GoesOn, SeenBy, AccountsOf
    <3>4. g.held => /\ ~(~g.hasUser /\ u \in users)
                    /\ ~(g.account = Null /\ AccountsOf(u) # {})
                    /\ g.pc \in {"flushed", "decided"}
      <4>1. CASE g.held = h.held /\ (g.held => g.pc # "account")
        <5>1. h.held => h.pc # "user"
          BY <3>1 DEF SeenBy
        <5> QED
          BY <1>6, <3>1, <4>1, <5>1 DEF GoesOn, SeenBy
      <4>2. CASE g.held /\ g.pc = "flushed" /\ Unlocked(w) /\ ~Conflict(w)
        BY <1>6, <4>2 DEF GoesOn, Conflict, InsertsUser, InsertsAccount
      <4> QED
        BY <1>6, <4>1, <4>2 DEF GoesOn
    <3>5. UNCHANGED <<users, accounts>>
      BY <1>6 DEF GoesOn
    <3> QED
      BY <3>1, <3>2, <3>3, <3>4, <3>5 DEF SeenBy, AccountsOf
  <2> QED
    BY <2>1, <2>2
<1>7. ASSUME NEW w \in Workers, NEW t \in Tx, FindUser(w, t)
      PROVE  SeenBy(handler[v], UserOf(v))'
  <2>0. UNCHANGED <<raw, users, accounts>>
    BY <1>7 DEF FindUser, storeVars
  <2>1. CASE v # w
    BY <1>3, <1>4, <1>7, <2>0, <2>1 DEF FindUser
  <2>2. CASE v = w
    <3>1. handler'[v] = [NoCall EXCEPT !.pc = "user", !.tx = t,
                                       !.hasUser = raw[t].user \in users]
      BY <1>3, <1>7, <2>2 DEF FindUser
    <3>2. /\ handler'[v].tx = t /\ handler'[v].hasUser = (raw[t].user \in users)
          /\ handler'[v].account = Null /\ handler'[v].held = FALSE
      BY <3>1 DEF NoCall
    <3> QED
      BY <2>0, <3>2 DEF SeenBy, UserOf
  <2> QED
    BY <2>1, <2>2
<1>8. ASSUME NEW w \in Workers, Commits(w) PROVE SeenBy(handler[v], UserOf(v))'
  <2> DEFINE u == UserOf(w)
             account == IF handler[w].account = Null THEN handler[w].tx
                                                     ELSE handler[w].account
  <2>1. /\ users' = users \cup {u} /\ accounts' = accounts \cup {<<u, account>>}
        /\ UNCHANGED raw
    BY <1>8 DEF Commits
  <2>2. CASE v = w
    <3>1. /\ handler'[v].tx = handler[w].tx /\ ~handler'[v].held
          /\ handler'[v].account = handler[w].account
      BY <1>3, <1>8, <2>2 DEF Commits, Calls
    <3>2. UserOf(v)' = u
      BY <2>1, <3>1 DEF UserOf
    <3> QED
      BY <2>1, <3>1, <3>2 DEF SeenBy
  <2>3. CASE v # w
    <3>1. handler'[v] = handler[v] /\ UserOf(v)' = UserOf(v) /\ Busy(v)
      BY <1>3, <1>8, <2>1, <2>3 DEF Commits, UserOf, Busy
    <3>2. SeenBy(handler[v], UserOf(v))
      BY <1>2, <3>1
    <3>3. UserOf(v) \in UserIds
      BY <3>1 DEF CoreInv, Handlers, Busy, StoreTypeOK, UserOf, Event
    <3>4. CASE UserOf(v) # u
      BY <1>8, <2>1, <3>1, <3>2, <3>3, <3>4, CommitFacts DEF SeenBy, AccountsOf
    <3>5. CASE UserOf(v) = u
      <4>1. handler[v].held => Exclude(v, w)
        BY <1>8, <2>3, <3>5 DEF Commits, Unlocked, Exclude, CoreInv, Apart
      <4>2. SeenBy(handler[w], u)
        BY <1>2, <1>8, CommitFacts
      <4>3. handler[v].held => handler[v].hasUser /\ handler[v].account # Null
        <5>1. handler[w].account # Null => AccountsOf(u) # {}
          BY <4>2 DEF SeenBy, AccountsOf
        <5>2. handler[w].hasUser => u \in users
          BY <4>2 DEF SeenBy
        <5> QED
          BY <3>2, <3>5, <4>1, <5>1, <5>2
             DEF SeenBy, Exclude, InsertsUser, InsertsAccount
      <4> QED
        BY <2>1, <3>1, <3>2, <3>5, <4>3 DEF SeenBy
    <3> QED
      BY <3>4, <3>5
  <2> QED
    BY <2>2, <2>3
<1>9. CASE Aside
  BY <1>4, <1>9 DEF Aside
<1> QED
  BY <1>5, <1>6, <1>7, <1>8, <1>9, CoreSteps

LEMMA ApartStep ==
    ASSUME StoreTypeOK, CoreTypeOK, CoreInv, CoreNext
    PROVE  Apart'
<1>1. handler \in [Workers -> Calls]
  BY DEF CoreTypeOK, Calls
<1> DEFINE Held(v) == handler[v].held
           Clear(v, w) == v # w /\ Held(v) /\ Held(w) /\ UserOf(v) = UserOf(w)
                             => Exclude(v, w)
<1> SUFFICES ASSUME NEW v \in Workers, NEW w \in Workers PROVE Clear(v, w)'
  BY DEF Apart
<1>2. Clear(v, w)
  BY DEF CoreInv, Apart
<1>3. ASSUME handler'[v] = handler[v], handler'[w] = handler[w], UNCHANGED raw
      PROVE  Clear(v, w)'
  BY <1>2, <1>3 DEF UserOf, Exclude, InsertsUser, InsertsAccount
<1>4. ASSUME handler'[v].held = FALSE \/ handler'[w].held = FALSE PROVE Clear(v, w)'
  BY <1>4
<1>5. ASSUME NEW x \in Workers, NEW g, handler' = [handler EXCEPT ![x] = g],
             g.held = FALSE, UNCHANGED raw
      PROVE  Clear(v, w)'
  BY <1>1, <1>3, <1>4, <1>5
<1>6. ASSUME NEW x \in Workers, Drops(x) PROVE Clear(v, w)'
  <2>1. NoCall.held = FALSE
    BY DEF NoCall
  <2>2. handler' = [handler EXCEPT ![x] = NoCall] /\ UNCHANGED raw
    BY <1>6 DEF Drops
  <2> QED
    BY <1>5, <2>1, <2>2
<1>7. ASSUME NEW x \in Workers, NEW t \in Tx, FindUser(x, t) PROVE Clear(v, w)'
  <2> DEFINE g == [NoCall EXCEPT !.pc = "user", !.tx = t,
                                 !.hasUser = raw[t].user \in users]
  <2>1. g.held = FALSE
    BY DEF NoCall
  <2>2. handler' = [handler EXCEPT ![x] = g]
    BY <1>7, Zenon DEF FindUser
  <2>3. UNCHANGED raw
    BY <1>7 DEF FindUser, storeVars
  <2> HIDE DEF g
  <2> QED
    BY <1>5, <2>1, <2>2, <2>3
<1>8. ASSUME NEW x \in Workers, Commits(x) PROVE Clear(v, w)'
  <2> DEFINE g == [handler[x] EXCEPT !.pc = "committed", !.held = FALSE]
  <2>1. handler' = [handler EXCEPT ![x] = g] /\ g.held = FALSE
    BY <1>1, <1>8 DEF Commits, Calls
  <2> QED
    BY <1>5, <1>8, <2>1 DEF Commits
<1>9. CASE Aside
  BY <1>3, <1>9 DEF Aside
<1>10. ASSUME NEW x \in Workers, NEW g \in Calls, GoesOn(x, g) PROVE Clear(v, w)'
  <2>1. \A y \in Workers : handler'[y] = IF y = x THEN g ELSE handler[y]
    BY <1>1, <1>10 DEF GoesOn
  <2>2. UNCHANGED raw /\ g.tx = handler[x].tx
    BY <1>10 DEF GoesOn
  <2>3. \A y \in Workers : UserOf(y)' = UserOf(y)
    BY <2>1, <2>2 DEF UserOf
  <2>4. CASE g.held = handler[x].held /\ (g.held => g.pc # "account")
    <3>1. g.held => handler[x].pc # "user"
      BY <1>10, <2>4 DEF CoreInv, Seen, GoesOn
    <3>2. g.held => g.hasUser = handler[x].hasUser /\ g.account = handler[x].account
      BY <1>10, <3>1 DEF GoesOn
    <3>3. \A y \in Workers : handler'[y].held =>
             /\ handler[y].held /\ handler'[y].hasUser = handler[y].hasUser
             /\ handler'[y].account = handler[y].account
      BY <2>1, <2>4, <3>2
    <3> QED
      BY <1>2, <2>3, <3>3 DEF Exclude, InsertsUser, InsertsAccount
  <2>5. CASE g.held /\ g.pc = "flushed" /\ Unlocked(x)
    <3>1. g.hasUser = handler[x].hasUser /\ g.account = handler[x].account
      BY <1>10, <2>5 DEF GoesOn
    <3>2. \A y \in Workers : /\ handler'[y].hasUser = handler[y].hasUser
                             /\ handler'[y].account = handler[y].account
      BY <2>1, <3>1
    <3>3. \A y \in Workers : y # x /\ handler[y].held /\ UserOf(y) = UserOf(x)
                               => Exclude(y, x)
      BY <2>5 DEF Unlocked, Exclude
    <3> QED
      BY <1>2, <2>1, <2>3, <3>2, <3>3 DEF Exclude, InsertsUser, InsertsAccount
  <2> QED
    BY <1>10, <2>4, <2>5 DEF GoesOn
<1> QED
  BY <1>6, <1>7, <1>8, <1>9, <1>10, CoreSteps

LEMMA RetriedStep ==
    ASSUME StoreTypeOK, CoreTypeOK, CoreInv, CoreNext
    PROVE  Retried'
<1>1. handler \in [Workers -> Calls] /\ attempts \in [Tx -> 0 .. MaxAttempts]
  BY DEF CoreTypeOK, Calls
<1> DEFINE Found(h) == h.hasUser /\ (h.pc # "user" => h.account # Null)
<1> SUFFICES ASSUME NEW t \in Tx, attempts'[t] > 0
             PROVE  /\ attempts'[t] = 1
                    /\ raw'[t] # Null /\ raw'[t].user \in users'
                    /\ \A w \in Workers : handler'[w].tx = t => Found(handler'[w])
  BY DEF Retried
<1> DEFINE Goal == /\ attempts'[t] = 1
                   /\ raw'[t] # Null /\ raw'[t].user \in users'
                   /\ \A w \in Workers : handler'[w].tx = t => Found(handler'[w])
<1>2. attempts[t] > 0 =>
        /\ attempts[t] = 1
        /\ raw[t] # Null /\ raw[t].user \in users
        /\ \A w \in Workers : handler[w].tx = t => Found(handler[w])
  BY DEF CoreInv, Retried
<1>3. t # Null
  BY StoreAssumption
<1>4. ASSUME UNCHANGED <<raw, attempts>>, users \subseteq users',
             \A w \in Workers : handler'[w].tx = t =>
                handler'[w] = handler[w] \/ Found(handler'[w])
      PROVE  Goal
  BY <1>2, <1>4
<1>5. ASSUME NEW w \in Workers, Drops(w) PROVE Goal
  <2>1. \A v \in Workers : handler'[v] = IF v = w THEN NoCall ELSE handler[v]
    BY <1>1, <1>5 DEF Drops
  <2>2. NoCall.tx # t
    BY <1>3 DEF NoCall
  <2>3. CASE UNCHANGED attempts
    BY <1>4, <1>5, <2>1, <2>2, <2>3 DEF Drops
  <2>4. CASE ~UNCHANGED attempts /\ handler[w].tx # t
    BY <1>1, <1>2, <1>5, <2>1, <2>2, <2>4 DEF Drops
  <2>5. CASE ~UNCHANGED attempts /\ handler[w].tx = t
    <3>1. /\ Busy(w) /\ Conflict(w) /\ handler[w].pc # "user"
          /\ attempts' = [attempts EXCEPT ![t] = attempts[t] + 1]
          /\ UNCHANGED <<raw, users>>
      BY <1>5, <2>5 DEF Drops
    <3>2. ~Found(handler[w])
      BY <3>1 DEF Conflict, InsertsUser, InsertsAccount, CoreInv, Retried
    <3>3. attempts[t] = 0
      BY <1>1, <1>2, <2>5, <3>2
    <3>4. raw[t] # Null /\ raw[t].user \in UserIds /\ UserOf(w) = raw[t].user
      BY <2>5, <3>1 DEF CoreInv, Handlers, Busy, StoreTypeOK, Event, UserOf
    <3>5. raw[t].user \in users
      BY <3>1, <3>4 DEF Conflict, CoreInv, Tables
    <3>6. \A v \in Workers : handler'[v].tx # t
      BY <2>1, <2>2, <2>5, <3>1 DEF CoreInv, Handlers
    <3> QED
      BY <1>1, <3>1, <3>3, <3>4, <3>5, <3>6
  <2> QED
    BY <2>3, <2>4, <2>5
<1>6. ASSUME NEW w \in Workers, NEW g \in Calls, GoesOn(w, g) PROVE Goal
  <2>1. \A v \in Workers : handler'[v] = IF v = w THEN g ELSE handler[v]
    BY <1>1, <1>6 DEF GoesOn
  <2>2. UNCHANGED <<raw, attempts, users>> /\ g.tx = handler[w].tx
        /\ g.hasUser = handler[w].hasUser
    BY <1>6 DEF GoesOn
  <2>3. attempts[t] > 0 /\ g.tx = t => Found(g)
    <3> SUFFICES ASSUME attempts[t] > 0, g.tx = t PROVE Found(g)
      OBVIOUS
    <3>1. Found(handler[w]) /\ raw[t].user \in users /\ raw[t] # Null
      BY <1>2, <2>2
    <3>2. UserOf(w) = raw[t].user /\ raw[t].user \in UserIds
      BY <2>2, <3>1 DEF UserOf, StoreTypeOK, Event
    <3>3. AccountsOf(UserOf(w)) # {}
      BY <3>1, <3>2 DEF CoreInv, Tables
    <3>4. \A a \in AccountsOf(UserOf(w)) : a[2] # Null
      BY StoreAssumption DEF AccountsOf, StoreTypeOK
    <3>5. g.account # Null
      BY <1>6, <3>1, <3>3, <3>4 DEF GoesOn
    <3> QED
      BY <2>2, <3>1, <3>5
  <2> QED
    BY <1>4, <2>1, <2>2, <2>3
<1>7. ASSUME NEW w \in Workers, NEW x \in Tx, FindUser(w, x) PROVE Goal
  <2> DEFINE g == [NoCall EXCEPT !.pc = "user", !.tx = x,
                                 !.hasUser = raw[x].user \in users]
  <2>1. \A v \in Workers : handler'[v] = IF v = w THEN g ELSE handler[v]
    BY <1>1, <1>7 DEF FindUser
  <2>2. UNCHANGED <<raw, attempts, users>>
    BY <1>7 DEF FindUser, storeVars
  <2>3. g.pc = "user" /\ g.tx = x /\ (g.hasUser = (raw[x].user \in users))
    BY DEF NoCall
  <2> QED
    BY <1>2, <1>4, <2>1, <2>2, <2>3, ZenonT(30)
<1>8. ASSUME NEW w \in Workers, Commits(w) PROVE Goal
  <2>1. \A v \in Workers : handler'[v] =
           IF v = w THEN [handler[w] EXCEPT !.pc = "committed", !.held = FALSE]
           ELSE handler[v]
    BY <1>1, <1>8 DEF Commits
  <2>2. UNCHANGED <<raw, attempts>> /\ users \subseteq users' /\ handler[w].pc = "decided"
    BY <1>8 DEF Commits
  <2>3. attempts[t] > 0 /\ handler[w].tx = t => Found(handler[w])
    BY <1>2
  <2>4. \A v \in Workers : handler'[v].tx = handler[v].tx
    BY <1>1, <2>1, ZenonT(30) DEF Calls
  <2>5. Found(handler[w]) => Found(handler'[w])
    BY <1>1, <2>1, <2>2 DEF Calls
  <2> QED
    BY <1>2, <1>4, <2>1, <2>2, <2>3, <2>4, <2>5
<1>9. CASE Aside
  BY <1>4, <1>9 DEF Aside
<1> QED
  BY <1>5, <1>6, <1>7, <1>8, <1>9, CoreSteps

LEMMA UnwrittenStep ==
    ASSUME StoreTypeOK, CoreTypeOK, CoreInv, CoreNext
    PROVE  Unwritten'
<1>1. handler \in [Workers -> Calls] /\ row \in [Tx -> Row \cup {Null}]
  BY DEF CoreTypeOK, StoreTypeOK, Calls
<1> SUFFICES ASSUME NEW v \in Workers, Busy(v)', handler'[v].pc # "committed"
             PROVE  row'[handler'[v].tx] = Null
  BY DEF Unwritten
<1>2. ASSUME NEW w \in Workers, Busy(w), handler[w].pc # "committed"
      PROVE  row[handler[w].tx] = Null
  BY <1>2 DEF CoreInv, Unwritten
<1>3. ASSUME NEW w \in Workers, Drops(w) PROVE row'[handler'[v].tx] = Null
  <2>1. handler'[w].pc = "idle"
    BY <1>1, <1>3 DEF Drops, NoCall
  <2> QED
    BY <1>1, <1>2, <1>3, <2>1 DEF Drops, Busy
<1>4. ASSUME NEW w \in Workers, NEW g \in Calls, GoesOn(w, g)
      PROVE  row'[handler'[v].tx] = Null
  <2>1. handler'[v] = (IF v = w THEN g ELSE handler[v]) /\ UNCHANGED row
        /\ g.tx = handler[w].tx
    BY <1>1, <1>4 DEF GoesOn
  <2>2. CASE v = w
    BY <1>2, <1>4, <2>1, <2>2 DEF GoesOn
  <2>3. CASE v # w
    BY <1>2, <2>1, <2>3 DEF Busy
  <2> QED
    BY <2>2, <2>3
<1>5. ASSUME NEW w \in Workers, Commits(w) PROVE row'[handler'[v].tx] = Null
  <2>1. v # w /\ handler'[v] = handler[v]
    BY <1>1, <1>5 DEF Commits, Calls
  <2>2. Busy(v) /\ handler[v].pc # "committed"
    BY <2>1 DEF Busy
  <2>3. handler[v].tx # handler[w].tx
    BY <2>1, <2>2 DEF CoreInv, Handlers
  <2>4. row'[handler[v].tx] = row[handler[v].tx]
    <3>1. handler[v].tx \in Tx
      BY <2>2 DEF CoreInv, Handlers, Busy
    <3> QED
      BY <1>1, <1>5, <2>3, <3>1 DEF Commits
  <2> QED
    BY <1>2, <2>1, <2>2, <2>4
<1>6. ASSUME NEW w \in Workers, NEW t \in Tx, FindUser(w, t)
      PROVE  row'[handler'[v].tx] = Null
  <2>1. UNCHANGED row /\ row[t] = Null
    BY <1>6 DEF FindUser, storeVars
  <2>2. CASE v # w
    BY <1>1, <1>2, <1>6, <2>1, <2>2 DEF FindUser, Busy
  <2>3. CASE v = w
    <3>1. handler'[v] = [NoCall EXCEPT !.pc = "user", !.tx = t,
                                       !.hasUser = raw[t].user \in users]
      BY <1>1, <1>6, <2>3 DEF FindUser
    <3>2. handler'[v].tx = t
      BY <3>1 DEF NoCall
    <3> QED
      BY <2>1, <3>2
  <2> QED
    BY <2>2, <2>3
<1>7. CASE Aside
  <2>1. Busy(v) /\ handler[v].pc # "committed" /\ UNCHANGED handler
    BY <1>7 DEF Aside, Busy
  <2>2. PICK q \in Tx : q = handler[v].tx
    BY <2>1 DEF CoreInv, Handlers, Busy
  <2>3. row[q] = Null
    BY <1>2, <2>1, <2>2
  <2>4. row'[q] = Null
    BY <1>1, <1>7, <2>3 DEF Aside
  <2> QED
    BY <2>1, <2>2, <2>4
<1> QED
  BY <1>3, <1>4, <1>5, <1>6, <1>7, CoreSteps

\* Rows are never deleted or overwritten; a status changes to the LLM's only.
LEMMA RowsGrow ==
    ASSUME StoreTypeOK, CoreTypeOK, CoreInv, CoreNext, NEW t \in Tx, row[t] # Null
    PROVE  /\ row'[t] # Null
           /\ row'[t].user = row[t].user /\ row'[t].date = row[t].date
           /\ row'[t].status \in {row[t].status, "llm"}
<1> DEFINE Goal == /\ row'[t] # Null
                   /\ row'[t].user = row[t].user /\ row'[t].date = row[t].date
                   /\ row'[t].status \in {row[t].status, "llm"}
<1>1. row \in [Tx -> Row \cup {Null}]
  BY DEF StoreTypeOK
<1>2. CASE UNCHANGED row
  BY <1>2
<1>3. ASSUME NEW w \in Workers, Commits(w) PROVE Goal
  <2>1. row[handler[w].tx] = Null
    BY <1>3 DEF Commits, CoreInv, Unwritten, Busy
  <2> QED
    BY <1>1, <1>3, <2>1 DEF Commits
<1>4. CASE Aside
  <2>1. ASSUME NEW x \in Tx, row[x] # Null, row' = [row EXCEPT ![x].status = "llm"]
        PROVE  Goal
    <3>1. row[t] \in Row
      BY <1>1
    <3>2. [row[t] EXCEPT !.status = "llm"] \in Row
      BY <3>1 DEF Row, Status
    <3>3. row'[t] = IF x = t THEN [row[t] EXCEPT !.status = "llm"] ELSE row[t]
      BY <1>1, <2>1
    <3> QED
      BY <3>1, <3>2, <3>3, NullIsNoRow DEF Row
  <2> QED
    BY <1>2, <1>4, <2>1 DEF Aside
<1> QED
  BY <1>2, <1>3, <1>4, CoreSteps DEF Drops, GoesOn, FindUser, storeVars

\* A step of the core keeps the invariant.
LEMMA CoreInvStep ==
    ASSUME StoreTypeOK, CoreTypeOK, CoreInv, CoreNext
    PROVE  CoreInv'
BY HandlersStep, TablesStep, SeenStep, ApartStep, RetriedStep, UnwrittenStep DEF CoreInv

-----------------------------------------------------------------------------
\* What a step of the core does to the topics and the history.
LEMMA CoreTopics ==
    ASSUME StoreTypeOK, CoreTypeOK, CoreInv, CoreNext
    PROVE  /\ UNCHANGED <<raw, responses>>
           /\ \/ UNCHANGED requests
              \/ \E t \in Tx : requests' = Append(requests, t)
           /\ lost \subseteq lost'
           /\ lost' \subseteq Tx \X {"event", "request", "response", "dropped"}
           /\ faults' \in 0 .. MaxFaults
           /\ labelled' \in 0 .. Len(responses)
<1> DEFINE Goal ==
           /\ UNCHANGED <<raw, responses>>
           /\ \/ UNCHANGED requests
              \/ \E t \in Tx : requests' = Append(requests, t)
           /\ lost \subseteq lost'
           /\ lost' \subseteq Tx \X {"event", "request", "response", "dropped"}
           /\ faults' \in 0 .. MaxFaults
           /\ labelled' \in 0 .. Len(responses)
<1> USE DEF StoreTypeOK, CoreTypeOK
<1>1. \A w \in Workers : Busy(w) => handler[w].tx \in Tx
  BY DEF CoreInv, Handlers, Busy
<1>2. ASSUME NEW w \in Workers, Busy(w), Fails(w) PROVE Goal
  BY <1>1, <1>2 DEF Fails
<1>3. ASSUME NEW w \in Workers, NEW t \in Tx, SkipDuplicate(w, t) \/ FindUser(w, t)
      PROVE  Goal
  BY <1>3 DEF SkipDuplicate, FindUser, storeVars
<1>4. ASSUME NEW w \in Workers, FindAccount(w) \/ Decide(w) \/ Acknowledge(w)
      PROVE  Goal
  BY <1>4 DEF FindAccount, Decide, Acknowledge, storeVars
<1>5. ASSUME NEW w \in Workers, Flush(w) PROVE Goal
  <2>1. Busy(w)
    BY <1>5 DEF Flush, Busy
  <2> QED
    BY <1>2, <1>5, <2>1 DEF Flush, storeVars
<1>6. ASSUME NEW w \in Workers, PublishRequest(w) PROVE Goal
  <2>1. handler[w].tx \in Tx
    BY <1>1, <1>6 DEF PublishRequest, Busy
  <2> QED
    BY <1>6, <2>1, StoreAssumption, SMTT(30) DEF PublishRequest, Fault
<1>7. ASSUME NEW w \in Workers, CommitRaw(w) PROVE Goal
  <2>1. Busy(w)
    BY <1>7 DEF CommitRaw, Busy
  <2>2. Fails(w) \/ UNCHANGED <<raw, requests, responses, lost, faults, labelled>>
    BY <1>7 DEF CommitRaw
  <2> QED
    BY <1>2, <2>1, <2>2
<1>8. ASSUME NEW w \in Workers, CoreCrash(w) PROVE Goal
  BY <1>8, StoreAssumption DEF CoreCrash, Fault
<1>9. CASE ApplyResponse
  <2>1. responses[labelled + 1] \in Tx
    BY <1>9 DEF ApplyResponse
  <2> QED
    BY <1>9, <2>1 DEF ApplyResponse
<1> QED
  BY <1>3, <1>4, <1>5, <1>6, <1>7, <1>8, <1>9 DEF CoreNext, Handle

-----------------------------------------------------------------------------
(* The beginning, and the steps of others.                                 *)

LEMMA CoreInitially ==
    ASSUME CoreInit, NEW events, StoreInit(events), events \in [Tx -> Event \cup {Null}]
    PROVE  StoreTypeOK /\ CoreTypeOK /\ CoreInv
<1>1. StoreTypeOK
  BY StoreAssumption DEF StoreInit, StoreTypeOK
<1>2. CoreTypeOK
  BY BootstrapAssumption DEF StoreInit, CoreInit, CoreTypeOK, NoCall
<1>3. \A w \in Workers : handler[w].pc = "idle" /\ handler[w].tx = Null
                         /\ handler[w].held = FALSE
  BY DEF CoreInit, NoCall
<1>4. Handlers
  BY <1>3, BootstrapAssumption DEF CoreInit, Handlers, Busy
<1>5. Tables
  BY DEF StoreInit, Tables, AccountsOf
<1>6. Seen /\ Apart /\ Retried /\ Unwritten
  BY <1>3 DEF CoreInit, Seen, Apart, Retried, Unwritten, Busy
<1> QED
  BY <1>1, <1>2, <1>4, <1>5, <1>6 DEF CoreInv

\* What the tables and the events say is all that the invariant reads.
LEMMA CoreInvStays ==
    ASSUME CoreInv, UNCHANGED <<raw, users, accounts, row, handler, attempts, acked>>
    PROVE  CoreInv'
BY DEF CoreInv, Handlers, Tables, Seen, Apart, Retried, Unwritten, Busy, AccountsOf,
       UserOf, Conflict, Exclude, InsertsUser, InsertsAccount

\* A new event arrives.
LEMMA CoreInvDelivery ==
    ASSUME StoreTypeOK, CoreTypeOK, CoreInv, NEW t \in Tx, NEW e \in Event,
           raw[t] = Null, raw' = [raw EXCEPT ![t] = e],
           UNCHANGED <<users, accounts, row, handler, attempts, acked>>
    PROVE  CoreInv'
<1>1. \A x \in Tx : raw[x] # Null => raw'[x] = raw[x]
  BY DEF StoreTypeOK
<1>2. \A w \in Workers : Busy(w) => handler[w].tx \in Tx /\ raw[handler[w].tx] # Null
  BY DEF CoreInv, Handlers, Busy
<1>3. \A w \in Workers : Busy(w) => UserOf(w)' = UserOf(w)
  BY <1>1, <1>2 DEF UserOf
<1>4. \A w \in Workers : handler[w].held => Busy(w)
  BY DEF CoreInv, Handlers, Busy
<1>5. Handlers'
  BY <1>1, <1>2 DEF CoreInv, Handlers, Busy
<1>6. Tables' /\ Unwritten'
  BY DEF CoreInv, Tables, Unwritten, AccountsOf, Busy
<1>7. Seen'
  BY <1>3 DEF CoreInv, Seen, Busy, Conflict, AccountsOf, InsertsUser, InsertsAccount
<1>8. Apart'
  BY <1>3, <1>4 DEF CoreInv, Apart, Exclude, InsertsUser, InsertsAccount
<1>9. Retried'
  BY <1>1 DEF CoreInv, Retried
<1> QED
  BY <1>5, <1>6, <1>7, <1>8, <1>9 DEF CoreInv
=============================================================================
