------------------------- MODULE VerifiedBatchProofs -------------------------
(***************************************************************************)
(* The theorems of VerifiedBatch, for every configuration, any number of   *)
(* transactions, users, listener threads and faults: what a generated      *)
(* batch looks like, and what the tester knows of what it has sent.        *)
(***************************************************************************)
EXTENDS VerifiedBatch, UserBootstrapProofs, FiniteSetTheorems, WellFoundedInduction

-----------------------------------------------------------------------------
(* The generator: a batch, and the users it is for.                        *)

\* Selected is not unfolded: that it is at most the total is all that is used.
LEMMA Configured ==
    ASSUME NEW cfg \in Config, Valid(cfg)
    PROVE  /\ cfg.users \in Nat \ {0} /\ cfg.perUser \in Nat \ {0}
           /\ Total(cfg) \in Nat \ {0}
           /\ Larger(Total(cfg), Selected(cfg)) = Total(cfg)
           /\ IdsNeeded(cfg) \in Nat \ {0}
<1>1. cfg.users \in Nat \ {0} /\ cfg.perUser \in Nat \ {0}
  BY DEF Config
<1>2. Total(cfg) \in Nat \ {0}
  <2>1. ASSUME NEW a \in Nat \ {0}, NEW b \in Nat \ {0} PROVE a * b \in Nat \ {0}
    BY <2>1
  <2> QED
    BY <1>1, <2>1 DEF Total
<1>3. Larger(Total(cfg), Selected(cfg)) = Total(cfg)
  BY DEF Valid, Larger
<1> QED
  BY <1>1, <1>2, <1>3 DEF IdsNeeded

\* Numbers 0 .. u * p - 1 in u blocks of p.
LEMMA Quotient ==
    ASSUME NEW u \in Nat \ {0}, NEW p \in Nat \ {0}, NEW i \in Nat, i < u * p
    PROVE  /\ i \div p \in 0 .. u - 1
           /\ \A k \in Nat : i \div p = k <=> k * p <= i /\ i < k * p + p
<1> DEFINE q == i \div p  r == i % p
<1>1. q \in Int /\ r \in Int /\ 0 <= q /\ 0 <= r /\ r < p /\ i = p * q + r
  OBVIOUS
<1> HIDE DEF q, r
<1>2. q < u
  <2>1. ASSUME q >= u PROVE FALSE
    <3>1. p * q >= p * u
      BY <1>1, <2>1
    <3> QED
      BY <1>1, <3>1
  <2> QED
    BY <1>1, <2>1
<1>3. ASSUME NEW k \in Nat, k * p <= i, i < k * p + p PROVE q = k
  <2>1. ASSUME q > k PROVE FALSE
    <3>1. p * q >= p * (k + 1)
      BY <1>1, <2>1
    <3> QED
      BY <1>1, <1>3, <3>1
  <2>2. ASSUME q < k PROVE FALSE
    <3>1. p * k >= p * (q + 1)
      BY <1>1, <2>2
    <3> QED
      BY <1>1, <1>3, <3>1
  <2> QED
    BY <1>1, <2>1, <2>2
<1> QED
  BY <1>1, <1>2, <1>3 DEF q

\* The same, counted from 1: block k has the numbers (k - 1) * p + 1 .. k * p.
LEMMA Blocks ==
    ASSUME NEW u \in Nat \ {0}, NEW p \in Nat \ {0}, NEW i \in 1 .. u * p
    PROVE  /\ ((i - 1) \div p) + 1 \in 1 .. u
           /\ \A k \in 1 .. u :
                 ((i - 1) \div p) + 1 = k <=> i \in (k - 1) * p + 1 .. k * p
<1> DEFINE j == i - 1  q == j \div p
<1>1. j \in Nat /\ j < u * p
  <2>1. u * p \in Nat
    OBVIOUS
  <2> QED
    BY <2>1
<1> HIDE DEF j
<1>2. q \in 0 .. u - 1 /\ \A k \in Nat : q = k <=> k * p <= j /\ j < k * p + p
  BY <1>1, Quotient
<1> HIDE DEF q
<1>3. ASSUME NEW k \in 1 .. u PROVE q + 1 = k <=> i \in (k - 1) * p + 1 .. k * p
  <2>1. k - 1 \in Nat /\ (q + 1 = k <=> q = k - 1)
    BY <1>2
  <2>2. q = k - 1 <=> (k - 1) * p <= j /\ j < (k - 1) * p + p
    BY <1>2, <2>1
  <2>3. (k - 1) * p \in Nat /\ k * p = (k - 1) * p + p /\ i = j + 1
    BY <2>1 DEF j
  <2> QED
    BY <1>1, <2>1, <2>2, <2>3
<1> QED
  BY <1>2, <1>3 DEF q, j

\* The i-th transaction belongs to one of the ids.
LEMMA OwnerIsOneOfThem ==
    ASSUME NEW cfg \in Config, Valid(cfg), NEW ids, NEW i \in 1 .. Total(cfg)
    PROVE  \E k \in 1 .. IdsNeeded(cfg) : Owner(cfg, ids, i) = ids[k]
<1>1. CASE cfg.target = "uuid"
  BY <1>1 DEF Owner, IdsNeeded
<1>2. CASE cfg.target # "uuid"
  <2>1. /\ cfg.users \in Nat \ {0} /\ cfg.perUser \in Nat \ {0}
        /\ Total(cfg) = cfg.users * cfg.perUser
    BY Configured DEF Total
  <2>2. ((i - 1) \div cfg.perUser) + 1 \in 1 .. cfg.users
    BY <2>1, Blocks
  <2> QED
    BY <1>2, <2>2 DEF Owner, IdsNeeded
<1> QED
  BY <1>1, <1>2

LEMMA BatchShape ==
    ASSUME NEW cfg \in Config, Valid(cfg), NEW ids, NEW batch \in Batches(cfg, ids)
    PROVE  \E categories \in CategoryPlans(cfg), profiles \in ProfilePlans(cfg),
              dates \in [1 .. Total(cfg) -> DatesOf(cfg)] :
              /\ DOMAIN categories = 1 .. Total(cfg)
              /\ batch = [i \in 1 .. Total(cfg) |->
                    Transaction(Owner(cfg, ids, i), categories[i],
                                ProfileFor(categories[i], profiles[i]), dates[i])]
<1>1. Larger(Total(cfg), Selected(cfg)) = Total(cfg)
  BY Configured
<1>2. \A plan \in CategoryPlans(cfg) : DOMAIN plan = 1 .. Total(cfg)
  BY <1>1 DEF CategoryPlans
<1>3. PICK categories \in CategoryPlans(cfg), profiles \in ProfilePlans(cfg),
           dates \in [1 .. Total(cfg) -> DatesOf(cfg)] :
              batch = [i \in DOMAIN categories |->
                    Transaction(Owner(cfg, ids, i), categories[i],
                                ProfileFor(categories[i], profiles[i]), dates[i])]
  BY <1>1 DEF Batches
<1>4. DOMAIN categories = 1 .. Total(cfg)
  BY <1>2
<1> QED
  BY <1>3, <1>4

\* Every event of a batch is for one of the ids, and has a date.
LEMMA BatchEvents ==
    ASSUME NEW cfg \in Config, Valid(cfg), NEW ids, NEW batch \in Batches(cfg, ids)
    PROVE  /\ DOMAIN batch = 1 .. Total(cfg)
           /\ \A i \in 1 .. Total(cfg) :
                 /\ batch[i].date \in Nat
                 /\ \E k \in 1 .. IdsNeeded(cfg) : batch[i].user = ids[k]
<1>1. PICK categories \in CategoryPlans(cfg), profiles \in ProfilePlans(cfg),
           dates \in [1 .. Total(cfg) -> DatesOf(cfg)] :
              batch = [i \in 1 .. Total(cfg) |->
                    Transaction(Owner(cfg, ids, i), categories[i],
                                ProfileFor(categories[i], profiles[i]), dates[i])]
  BY BatchShape
<1>2. \A i \in 1 .. Total(cfg) : /\ batch[i].date = dates[i]
                                /\ batch[i].user = Owner(cfg, ids, i)
  BY <1>1 DEF Transaction
<1>3. \A i \in 1 .. Total(cfg) : dates[i] \in Nat
  BY GeneratorAssumption DEF DatesOf
<1> QED
  BY <1>1, <1>2, <1>3, OwnerIsOneOfThem

\* A share of n hundredths of a total, rounded, is not more than the total.
LEMMA RoundedShare ==
    ASSUME NEW total \in Nat, NEW share \in 0 .. 100
    PROVE  RoundHundredths(total * share) \in 0 .. total
<1> DEFINE n == total * share  q == n \div 100  r == n % 100
<1>1. n \in Nat /\ n <= 100 * total
  <2>1. total * share <= total * 100
    OBVIOUS
  <2> QED
    BY <2>1
<1> HIDE DEF n
<1>2. q \in Nat /\ r \in 0 .. 99 /\ n = 100 * q + r
  BY <1>1
<1>3. RoundHundredths(n) = q \/ (RoundHundredths(n) = q + 1 /\ r >= 50)
  BY <1>2 DEF RoundHundredths
<1>4. RoundHundredths(n) \in 0 .. total
  BY <1>1, <1>2, <1>3
<1> QED
  BY <1>4 DEF n

\* The three targets add up, with the clamp where both round up.
LEMMA TargetsAddUp ==
    ASSUME NEW total \in Nat, NEW ambiguous \in 0 .. 100, NEW low \in 0 .. 100
    PROVE  LET t == Targets(total, ambiguous, low) IN
           /\ \A p \in Profiles : t[p] \in Nat
           /\ t["ambiguous"] + t["low_confidence"] + t["normal"] = total
<1> DEFINE a == RoundHundredths(total * ambiguous)
           l == RoundHundredths(total * low)
           fits == IF a + l > total THEN Larger(0, total - a) ELSE l
           t == Targets(total, ambiguous, low)
<1>1. a \in 0 .. total /\ l \in 0 .. total
  BY RoundedShare
<1>2. /\ t["ambiguous"] = a /\ t["low_confidence"] = fits
      /\ t["normal"] = Larger(0, total - a - fits)
  BY DEF Targets, Profiles
<1> HIDE DEF a, l, t
<1>3. /\ t["ambiguous"] \in Nat /\ t["low_confidence"] \in Nat /\ t["normal"] \in Nat
      /\ t["ambiguous"] + t["low_confidence"] + t["normal"] = total
  BY <1>1, <1>2 DEF Larger
<1> QED
  BY <1>3 DEF Profiles, t

\* What generate_transactions returns is what the page announces: the rounding,
\* the fallbacks and the spreading over the users included.
LEMMA BatchAsConfigured ==
    ASSUME NEW cfg \in Config, Valid(cfg), NEW ids, NEW batch \in Batches(cfg, ids),
           \A j, k \in 1 .. IdsNeeded(cfg) : ids[j] = ids[k] => j = k
    PROVE  AsConfigured(cfg, ids, batch)
<1> DEFINE n == Total(cfg)
           t == TargetsOf(cfg)
<1>1. n \in Nat \ {0}
  BY Configured
<1>2. PICK categories \in CategoryPlans(cfg), profiles \in ProfilePlans(cfg),
           dates \in [1 .. n -> DatesOf(cfg)] :
              /\ DOMAIN categories = 1 .. n
              /\ batch = [i \in 1 .. n |->
                    Transaction(Owner(cfg, ids, i), categories[i],
                                ProfileFor(categories[i], profiles[i]), dates[i])]
  BY BatchShape
<1>3. /\ \A p \in Profiles : t[p] \in Nat
      /\ t["ambiguous"] + t["low_confidence"] + t["normal"] = n
  BY <1>1, TargetsAddUp DEF Config, TargetsOf
<1>4. DOMAIN profiles = 1 .. n /\ \A i \in 1 .. n : profiles[i] \in Profiles
  BY <1>3 DEF ProfilePlans
<1>5. \A i \in 1 .. n : /\ batch[i].user = Owner(cfg, ids, i)
                        /\ batch[i].category = categories[i]
                        /\ batch[i].profile = ProfileFor(categories[i], profiles[i])
  BY <1>2 DEF Transaction
<1>6. DOMAIN batch = 1 .. n
  BY <1>2
<1>7. Len(batch) = n
  BY <1>1, <1>2
<1>8. \A S : S \subseteq 1 .. n => IsFiniteSet(S)
  <2>1. IsFiniteSet(1 .. n)
    BY <1>1, FS_Interval
  <2> QED
    BY <2>1, FS_Subset
<1>9. ASSUME NEW c \in Categories
      PROVE  Cardinality({i \in 1 .. n : batch[i].category = c}) >= cfg.counts[c]
  <2>1. {i \in 1 .. n : batch[i].category = c} = {i \in 1 .. n : categories[i] = c}
    BY <1>5
  <2> QED
    BY <1>2, <2>1 DEF CategoryPlans, Occurrences
<1>10. \A p \in Profiles : Cardinality({i \in 1 .. n : profiles[i] = p}) = t[p]
  BY <1>4 DEF ProfilePlans, Occurrences
<1>11. Cardinality({i \in 1 .. n : batch[i].profile = "ambiguous"}) = t["ambiguous"]
  <2>1. {i \in 1 .. n : batch[i].profile = "ambiguous"}
          = {i \in 1 .. n : profiles[i] = "ambiguous"}
    BY <1>5 DEF ProfileFor
  <2> QED
    BY <1>10, <2>1 DEF Profiles
<1>12. Cardinality({i \in 1 .. n : batch[i].profile = "low_confidence"})
         <= t["low_confidence"]
  <2> DEFINE all == {i \in 1 .. n : profiles[i] = "low_confidence"}
             low == {i \in 1 .. n : batch[i].profile = "low_confidence"}
  <2>1. low \subseteq all /\ IsFiniteSet(all)
    BY <1>5, <1>8 DEF ProfileFor
  <2>2. Cardinality(low) <= Cardinality(all)
    BY <2>1, FS_Subset
  <2> QED
    BY <1>10, <2>2 DEF Profiles
<1>13. Cardinality({i \in 1 .. n : batch[i].profile = "normal"
                                   /\ batch[i].category \in WithMcc}) <= t["normal"]
  <2> DEFINE all == {i \in 1 .. n : profiles[i] = "normal"}
             real == {i \in 1 .. n : batch[i].profile = "normal"
                                    /\ batch[i].category \in WithMcc}
  <2>1. real \subseteq all /\ IsFiniteSet(all)
    BY <1>5, <1>8 DEF ProfileFor
  <2>2. Cardinality(real) <= Cardinality(all)
    BY <2>1, FS_Subset
  <2> QED
    BY <1>10, <2>2 DEF Profiles
<1>14. ASSUME NEW k \in 1 .. IdsNeeded(cfg)
       PROVE  Cardinality({i \in 1 .. n : batch[i].user = ids[k]})
                = n \div IdsNeeded(cfg)
  <2> DEFINE mine == {i \in 1 .. n : batch[i].user = ids[k]}
  <2>1. CASE cfg.target = "uuid"
    <3>1. IdsNeeded(cfg) = 1 /\ k = 1
      BY <2>1 DEF IdsNeeded
    <3>2. mine = 1 .. n
      BY <1>5, <2>1, <3>1 DEF Owner
    <3>3. Cardinality(1 .. n) = n
      BY <1>1, FS_Interval
    <3>4. n \div 1 = n
      BY <1>1
    <3> QED
      BY <3>1, <3>2, <3>3, <3>4
  <2>2. CASE cfg.target # "uuid"
    <3> DEFINE u == cfg.users  p == cfg.perUser
    <3>1. u \in Nat \ {0} /\ p \in Nat \ {0} /\ n = u * p /\ k \in 1 .. u
          /\ IdsNeeded(cfg) = u
      BY <2>2, Configured DEF Total, IdsNeeded
    <3>2. ASSUME NEW i \in 1 .. n
          PROVE  i \in mine <=> i \in (k - 1) * p + 1 .. k * p
      <4> DEFINE b == ((i - 1) \div p) + 1
      <4>1. b \in 1 .. u /\ (b = k <=> i \in (k - 1) * p + 1 .. k * p)
        BY <3>1, Blocks
      <4>2. batch[i].user = ids[b]
        BY <1>5, <2>2 DEF Owner
      <4> HIDE DEF b
      <4> QED
        BY <3>1, <4>1, <4>2
    <3>3. /\ (k - 1) * p \in Nat /\ k * p = (k - 1) * p + p /\ k * p <= u * p
      BY <3>1
    <3>4. mine = (k - 1) * p + 1 .. k * p /\ Cardinality(mine) = p
      <4> HIDE DEF u, p
      <4> DEFINE a == (k - 1) * p
      <4>1. a \in Nat /\ k * p = a + p /\ a + p <= n /\ p \in Nat
        BY <3>1, <3>3
      <4>2. \A i \in 1 .. n : i \in mine <=> i \in a + 1 .. a + p
        BY <3>2, <4>1
      <4> HIDE DEF a
      <4>4. a + 1 .. a + p \subseteq 1 .. n /\ mine \subseteq 1 .. n
        BY <1>1, <4>1
      <4>5. mine = a + 1 .. a + p
        <5> HIDE DEF mine
        <5> QED
          BY <4>2, <4>4
      <4>3. Cardinality(a + 1 .. a + p) = p
        BY <3>1, <4>1, FS_Interval
      <4> QED
        BY <4>1, <4>5, <4>3 DEF a
    <3>5. n \div u = p
      BY <3>1
    <3> QED
      BY <3>1, <3>4, <3>5
  <2> QED
    BY <2>1, <2>2
<1> HIDE DEF n, t
<1>15. /\ \A u \in {ids[k] : k \in 1 .. IdsNeeded(cfg)} :
             Cardinality({i \in DOMAIN batch : batch[i].user = u})
               = n \div IdsNeeded(cfg)
       /\ \A c \in Categories :
             Cardinality({i \in DOMAIN batch : batch[i].category = c}) >= cfg.counts[c]
       /\ Cardinality({i \in DOMAIN batch : batch[i].profile = "ambiguous"})
             = t["ambiguous"]
       /\ Cardinality({i \in DOMAIN batch : batch[i].profile = "low_confidence"})
             <= t["low_confidence"]
       /\ Cardinality({i \in DOMAIN batch : batch[i].profile = "normal"
                                           /\ batch[i].category \in WithMcc})
             <= t["normal"]
  <2> HIDE DEF n, t
  <2>1. \A u \in {ids[k] : k \in 1 .. IdsNeeded(cfg)} :
             Cardinality({i \in 1 .. n : batch[i].user = u}) = n \div IdsNeeded(cfg)
    <3> SUFFICES ASSUME NEW k \in 1 .. IdsNeeded(cfg)
                 PROVE  Cardinality({i \in 1 .. n : batch[i].user = ids[k]})
                          = n \div IdsNeeded(cfg)
      OBVIOUS
    <3> QED
      BY <1>14
  <2>2. \A c \in Categories :
             Cardinality({i \in 1 .. n : batch[i].category = c}) >= cfg.counts[c]
    BY <1>9
  <2> QED
    BY <1>6, <1>11, <1>12, <1>13, <2>1, <2>2, Zenon
<1> QED
  BY <1>3, <1>7, <1>15, Zenon DEF AsConfigured, n, t

\* The users a batch is made for: as many as are needed, no two the same.
LEMMA IdsAreDistinct ==
    ASSUME NEW cfg \in Previewed \cup Published, Valid(cfg), known = {}
    PROVE  /\ Ids(cfg) \in [1 .. IdsNeeded(cfg) -> UserIds]
           /\ \A j, k \in 1 .. IdsNeeded(cfg) : Ids(cfg)[j] = Ids(cfg)[k] => j = k
<1>1. cfg \in Config
  BY TesterAssumption
<1>2. CASE cfg.target = "uuid"
  BY <1>2, TesterAssumption DEF Ids, IdsNeeded
<1>3. CASE cfg.target # "uuid"
  <2>1. cfg.target = "none"
    BY <1>1, <1>3 DEF Config, Valid
  <2>2. \E ids \in [1 .. cfg.users -> UserIds \ {TargetUser}] :
           \A i, j \in 1 .. cfg.users : ids[i] = ids[j] => i = j
    BY <2>1, IdsAssumption
  <2>3. Ids(cfg) = CHOOSE ids \in [1 .. cfg.users -> UserIds \ {TargetUser}] :
                      \A i, j \in 1 .. cfg.users : ids[i] = ids[j] => i = j
    <3>1. UserIds \ (known \cup {TargetUser}) = UserIds \ {TargetUser}
      OBVIOUS
    <3> QED
      BY <1>3, <3>1, Zenon DEF Ids
  <2>4. /\ Ids(cfg) \in [1 .. cfg.users -> UserIds \ {TargetUser}]
        /\ \A i, j \in 1 .. cfg.users : Ids(cfg)[i] = Ids(cfg)[j] => i = j
    BY <2>2, <2>3, Zenon
  <2> QED
    BY <1>3, <2>4 DEF IdsNeeded
<1> QED
  BY <1>2, <1>3

-----------------------------------------------------------------------------
(* The invariant of the tester, in parts.                                  *)

Running == ui \in {"publishing", "polling", "walking"}

\* There is one run, and nothing is sent before it.
BeforeRun == ~ran => known = {} /\ \A t \in Tx : raw[t] = Null

\* While a run is under way, what was sent is part of its batch.
BatchSent == Running =>
    /\ ran
    /\ Expected \subseteq Tx
    /\ work.ids \in Seq(UserIds) /\ work.ids # <<>>
    /\ \A t \in Expected : work.batch[t].user \in known /\ work.batch[t].date \in Nat
    /\ \A t \in Tx : raw[t] # Null => t \in Expected

\* An event is delivered once; none arrives after the publishing.
InFlight ==
    /\ ui = "publishing" => \A t \in Tx : t >= next => raw[t] = Null
    /\ late # {} => ui = "publishing"
    /\ \A t \in late : t < next /\ raw[t] = Null /\ t \in Expected

\* What the verification has read was in the core.
Screens ==
    /\ \A t \in Tx : Shown(t, matched[t])
    /\ walk # Null => \A t \in Tx : Shown(t, walk.got[t])

\* The verdict, and that nothing is sent behind its back.
Verdict == summary # Null =>
    /\ ran /\ ui \in {"idle", "exploring"}
    /\ Found(summary.found) \cup summary.missing = summary.generated
    /\ Found(summary.found) \cap summary.missing = {}
    /\ \A t \in Tx : Shown(t, summary.found[t])

\* What a poll has matched was generated.
Matches == Found(matched) \subseteq IF ui \in {"polling", "walking"} THEN Expected ELSE {}

TesterInv == /\ BeforeRun /\ BatchSent /\ InFlight /\ Screens /\ Matches /\ Verdict
             /\ SentUsersAreKnown /\ BatchIsAsConfigured

-----------------------------------------------------------------------------
(* What the tester does to the store.                                      *)

Delivered(t) == [user |-> work.batch[t].user, date |-> work.batch[t].date]

\* Only events that were not there before, and only those of the batch.
Delivers ==
    /\ ui = "publishing"
    /\ \E t \in Tx : /\ t \in Expected /\ raw[t] = Null
                     /\ raw' = [raw EXCEPT ![t] = Delivered(t)]
                     /\ t < next'

LEMMA TesterStore ==
    ASSUME StoreTypeOK, TesterTypeOK, TesterInv, TesterNext
    PROVE  /\ UNCHANGED <<users, accounts, row, requests, responses, lost>>
           /\ faults' \in 0 .. MaxFaults
           /\ UNCHANGED raw \/ Delivers
<1>1. UNCHANGED <<users, accounts, row, requests, responses, lost>>
  BY DEF TesterNext, Script, Rendered, Send, Sent, FetchPage, RequestFails, EmptyBody,
         Poll, NextUser, EndPoll, Summarize, Show, Interrupt, LateDelivery, Preview, Run,
         Load, Backend, storeVars
<1>2. faults' = faults \/ Fault
  BY DEF TesterNext, Script, Rendered, Send, Sent, FetchPage, RequestFails, EmptyBody,
         Poll, NextUser, EndPoll, Summarize, Show, Interrupt, LateDelivery, Preview, Run,
         Load, Backend, storeVars
<1>3. faults' \in 0 .. MaxFaults
  BY <1>2, StoreAssumption DEF Fault, StoreTypeOK
<1>4. CASE Send
  <2>1. next \in Tx /\ raw[next] = Null /\ next < next' /\ ui = "publishing"
    BY <1>4 DEF Send, TesterInv, BatchSent, InFlight, Running, TesterTypeOK
  <2> QED
    BY <1>1, <1>3, <1>4, <2>1 DEF Send, Deliver, Delivers, Delivered
<1>5. CASE LateDelivery
  <2>1. \A t \in late : t \in Tx /\ t \in Expected /\ raw[t] = Null /\ t < next
                       /\ ui = "publishing"
    BY DEF TesterInv, InFlight, TesterTypeOK
  <2>2. next' = next
    BY <1>5 DEF LateDelivery
  <2> QED
    BY <1>1, <1>3, <1>5, <2>1, <2>2 DEF LateDelivery, Deliver, Delivers, Delivered
<1>6. CASE ~Send /\ ~LateDelivery
  <2>1. UNCHANGED raw
    BY <1>6
    DEF TesterNext, Script, Rendered, Sent, FetchPage, RequestFails, EmptyBody,
         Poll, NextUser, EndPoll, Summarize, Show, Interrupt, Preview, Run,
         Load, Backend, storeVars
  <2> QED
    BY <1>1, <1>3, <2>1
<1> QED
  BY <1>4, <1>5, <1>6

-----------------------------------------------------------------------------
(* What it reads.                                                          *)

LEMMA Reading ==
    ASSUME row \in [Tx -> Row \cup {Null}], NEW records \in Records,
           NEW u, NEW filter, NEW p, NEW page \in Pages(u, filter, p)
    PROVE  /\ Update(records, page) \in Records
           /\ (\A t \in Tx : Shown(t, records[t])) =>
                 \A t \in Tx : Shown(t, Update(records, page)[t])
<1>1. \A t \in page : t \in Tx /\ row[t] # Null
  BY DEF Pages, Matching, RowsOf
<1>2. \A t \in page : row[t].status \in Status
  BY <1>1 DEF Row
<1>3. Update(records, page) \in Records
  BY <1>2 DEF Update, Records
<1>4. \A t \in Tx : Update(records, page)[t]
                      = IF t \in page THEN row[t].status ELSE records[t]
  BY DEF Update
<1>5. \A t \in page : Shown(t, row[t].status)
  BY <1>1 DEF Shown
<1> QED
  BY <1>3, <1>4, <1>5

LEMMA NothingRead ==
    Nothing \in Records /\ \A t \in Tx : Shown(t, Nothing[t])
BY DEF Nothing, Records, Shown

\* A new walk, for a verification or for the explorer.
LEMMA Walking ==
    ASSUME NEW u \in UserIds, NEW todo \in Seq(UserIds), NEW filter \in Status \cup {"any"},
           NEW page \in Nat, NEW all \in BOOLEAN, NEW got \in Records,
           StartWalk(u, todo, filter, page, all, got)
    PROVE  walk' \in Walk /\ walk' # Null /\ walk'.first <= walk'.page /\ walk'.got = got
<1>1. walk' \in Walk
  BY DEF StartWalk, Walk, RowsOf
<1>2. walk'.first = page /\ walk'.page = page /\ walk'.got = got
  BY DEF StartWalk
<1> QED
  BY <1>1, <1>2, NullIsNoWalk

\* The walk goes on with a page read.
LEMMA WalksOn ==
    ASSUME row \in [Tx -> Row \cup {Null}], walk \in Walk, walk.first <= walk.page,
           FetchPage
    PROVE  /\ walk' \in Walk /\ walk' # Null /\ walk'.first <= walk'.page
           /\ (\A t \in Tx : Shown(t, walk.got[t])) => \A t \in Tx : Shown(t, walk'.got[t])
<1>1. PICK page \in Pages(walk.user, walk.filter, walk.page) :
          walk' = [walk EXCEPT !.got = Update(walk.got, page),
                               !.page = @ + 1,
                               !.over = ~walk.all \/ Cardinality(page) < PageSize]
  BY DEF FetchPage
<1>2. walk.got \in Records
  BY DEF Walk
<1>3. Update(walk.got, page) \in Records
      /\ ((\A t \in Tx : Shown(t, walk.got[t])) =>
           \A t \in Tx : Shown(t, Update(walk.got, page)[t]))
  BY <1>2, Reading
<1>4. PICK over \in BOOLEAN : over = (~walk.all \/ Cardinality(page) < PageSize)
  OBVIOUS
<1>5. walk' = [walk EXCEPT !.got = Update(walk.got, page), !.page = walk.page + 1,
                           !.over = over]
  BY <1>1, <1>4, Zenon
<1>6. walk' \in Walk
  <2>1. ASSUME NEW got \in Records, NEW b \in BOOLEAN, NEW q \in Nat
        PROVE  [walk EXCEPT !.got = got, !.page = q, !.over = b] \in Walk
    BY DEF Walk
  <2>2. walk.page + 1 \in Nat
    BY DEF Walk
  <2> QED
    BY <1>3, <1>5, <2>1, <2>2, Zenon
<1>7. walk'.got = Update(walk.got, page) /\ walk'.first = walk.first
      /\ walk'.page = walk.page + 1 /\ walk.first \in Nat /\ walk.page \in Nat
  BY <1>5 DEF Walk
<1> QED
  BY <1>3, <1>6, <1>7, NullIsNoWalk

-----------------------------------------------------------------------------
(* The types.                                                              *)

\* A batch is generated: what it is, for the state that follows.
LEMMA Generated ==
    ASSUME TesterTypeOK, TesterInv, ~ran,
           NEW cfg \in Previewed \cup Published, Generate(cfg)
    PROVE  /\ work'.cfg = cfg /\ cfg \in Config /\ Valid(cfg)
           /\ work'.ids = Ids(cfg) /\ work'.ids \in Seq(UserIds) /\ work'.ids # <<>>
           /\ DOMAIN work'.batch = 1 .. Total(cfg)
           /\ \A t \in 1 .. Total(cfg) : /\ work'.batch[t].user \in known'
                                         /\ work'.batch[t].date \in Nat
           /\ known' \subseteq UserIds /\ summary' = Null
           /\ AsConfigured(work'.cfg, work'.ids, work'.batch)
<1>1. known = {} /\ cfg \in Config /\ Valid(cfg)
  BY TesterAssumption DEF TesterInv, BeforeRun, Generate
<1> DEFINE ids == Ids(cfg)  n == IdsNeeded(cfg)
<1>2. PICK batch \in Batches(cfg, ids) :
         work' = [cfg |-> cfg, ids |-> ids, batch |-> batch]
  BY DEF Generate
<1>3. known' = known \cup UsersOf(ids) /\ summary' = Null
  BY DEF Generate
<1>4. /\ ids \in [1 .. n -> UserIds]
      /\ \A j, k \in 1 .. n : ids[j] = ids[k] => j = k
  BY <1>1, IdsAreDistinct
<1>5. n \in Nat \ {0}
  BY <1>1, Configured
<1> HIDE DEF ids, n
<1>6. ids \in Seq(UserIds) /\ ids # <<>>
  BY <1>4, <1>5
<1>7. known' = {ids[k] : k \in 1 .. n} /\ known' \subseteq UserIds
  BY <1>1, <1>3, <1>4 DEF UsersOf
<1>8. /\ DOMAIN batch = 1 .. Total(cfg)
      /\ \A t \in 1 .. Total(cfg) : /\ batch[t].date \in Nat
                                    /\ \E k \in 1 .. n : batch[t].user = ids[k]
  BY <1>1, BatchEvents DEF n
<1>9. AsConfigured(cfg, ids, batch)
  BY <1>1, <1>4, BatchAsConfigured DEF n
<1>10. work'.cfg = cfg /\ work'.ids = ids /\ work'.batch = batch
  BY <1>2
<1> QED
  BY <1>1, <1>3, <1>6, <1>7, <1>8, <1>9, <1>10 DEF ids

\* The walk exists while pages are read, and is a walk; the same for every step.
WalkOK ==
    /\ (walk # Null) <=> ui \in {"walking", "exploring"}
    /\ walk # Null => walk \in Walk /\ walk.first <= walk.page

\* The script is over: nothing of it is left.
Left == /\ ui' = "idle" /\ work' = Null /\ walk' = Null
        /\ next' = 0 /\ matched' = Nothing /\ polls' = 0

LEMMA WalkStep ==
    ASSUME StoreTypeOK, TesterTypeOK, TesterInv, TesterNext
    PROVE  WalkOK'
<1>1. WalkOK
  BY DEF TesterTypeOK, WalkOK
<1>2. row \in [Tx -> Row \cup {Null}]
  BY DEF StoreTypeOK
<1>3. CASE FetchPage
  <2>1. walk' \in Walk /\ walk' # Null /\ walk'.first <= walk'.page
    BY <1>1, <1>2, <1>3, WalksOn DEF FetchPage, WalkOK
  <2> QED
    BY <1>1, <1>3, <2>1 DEF FetchPage, WalkOK
<1>4. CASE EmptyBody
  <2>1. walk \in Walk /\ walk' = [walk EXCEPT !.over = TRUE, !.cut = TRUE]
    BY <1>1, <1>4 DEF EmptyBody, WalkOK
  <2>2. [walk EXCEPT !.over = TRUE, !.cut = TRUE] \in Walk
    BY <2>1 DEF Walk
  <2>3. walk'.first = walk.first /\ walk'.page = walk.page
    BY <2>1 DEF Walk
  <2> QED
    BY <1>1, <1>4, <2>1, <2>2, <2>3, NullIsNoWalk DEF EmptyBody, WalkOK
<1>5. CASE Poll
  <2>1. /\ work.ids[1] \in UserIds /\ Tail(work.ids) \in Seq(UserIds)
        /\ StartWalk(work.ids[1], Tail(work.ids), "any", 0, TRUE, Nothing)
    <3>1. ASSUME NEW q \in Seq(UserIds), q # <<>>
          PROVE  q[1] \in UserIds /\ Tail(q) \in Seq(UserIds)
      BY <3>1
    <3>2. work.ids \in Seq(UserIds) /\ work.ids # <<>>
      BY <1>5 DEF Poll, TesterInv, BatchSent, Running
    <3>3. StartWalk(work.ids[1], Tail(work.ids), "any", 0, TRUE, Nothing)
      BY <1>5 DEF Poll
    <3> QED
      BY <3>1, <3>2, <3>3
  <2>2. walk' \in Walk /\ walk' # Null /\ walk'.first <= walk'.page
    BY <2>1, Walking, NothingRead
  <2> QED
    BY <1>5, <2>2 DEF Poll, WalkOK
<1>6. CASE NextUser
  <2>1. walk \in Walk /\ walk.todo # <<>> /\ ui = "walking" /\ ui' = "walking"
    BY <1>1, <1>6 DEF NextUser, WalkOK
  <2>2. /\ Head(walk.todo) \in UserIds /\ Tail(walk.todo) \in Seq(UserIds)
        /\ walk.got \in Records
    <3>1. walk.todo \in Seq(UserIds) /\ walk.got \in Records
      BY <2>1 DEF Walk
    <3> QED
      BY <2>1, <3>1
  <2>3. StartWalk(Head(walk.todo), Tail(walk.todo), "any", 0, TRUE, walk.got)
    BY <1>6 DEF NextUser
  <2>4. walk' \in Walk /\ walk' # Null /\ walk'.first <= walk'.page
    BY <2>2, <2>3, Walking
  <2> QED
    BY <2>1, <2>4 DEF WalkOK
<1>7. ASSUME NEW u \in known, NEW form \in Loads, Load(u, form.filter, form.page, form.all)
      PROVE  WalkOK'
  <2>1. /\ form.filter \in Status \cup {"any"} /\ form.page \in Nat
        /\ form.all \in BOOLEAN /\ u \in UserIds
    BY TesterAssumption DEF TesterTypeOK
  <2>2. StartWalk(u, <<>>, form.filter, form.page, form.all, Nothing)
    BY <1>7 DEF Load
  <2>3. walk' \in Walk /\ walk' # Null /\ walk'.first <= walk'.page
    <3>1. <<>> \in Seq(UserIds)
      OBVIOUS
    <3> QED
      BY <2>1, <2>2, <3>1, Walking, NothingRead
  <2> QED
    BY <1>7, <2>3 DEF Load, WalkOK
<1>8. CASE Rendered \/ RequestFails \/ Summarize \/ Show \/ Interrupt
  BY <1>8 DEF Rendered, RequestFails, Summarize, Show, Interrupt, Leave, WalkOK
<1>9. CASE Sent \/ EndPoll
  BY <1>1, <1>9 DEF Sent, EndPoll, Leave, WalkOK
<1>10. CASE Send \/ LateDelivery
  BY <1>1, <1>10 DEF Send, LateDelivery, WalkOK
<1>11. ASSUME NEW cfg, Preview(cfg) \/ Run(cfg) PROVE WalkOK'
  BY <1>1, <1>11 DEF Preview, Run, WalkOK
<1> QED
  BY <1>3, <1>4, <1>5, <1>6, <1>7, <1>8, <1>9, <1>10, <1>11 DEF TesterNext, Script

LEMMA TesterTypeStep ==
    ASSUME StoreTypeOK, TesterTypeOK, TesterInv, TesterNext
    PROVE  TesterTypeOK'
<1>1. /\ ui \in {"idle", "generated", "publishing", "polling", "walking", "exploring"}
      /\ work # Null => work.cfg \in Config /\ ui \in
            {"generated", "publishing", "polling", "walking"}
      /\ next \in Nat /\ late \subseteq Tx
      /\ matched \in Records /\ polls \in 0 .. MaxPolls /\ loads \in 0 .. MaxLoads
      /\ ran \in BOOLEAN
      /\ summary # Null => /\ summary.generated \subseteq Tx
                           /\ summary.found \in Records /\ summary.missing \subseteq Tx
      /\ known \subseteq UserIds
      /\ shown \in UserIds \cup {Null}
      /\ MaxPolls \in Nat /\ MaxLoads \in Nat /\ Nothing \in Records
  BY TesterAssumption, NothingRead DEF TesterTypeOK
<1>2. WalkOK /\ WalkOK'
  BY WalkStep DEF TesterTypeOK, WalkOK
<1> SUFFICES
      /\ ui' \in {"idle", "generated", "publishing", "polling", "walking", "exploring"}
      /\ work' # Null => work'.cfg \in Config /\ ui' \in
            {"generated", "publishing", "polling", "walking"}
      /\ next' \in Nat /\ late' \subseteq Tx
      /\ matched' \in Records /\ polls' \in 0 .. MaxPolls /\ loads' \in 0 .. MaxLoads
      /\ ran' \in BOOLEAN
      /\ summary' # Null => /\ summary'.generated \subseteq Tx
                            /\ summary'.found \in Records /\ summary'.missing \subseteq Tx
      /\ known' \subseteq UserIds
      /\ shown' \in UserIds \cup {Null}
  BY <1>2 DEF TesterTypeOK, WalkOK
<1>3. Running => Expected \subseteq Tx
  BY DEF TesterInv, BatchSent
<1>4. CASE Rendered \/ RequestFails \/ Interrupt \/ Sent
  BY <1>1, <1>4 DEF Rendered, RequestFails, Interrupt, Sent, Leave
<1>5. CASE Send
  BY <1>1, <1>3, <1>5 DEF Send, Running
<1>6. CASE LateDelivery \/ FetchPage \/ EmptyBody \/ NextUser
  BY <1>1, <1>6 DEF LateDelivery, FetchPage, EmptyBody, NextUser
<1>7. CASE Poll
  BY <1>1, <1>7 DEF Poll
<1>8. CASE EndPoll
  <2>1. walk.got \in Records
    BY <1>2, <1>8 DEF EndPoll, WalkOK, Walk
  <2>2. matched' \in Records
    BY <1>8, <2>1 DEF EndPoll, Records
  <2> QED
    BY <1>1, <1>8, <2>2 DEF EndPoll
<1>9. CASE Summarize
  <2>1. Expected \subseteq Tx /\ Expected \ Found(matched) \subseteq Tx
    BY <1>3, <1>9 DEF Summarize, Running
  <2>2. /\ summary'.generated = Expected /\ summary'.found = matched
        /\ summary'.missing = Expected \ Found(matched)
    BY <1>9 DEF Summarize
  <2> QED
    BY <1>1, <1>9, <2>1, <2>2 DEF Summarize, Leave
<1>10. CASE Show
  <2>1. walk.user \in UserIds
    BY <1>2, <1>10 DEF Show, WalkOK, Walk
  <2> QED
    BY <1>1, <1>10, <2>1 DEF Show, Leave
<1>11. ASSUME NEW cfg \in Previewed, Preview(cfg) PROVE
      /\ work'.cfg \in Config /\ ui' = "generated"
      /\ known' \subseteq UserIds /\ summary' = Null /\ ran' \in BOOLEAN
      /\ UNCHANGED <<next, late, matched, polls, loads, shown>>
  BY <1>11, Generated DEF Preview
<1>12. ASSUME NEW cfg \in Published, Run(cfg) PROVE
      /\ work'.cfg \in Config /\ ui' = "publishing"
      /\ known' \subseteq UserIds /\ summary' = Null /\ ran' \in BOOLEAN
      /\ next' = 1 /\ UNCHANGED <<late, matched, polls, loads, shown>>
  BY <1>12, Generated DEF Run
<1>13. ASSUME NEW u, NEW filter, NEW page, NEW all, Load(u, filter, page, all) PROVE
      /\ UNCHANGED <<work, next, late, matched, polls, ran, summary, known, shown>>
      /\ ui = "idle" /\ ui' = "exploring" /\ loads' \in 0 .. MaxLoads
  BY <1>1, <1>13 DEF Load
<1> QED
  BY <1>1, <1>4, <1>5, <1>6, <1>7, <1>8, <1>9, <1>10, <1>11, <1>12, <1>13
     DEF TesterNext, Script

-----------------------------------------------------------------------------
(* The invariant is kept by the tester.                                    *)

\* A step of the tester, by what it does to the batch and the screen: a batch is
\* generated, or events are published, or the script ends, or goes on reading.
Generates == \E cfg \in Previewed \cup Published :
    /\ ~ran /\ ran' = TRUE /\ ui = "idle" /\ Generate(cfg)
    /\ UNCHANGED <<raw, late, walk, matched>>
    /\ ui' = "generated" \/ (ui' = "publishing" /\ cfg \in Published)

Publishes == (Send \/ LateDelivery) /\ ui = "publishing"

Ends == /\ Left
        /\ UNCHANGED <<raw, known, ran>>
        /\ late' = {} \/ (ui # "publishing" /\ UNCHANGED late)
        /\ UNCHANGED summary \/ Summarize

Reads == /\ UNCHANGED <<raw, work, known, ran, summary>>
         /\ late' = {} \/ (ui # "publishing" /\ UNCHANGED late)
         /\ \/ ui \in {"publishing", "polling", "walking"} /\ ui' \in {"polling", "walking"}
            \/ ui \in {"idle", "exploring"} /\ ui' = "exploring"
         /\ UNCHANGED matched \/ EndPoll

LEMMA TesterSteps ==
    ASSUME StoreTypeOK, TesterTypeOK, TesterInv, TesterNext
    PROVE  Generates \/ Publishes \/ Ends \/ Reads
<1>1. (walk # Null) <=> ui \in {"walking", "exploring"}
  BY DEF TesterTypeOK
<1>2. late # {} => ui = "publishing"
  BY DEF TesterInv, InFlight
<1>3. CASE Send \/ LateDelivery
  BY <1>2, <1>3 DEF Send, LateDelivery, Publishes
<1>4. CASE Rendered \/ RequestFails \/ Interrupt \/ Summarize \/ Show
  BY <1>1, <1>4 DEF Rendered, RequestFails, Interrupt, Summarize, Show, Leave, Left,
     Ends, Backend, storeVars
<1>5. CASE Sent
  BY <1>5 DEF Sent, Leave, Left, Ends, Reads, Backend, storeVars
<1>6. CASE FetchPage \/ EmptyBody
  BY <1>1, <1>6 DEF FetchPage, EmptyBody, Reads, Backend, storeVars
<1>7. CASE Poll \/ NextUser \/ EndPoll
  BY <1>1, <1>7 DEF Poll, NextUser, EndPoll, Reads, Backend, storeVars
<1>8. ASSUME NEW u, NEW filter, NEW page, NEW all, Load(u, filter, page, all) PROVE Reads
  BY <1>1, <1>8 DEF Load, Reads, Backend, storeVars
<1>9. ASSUME NEW cfg \in Previewed, Preview(cfg) PROVE Generates
  BY <1>9 DEF Preview, Generates, Backend, storeVars
<1>10. ASSUME NEW cfg \in Published, Run(cfg) PROVE Generates
  BY <1>10 DEF Run, Generates, Backend, storeVars
<1> QED
  BY <1>3, <1>4, <1>5, <1>6, <1>7, <1>8, <1>9, <1>10 DEF TesterNext, Script

LEMMA KnownStep ==
    ASSUME StoreTypeOK, TesterTypeOK, TesterInv, TesterNext
    PROVE  BeforeRun' /\ SentUsersAreKnown' /\ BatchIsAsConfigured'
<1> USE DEF TesterInv
<1>1. CASE Generates
  <2>1. PICK cfg \in Previewed \cup Published : Generate(cfg) /\ ~ran /\ ran' = TRUE
                                              /\ UNCHANGED raw
    BY <1>1 DEF Generates
  <2>2. AsConfigured(work'.cfg, work'.ids, work'.batch)
    BY <2>1, Generated
  <2> QED
    BY <2>1, <2>2 DEF BeforeRun, SentUsersAreKnown, BatchIsAsConfigured
<1>2. CASE Publishes
  <2>1. UNCHANGED <<work, known, ran>> /\ ran
    BY <1>2 DEF Publishes, Send, LateDelivery, BatchSent, Running
  <2>2. \A t \in Tx : raw'[t] = raw[t] \/ raw'[t].user \in known
    <3>1. CASE UNCHANGED raw
      BY <3>1
    <3>2. CASE Delivers
      <4>1. PICK t \in Tx : t \in Expected /\ raw' = [raw EXCEPT ![t] = Delivered(t)]
        BY <3>2 DEF Delivers
      <4>2. Delivered(t).user \in known
        BY <4>1, <1>2 DEF Publishes, BatchSent, Running, Delivered
      <4> QED
        BY <4>1, <4>2 DEF StoreTypeOK
    <3> QED
      BY <3>1, <3>2, TesterStore
  <2> QED
    BY <2>1, <2>2 DEF BeforeRun, SentUsersAreKnown, BatchIsAsConfigured
<1>3. CASE Ends
  BY <1>3 DEF Ends, Left, BeforeRun, SentUsersAreKnown, BatchIsAsConfigured
<1>4. CASE Reads
  BY <1>4 DEF Reads, BeforeRun, SentUsersAreKnown, BatchIsAsConfigured
<1> QED
  BY <1>1, <1>2, <1>3, <1>4, TesterSteps

LEMMA BatchSentStep ==
    ASSUME StoreTypeOK, TesterTypeOK, TesterInv, TesterNext
    PROVE  BatchSent'
<1>1. CASE Generates
  <2>1. PICK cfg \in Previewed \cup Published :
           /\ Generate(cfg) /\ ~ran /\ ran' = TRUE /\ UNCHANGED raw
           /\ ui' = "generated" \/ (ui' = "publishing" /\ cfg \in Published)
    BY <1>1 DEF Generates
  <2>2. SUFFICES ASSUME cfg \in Published PROVE BatchSent'
    BY <2>1 DEF BatchSent, Running
  <2>3. 1 .. Total(cfg) \subseteq Tx
    BY <2>2, IdsAssumption
  <2>4. \A t \in Tx : raw'[t] = Null
    BY <2>1 DEF TesterInv, BeforeRun
  <2>5. /\ work'.ids \in Seq(UserIds) /\ work'.ids # <<>>
        /\ DOMAIN work'.batch = 1 .. Total(cfg)
        /\ \A t \in 1 .. Total(cfg) : /\ work'.batch[t].user \in known'
                                      /\ work'.batch[t].date \in Nat
    BY <2>1, Generated DEF TesterInv
  <2> QED
    BY <2>1, <2>3, <2>4, <2>5 DEF BatchSent, Expected
<1>2. ASSUME Running, UNCHANGED <<work, known, ran>>, UNCHANGED raw \/ Delivers
      PROVE  BatchSent'
  <2>1. \A t \in Tx : raw'[t] # Null => raw[t] # Null \/ t \in Expected
    BY <1>2 DEF Delivers, StoreTypeOK
  <2> QED
    BY <1>2, <2>1 DEF TesterInv, BatchSent, Expected
<1>3. CASE Publishes
  BY <1>2, <1>3, TesterStore DEF Publishes, Send, LateDelivery, Running
<1>4. CASE Ends
  BY <1>4 DEF Ends, Left, BatchSent, Running
<1>5. CASE Reads
  <2>1. CASE ui' = "exploring"
    BY <2>1 DEF BatchSent, Running
  <2>2. CASE ui' # "exploring"
    BY <1>2, <1>5, <2>2 DEF Reads, Running
  <2> QED
    BY <2>1, <2>2
<1> QED
  BY <1>1, <1>3, <1>4, <1>5, TesterSteps

LEMMA InFlightStep ==
    ASSUME StoreTypeOK, TesterTypeOK, TesterInv, TesterNext
    PROVE  InFlight'
<1>1. /\ ui = "publishing" => \A t \in Tx : t >= next => raw[t] = Null
      /\ late # {} => ui = "publishing"
      /\ \A t \in late : t < next /\ raw[t] = Null /\ t \in Expected
      /\ late \subseteq Tx /\ next \in Nat /\ Tx \subseteq Nat
      /\ raw \in [Tx -> Event \cup {Null}]
  BY StoreAssumption DEF TesterInv, InFlight, TesterTypeOK, StoreTypeOK
<1>2. CASE Generates
  <2>1. ui = "idle" /\ ~ran /\ UNCHANGED <<raw, late>>
    BY <1>2 DEF Generates
  <2>2. late' = {} /\ \A t \in Tx : raw'[t] = Null
    BY <1>1, <2>1 DEF TesterInv, BeforeRun
  <2> QED
    BY <2>2 DEF InFlight
<1>3. CASE Send
  <2>1. next \in Tx /\ ui = "publishing" /\ ui' = "publishing"
        /\ next' = next + 1 /\ UNCHANGED work /\ next \in Expected
    BY <1>3 DEF Send, TesterInv, BatchSent, Running
  <2>2. \A t \in Tx : t # next => raw'[t] = raw[t]
    BY <1>1, <1>3 DEF Send, Deliver
  <2>3. late' = late \/ (late' = late \cup {next} /\ UNCHANGED raw)
    BY <1>3 DEF Send
  <2>4. \A t \in Tx : t >= next' => raw'[t] = Null
    BY <1>1, <2>1, <2>2
  <2>5. \A t \in late' : t < next' /\ raw'[t] = Null /\ t \in Expected'
    <3>1. ASSUME NEW t \in late PROVE t < next' /\ raw'[t] = Null /\ t \in Expected'
      <4>1. t \in Tx /\ t < next /\ raw[t] = Null /\ t \in Expected
        BY <1>1
      <4> QED
        <5>1. t < next' /\ t # next
          BY <1>1, <2>1, <4>1
        <5>2. raw'[t] = Null
          BY <2>2, <4>1, <5>1
        <5> QED
          BY <2>1, <4>1, <5>1, <5>2 DEF Expected
    <3>2. CASE late' = late \cup {next} /\ UNCHANGED raw
      BY <1>1, <2>1, <3>1, <3>2 DEF Expected
    <3> QED
      BY <2>3, <3>1, <3>2
  <2> QED
    BY <2>1, <2>4, <2>5 DEF InFlight
<1>4. CASE LateDelivery
  <2>1. PICK t \in late : Deliver(t) /\ late' = late \ {t}
    BY <1>4 DEF LateDelivery
  <2>2. UNCHANGED <<ui, next, work>> /\ ui = "publishing"
    BY <1>1, <1>4, <2>1 DEF LateDelivery
  <2>3. \A x \in Tx : x # t => raw'[x] = raw[x]
    BY <1>1, <2>1 DEF Deliver
  <2> QED
    BY <1>1, <2>1, <2>2, <2>3 DEF InFlight, Expected
<1>5. CASE Ends \/ Reads
  <2>1. late' = {} /\ ui' # "publishing"
    BY <1>1, <1>5 DEF Ends, Left, Reads
  <2> QED
    BY <2>1 DEF InFlight
<1> QED
  BY <1>2, <1>3, <1>4, <1>5, TesterSteps DEF Publishes

\* What is on the screen stays true while rows are added and labelled.
LEMMA ShownStays ==
    ASSUME NEW t, NEW status, Shown(t, status),
           row[t] # Null => /\ row'[t] # Null
                           /\ row'[t].status \in {row[t].status, "llm"}
    PROVE  Shown(t, status)'
BY DEF Shown

LEMMA ScreensStep ==
    ASSUME StoreTypeOK, TesterTypeOK, TesterInv, TesterNext
    PROVE  Screens'
<1>1. UNCHANGED row
  BY TesterStore
<1>2. \A t \in Tx : \A status : Shown(t, status)' <=> Shown(t, status)
  BY <1>1 DEF Shown
<1>3. /\ \A t \in Tx : Shown(t, matched[t])
      /\ walk # Null => \A t \in Tx : Shown(t, walk.got[t])
  BY DEF TesterInv, Screens
<1>4. SUFFICES /\ \A t \in Tx : Shown(t, matched'[t])
               /\ walk' # Null => \A t \in Tx : Shown(t, walk'.got[t])
  BY <1>1 DEF Screens, Shown
<1>5. \A t \in Tx : Shown(t, Nothing[t])
  BY NothingRead
<1>6. \A t \in Tx : Shown(t, "absent")
  BY DEF Shown
<1>7. \A t \in Tx : Shown(t, matched'[t])
  <2>1. CASE UNCHANGED matched \/ Left
    BY <1>3, <1>5, <2>1 DEF Left
  <2>2. CASE EndPoll
    <3>1. walk # Null
      BY <2>2 DEF EndPoll, TesterTypeOK
    <3>2. \A t \in Tx : matched'[t] = walk.got[t] \/ matched'[t] = "absent"
      BY <2>2 DEF EndPoll
    <3> QED
      BY <1>3, <1>6, <3>1, <3>2
  <2> QED
    BY <2>1, <2>2, TesterSteps DEF Generates, Publishes, Send, LateDelivery, Ends, Reads
<1>8. CASE FetchPage
  <2>1. walk # Null /\ walk \in Walk /\ walk.first <= walk.page
    BY <1>8 DEF FetchPage, TesterTypeOK
  <2> QED
    BY <1>3, <1>7, <1>8, <2>1, WalksOn DEF StoreTypeOK
<1>9. CASE EmptyBody
  <2>1. walk # Null /\ walk \in Walk /\ walk' = [walk EXCEPT !.over = TRUE, !.cut = TRUE]
    BY <1>9 DEF EmptyBody, TesterTypeOK
  <2>2. walk'.got = walk.got
    BY <2>1 DEF Walk
  <2> QED
    BY <1>3, <1>7, <2>1, <2>2
<1>10. ASSUME NEW u, NEW todo, NEW filter, NEW page, NEW all, NEW got,
              StartWalk(u, todo, filter, page, all, got),
              got = Nothing \/ (walk # Null /\ got = walk.got)
       PROVE  \A t \in Tx : Shown(t, walk'.got[t])
  <2>1. walk'.got = got
    BY <1>10 DEF StartWalk
  <2> QED
    BY <1>3, <1>5, <1>10, <2>1
<1>11. CASE Poll
  BY <1>7, <1>10, <1>11 DEF Poll
<1>12. CASE NextUser
  <2>1. walk # Null
    BY <1>12 DEF NextUser, TesterTypeOK
  <2>2. StartWalk(Head(walk.todo), Tail(walk.todo), "any", 0, TRUE, walk.got)
    BY <1>12 DEF NextUser
  <2> QED
    BY <1>7, <1>10, <2>1, <2>2
<1>13. ASSUME NEW u, NEW filter, NEW page, NEW all, Load(u, filter, page, all)
       PROVE  \A t \in Tx : Shown(t, walk'.got[t])
  BY <1>10, <1>13 DEF Load
<1>14. CASE UNCHANGED walk \/ walk' = Null
  BY <1>3, <1>7, <1>14
<1> QED
  BY <1>7, <1>8, <1>9, <1>11, <1>12, <1>13, <1>14
     DEF TesterNext, Script, Rendered, RequestFails, Interrupt, Summarize, Show, Sent,
         EndPoll, Send, LateDelivery, Preview, Run, Leave

LEMMA VerdictStep ==
    ASSUME StoreTypeOK, TesterTypeOK, TesterInv, TesterNext
    PROVE  Verdict'
<1>1. UNCHANGED row
  BY TesterStore
<1>2. \A t \in Tx : \A status : Shown(t, status)' <=> Shown(t, status)
  BY <1>1 DEF Shown
<1>3. ASSUME UNCHANGED <<ran, summary>>, ui \in {"idle", "exploring"} =>
                ui' \in {"idle", "exploring"}
      PROVE  Verdict'
  <2> SUFFICES ASSUME summary # Null PROVE Verdict'
    BY <1>3 DEF Verdict
  <2>1. /\ ran /\ ui \in {"idle", "exploring"}
        /\ Found(summary.found) \cup summary.missing = summary.generated
        /\ Found(summary.found) \cap summary.missing = {}
        /\ \A t \in Tx : Shown(t, summary.found[t])
    BY DEF TesterInv, Verdict
  <2>2. \A t \in Tx : Shown(t, summary.found[t])'
    BY <1>1, <1>3, <2>1 DEF Shown
  <2> QED
    BY <1>3, <2>1, <2>2 DEF Verdict, Found
<1>4. CASE Generates
  BY <1>4 DEF Generates, Generate, Verdict
<1>5. CASE Publishes
  <2>1. summary = Null /\ UNCHANGED summary
    BY <1>5 DEF TesterInv, Verdict, Publishes, Send, LateDelivery
  <2> QED
    BY <2>1 DEF Verdict
<1>6. CASE Summarize
  <2>1. /\ ran /\ Expected \subseteq Tx /\ Found(matched) \subseteq Expected
    BY <1>6 DEF Summarize, TesterInv, BatchSent, Running, Matches
  <2>2. /\ summary'.generated = Expected /\ summary'.found = matched
        /\ summary'.missing = Expected \ Found(matched)
        /\ ui' = "idle" /\ UNCHANGED ran
    BY <1>6 DEF Summarize, Leave
  <2>4. Found(summary'.found) \cap summary'.missing = {}
    BY <2>2
  <2>5. Found(summary'.found) \cup summary'.missing = summary'.generated
    BY <2>1, <2>2
  <2>6. \A t \in Tx : Shown(t, summary.found[t])'
    <3>1. \A t \in Tx : Shown(t, matched[t])
      BY DEF TesterInv, Screens
    <3> QED
      BY <1>1, <2>2, <3>1 DEF Shown
  <2> QED
    BY <2>1, <2>2, <2>4, <2>5, <2>6 DEF Verdict, Found
<1>7. CASE Ends /\ UNCHANGED summary
  BY <1>3, <1>7 DEF Ends, Left
<1>8. CASE Reads
  BY <1>3, <1>8 DEF Reads
<1> QED
  BY <1>4, <1>5, <1>6, <1>7, <1>8, TesterSteps DEF Ends

LEMMA MatchesStep ==
    ASSUME TesterTypeOK, TesterInv, TesterNext
    PROVE  Matches'
<1>1. Matches
  BY DEF TesterInv
<1>2. Found(Nothing) = {}
  BY DEF Found, Nothing
<1>3. CASE Leave
  BY <1>2, <1>3 DEF Leave, Matches, Found
<1>4. CASE EndPoll
  <2>1. UNCHANGED work /\ ui' = "polling"
    BY <1>4 DEF EndPoll
  <2>2. \A t \in Tx : t \notin Expected => matched'[t] = "absent"
    BY <1>4 DEF EndPoll
  <2> QED
    BY <2>1, <2>2 DEF Matches, Found, Expected
<1>5. CASE Sent /\ ~Leave
  BY <1>1, <1>5 DEF Sent, Matches, Found
<1>6. CASE Send \/ LateDelivery \/ FetchPage \/ EmptyBody \/ Poll \/ NextUser
  <2>1. UNCHANGED <<work, matched>>
    BY <1>6 DEF Send, LateDelivery, FetchPage, EmptyBody, Poll, NextUser
  <2>2. UNCHANGED ui \/ (ui = "polling" /\ ui' = "walking")
    BY <1>6 DEF Send, LateDelivery, FetchPage, EmptyBody, Poll, NextUser
  <2> QED
    BY <1>1, <2>1, <2>2 DEF Matches, Found, Expected
<1>7. ASSUME NEW cfg, Preview(cfg) \/ Run(cfg) PROVE Matches'
  BY <1>1, <1>7 DEF Preview, Run, Matches, Found
<1>8. ASSUME NEW u, NEW filter, NEW page, NEW all, Load(u, filter, page, all) PROVE Matches'
  BY <1>1, <1>8 DEF Load, Matches, Found
<1>9. CASE Rendered \/ RequestFails \/ Interrupt \/ Summarize \/ Show
  BY <1>3, <1>9 DEF Rendered, RequestFails, Interrupt, Summarize, Show
<1> QED
  BY <1>3, <1>4, <1>5, <1>6, <1>7, <1>8, <1>9 DEF TesterNext, Script

-----------------------------------------------------------------------------
(* The invariant of the whole.                                             *)

Inv == TypeOK /\ CoreInv /\ TesterInv

LEMMA Initially ==
    Init => Inv
<1> SUFFICES ASSUME Init PROVE Inv
  OBVIOUS
<1>1. StoreTypeOK /\ CoreTypeOK /\ CoreInv
  <2>1. [t \in Tx |-> Null] \in [Tx -> Event \cup {Null}]
    OBVIOUS
  <2> QED
    BY <2>1, CoreInitially DEF Init
<1>2. TesterInit /\ \A t \in Tx : raw[t] = Null
  BY DEF Init, StoreInit
<1>3. TesterTypeOK
  <2>1. 0 \in 0 .. MaxPolls /\ 0 \in 0 .. MaxLoads
    BY TesterAssumption
  <2> QED
    BY <1>2, <2>1, NothingRead DEF TesterInit, TesterTypeOK
<1>4. TesterInv
  <2>1. Found(Nothing) = {}
    BY DEF Found, Nothing
  <2> QED
    BY <1>2, <2>1, NothingRead
       DEF TesterInit, TesterInv, BeforeRun, BatchSent, Running, InFlight, Screens,
           Verdict, Matches, SentUsersAreKnown, BatchIsAsConfigured
<1> QED
  BY <1>1, <1>3, <1>4 DEF Inv, TypeOK

\* The tester does not see the core's steps, but for rows that come and change.
LEMMA TesterStays ==
    ASSUME TesterTypeOK, TesterInv, UNCHANGED <<raw, testerVars>>,
           \A t \in Tx : row[t] # Null =>
              row'[t] # Null /\ row'[t].status \in {row[t].status, "llm"}
    PROVE  TesterTypeOK' /\ TesterInv'
<1>1. UNCHANGED <<raw, ui, work, next, late, walk, matched, polls, loads, ran, summary,
                  known, shown>>
  BY DEF testerVars
<1>2. \A t \in Tx : \A status : Shown(t, status) => Shown(t, status)'
  BY ShownStays
<1>3. TesterTypeOK'
  BY <1>1 DEF TesterTypeOK
<1>4. Screens'
  BY <1>1, <1>2 DEF TesterInv, Screens
<1>5. Verdict'
  BY <1>1, <1>2 DEF TesterInv, Verdict, Found
<1>6. BeforeRun' /\ BatchSent' /\ InFlight' /\ Matches'
  BY <1>1 DEF TesterInv, BeforeRun, BatchSent, InFlight, Matches, Running, Expected, Found
<1>7. SentUsersAreKnown' /\ BatchIsAsConfigured'
  BY <1>1 DEF TesterInv, SentUsersAreKnown, BatchIsAsConfigured
<1> QED
  BY <1>3, <1>4, <1>5, <1>6, <1>7 DEF TesterInv

LEMMA Inductive ==
    Inv /\ [Next]_vars => Inv'
<1> SUFFICES ASSUME Inv, [Next]_vars PROVE Inv'
  OBVIOUS
<1>1. StoreTypeOK /\ CoreTypeOK /\ TesterTypeOK /\ CoreInv /\ TesterInv
  BY DEF Inv, TypeOK
<1>2. CASE CoreNext /\ UNCHANGED testerVars
  <2>1. requests' \in Seq(Tx)
    <3>1. UNCHANGED requests \/ \E t \in Tx : requests' = Append(requests, t)
      BY <1>1, <1>2, CoreTopics
    <3>2. requests \in Seq(Tx)
      BY <1>1 DEF StoreTypeOK
    <3> QED
      BY <3>1, <3>2
  <2>2. StoreTypeOK'
    BY <1>1, <1>2, <2>1, CoreTopics, CoreTypeStep DEF StoreTypeOK
  <2>3. CoreTypeOK'
    BY <1>1, <1>2, CoreTopics, CoreTypeStep DEF CoreTypeOK, Calls
  <2>4. TesterTypeOK' /\ TesterInv'
    BY <1>1, <1>2, CoreTopics, RowsGrow, TesterStays
  <2> QED
    BY <1>1, <1>2, <2>2, <2>3, <2>4, CoreInvStep DEF Inv, TypeOK
<1>3. CASE TesterNext /\ UNCHANGED coreVars
  <2>1. UNCHANGED <<users, accounts, row, requests, responses, lost>>
        /\ faults' \in 0 .. MaxFaults
    BY <1>1, <1>3, TesterStore
  <2>2. /\ raw' \in [Tx -> Event \cup {Null}]
        /\ CoreInv'
    <3>1. CASE UNCHANGED raw
      BY <1>1, <1>3, <2>1, <3>1, CoreInvStays DEF StoreTypeOK, coreVars
    <3>2. CASE Delivers
      <4>1. PICK t \in Tx : /\ t \in Expected /\ raw[t] = Null
                           /\ raw' = [raw EXCEPT ![t] = Delivered(t)]
        BY <3>2 DEF Delivers
      <4>2. work.batch[t].user \in UserIds /\ work.batch[t].date \in Nat
        BY <1>1, <3>2, <4>1 DEF Delivers, TesterInv, BatchSent, Running, TesterTypeOK
      <4>3. Delivered(t) \in Event
        BY <4>2 DEF Delivered, Event
      <4> QED
        BY <1>1, <1>3, <2>1, <4>1, <4>3, CoreInvDelivery DEF StoreTypeOK, coreVars
    <3> QED
      BY <1>1, <1>3, <3>1, <3>2, TesterStore
  <2>3. StoreTypeOK' /\ CoreTypeOK'
    BY <1>1, <1>3, <2>1, <2>2 DEF StoreTypeOK, CoreTypeOK, coreVars
  <2>4. TesterInv'
    BY <1>1, <1>3, KnownStep, BatchSentStep, InFlightStep, ScreensStep, MatchesStep, VerdictStep
       DEF TesterInv
  <2> QED
    BY <1>1, <1>3, <2>2, <2>3, <2>4, TesterTypeStep DEF Inv, TypeOK
<1>4. CASE Answer /\ UNCHANGED <<coreVars, testerVars>>
  <2>1. responses' \in Seq(Tx) /\ Len(responses') = Len(responses) + 1
    <3>1. requests[Len(responses) + 1] \in Tx
      BY <1>1, <1>4 DEF Answer, StoreTypeOK
    <3> QED
      BY <1>1, <1>4, <3>1 DEF Answer, StoreTypeOK
  <2>2. UNCHANGED <<raw, users, accounts, row, requests, lost, faults, coreVars>>
    BY <1>4 DEF Answer
  <2>3. StoreTypeOK' /\ CoreTypeOK'
    BY <1>1, <2>1, <2>2 DEF StoreTypeOK, CoreTypeOK, coreVars
  <2>4. CoreInv'
    BY <1>1, <2>2, CoreInvStays DEF coreVars
  <2>5. TesterTypeOK' /\ TesterInv'
    BY <1>1, <1>4, <2>2, TesterStays
  <2> QED
    BY <2>3, <2>4, <2>5 DEF Inv, TypeOK
<1>5. CASE UNCHANGED vars
  <2>1. UNCHANGED <<storeVars, coreVars, testerVars>>
    BY <1>5 DEF vars
  <2>2. StoreTypeOK' /\ CoreTypeOK'
    BY <1>1, <2>1 DEF StoreTypeOK, CoreTypeOK, storeVars, coreVars
  <2>3. CoreInv'
    BY <1>1, <2>1, CoreInvStays DEF storeVars, coreVars
  <2>4. TesterTypeOK' /\ TesterInv'
    BY <1>1, <2>1, TesterStays DEF storeVars
  <2> QED
    BY <2>2, <2>3, <2>4 DEF Inv, TypeOK
<1> QED
  BY <1>2, <1>3, <1>4, <1>5 DEF Next

\* Whatever is clicked, sent, lost or answered, in whatever order, every variable
\* of the page, the core and the topics keeps its type.
THEOREM TypeCorrect == Spec => []TypeOK
<1>1. Inv => TypeOK
  BY DEF Inv
<1> QED
  BY <1>1, Initially, Inductive, PTL DEF Spec

\* The tester's verdict accounts for every generated transaction and for nothing
\* else, and what it calls found is in the core, at the moment it is given and
\* afterwards: only generated ones are matched, and rows are never taken back.
THEOREM SoundVerdict == Spec => []VerdictIsSound
<1>1. Inv => VerdictIsSound
  BY DEF Inv, TesterInv, Verdict, VerdictIsSound
<1> QED
  BY <1>1, Initially, Inductive, PTL DEF Spec

\* Every user with an event in Kafka can be selected in the explorer, even when
\* the run was interrupted or its verification given up.
THEOREM KnownUsers == Spec => []SentUsersAreKnown
<1>1. Inv => SentUsersAreKnown
  BY DEF Inv, TesterInv
<1> QED
  BY <1>1, Initially, Inductive, PTL DEF Spec

\* What generate_transactions makes of a configuration that _validate_config
\* lets through has the users, the categories and the mix of profiles the page
\* announced, whatever the ratios round to.
THEOREM BatchAsAnnounced == Spec => []BatchIsAsConfigured
<1>1. Inv => BatchIsAsConfigured
  BY DEF Inv, TesterInv
<1> QED
  BY <1>1, Initially, Inductive, PTL DEF Spec

\* Every set of naturals with an element has a least one: what the proofs use in
\* place of an induction.
LEMMA LeastNatural ==
    ASSUME NEW S, S \subseteq Nat, S # {}
    PROVE  \E m \in S : \A n \in S : m <= n
<1> DEFINE R == OpToRel(<, Nat)
<1>1. IsWellFoundedOn(R, Nat)
  BY NatLessThanWellFounded
<1> HIDE DEF R
<1>2. PICK m \in S : \A n \in S : ~(<<n, m>> \in R)
  BY <1>1, WFMin
<1>3. \A a \in Nat, b \in Nat : <<a, b>> \in R <=> a < b
  BY DEF R, OpToRel
<1>4. ASSUME NEW n \in S PROVE m <= n
  <2>1. m \in Nat /\ n \in Nat /\ ~(n < m)
    BY <1>2, <1>3, Zenon
  <2> QED
    BY <2>1
<1> QED
  BY <1>2, <1>4, Zenon

-----------------------------------------------------------------------------
(* Pages: what a page of rows sorted by date, in any order within a date,  *)
(* must contain.                                                           *)

SameDate(rows, d) == {s \in rows : row[s].date = d}
Slots(p) == p * PageSize + 1 .. (p + 1) * PageSize

LEMMA DisjointCount ==
    ASSUME NEW S, NEW T, IsFiniteSet(S), IsFiniteSet(T), S \cap T = {}
    PROVE  Cardinality(S \cup T) = Cardinality(S) + Cardinality(T)
<1>1. Cardinality(S \cap T) = 0
  BY FS_EmptySet
<1>2. Cardinality(S \cup T) = Cardinality(S) + Cardinality(T) - Cardinality(S \cap T)
  BY FS_Union
<1>3. Cardinality(S) \in Nat /\ Cardinality(T) \in Nat
  BY FS_CardinalityType
<1> QED
  BY <1>1, <1>2, <1>3

LEMMA PageShares ==
    ASSUME NEW u, NEW filter, NEW p, NEW page \in Pages(u, filter, p),
           NEW t \in Matching(u, filter)
    PROVE  LET all == Matching(u, filter)
               d == row[t].date
               n == Cardinality(Newer(all, d))
           IN Cardinality(page \cap SameDate(all, d))
                = Cardinality(Slots(p) \cap (n + 1 .. n + Cardinality(SameDate(all, d))))
BY DEF Pages, Newer, SameDate, Slots

\* The page has the newest rows, as far as the slots before them reach.  By
\* induction on how many rows are newer: the least date above d takes its share.
LEMMA PagePrefix ==
    ASSUME StoreTypeOK, NEW u, NEW filter, NEW p \in Nat, NEW page \in Pages(u, filter, p)
    PROVE  \A d \in Nat :
              Cardinality(Newer(page, d))
                >= Cardinality(Slots(p) \cap 1 .. Cardinality(Newer(Matching(u, filter), d)))
<1> DEFINE all == Matching(u, filter)
           rank(d) == Cardinality(Newer(all, d))
           Covered(d) == Cardinality(Newer(page, d))
                           >= Cardinality(Slots(p) \cap 1 .. rank(d))
           T == {rank(d) : d \in {c \in Nat : ~Covered(c)}}
<1>1. /\ page \subseteq all /\ IsFiniteSet(all) /\ IsFiniteSet(Slots(p))
      /\ \A s \in all : row[s].date \in Nat
  <2>1. all \subseteq Tx /\ page \subseteq all /\ \A s \in all : row[s] # Null
    BY DEF Pages, Matching, RowsOf
  <2>2. \A s \in all : row[s].date \in Nat
    BY <2>1 DEF StoreTypeOK, Row
  <2>3. IsFiniteSet(all)
    BY <2>1, StoreAssumption, FS_Subset
  <2>4. IsFiniteSet(Slots(p))
    <3>1. p * PageSize + 1 \in Int /\ (p + 1) * PageSize \in Int
      BY TesterAssumption
    <3> QED
      BY <3>1, FS_Interval DEF Slots
  <2> QED
    BY <2>1, <2>2, <2>3, <2>4
<1>2. ASSUME NEW S, S \subseteq all \/ S \subseteq Slots(p)
      PROVE  IsFiniteSet(S) /\ Cardinality(S) \in Nat
  BY <1>1, <1>2, FS_Subset, FS_CardinalityType
<1>3. \A d \in Nat : rank(d) \in Nat
  BY <1>2 DEF Newer
<1> HIDE DEF all
<1>4. SUFFICES ASSUME NEW c \in Nat, ~Covered(c) PROVE FALSE
  BY DEF all
<1>5. T \subseteq Nat /\ T # {}
  BY <1>3, <1>4
<1>6. PICK d \in Nat : ~Covered(d) /\ \A c1 \in Nat : ~Covered(c1) => rank(d) <= rank(c1)
  <2>1. PICK m \in T : \A n \in T : m <= n
    BY <1>5, LeastNatural
  <2> QED
    BY <2>1
<1>7. Newer(all, d) # {}
  <2> SUFFICES ASSUME Newer(all, d) = {} PROVE FALSE
    OBVIOUS
  <2>1. rank(d) = 0
    BY FS_EmptySet
  <2>2. Slots(p) \cap 1 .. rank(d) = {}
    BY <2>1
  <2>3. Cardinality(Slots(p) \cap 1 .. rank(d)) = 0
    BY <2>2, FS_EmptySet
  <2>4. Cardinality(Newer(page, d)) \in Nat
    BY <1>1, <1>2 DEF Newer
  <2> QED
    BY <1>6, <2>3, <2>4
<1>8. PICK t \in all : /\ row[t].date > d
                       /\ \A s \in all : row[s].date > d => row[s].date >= row[t].date
  <2> DEFINE D == {row[s].date : s \in Newer(all, d)}
  <2>1. D \subseteq Nat /\ D # {}
    BY <1>1, <1>7 DEF Newer
  <2>2. PICK e \in D : \A f \in D : e <= f
    BY <2>1, LeastNatural
  <2> QED
    BY <1>1, <2>2 DEF Newer
<1> DEFINE e == row[t].date
           k == rank(e)
           same == SameDate(all, e)
           m == Cardinality(same)
<1>9. e \in Nat /\ k \in Nat
  BY <1>1, <1>3, <1>8
<1>10. m \in Nat \ {0} /\ IsFiniteSet(same)
  <2>1. same # {} /\ same \subseteq all
    BY <1>8 DEF SameDate
  <2>2. IsFiniteSet(same) /\ m \in Nat
    BY <1>2, <2>1
  <2> HIDE DEF same
  <2> QED
    BY <2>1, <2>2, FS_EmptySet
<1>11. rank(d) = k + m
  <2>1. Newer(all, d) = Newer(all, e) \cup same /\ Newer(all, e) \cap same = {}
    BY <1>1, <1>8 DEF Newer, SameDate
  <2>2. IsFiniteSet(Newer(all, e))
    BY <1>2 DEF Newer
  <2> HIDE DEF same
  <2> QED
    BY <1>10, <2>1, <2>2, DisjointCount
<1>12. Covered(e)
  BY <1>3, <1>6, <1>9, <1>10, <1>11
<1>13. Cardinality(page \cap same) = Cardinality(Slots(p) \cap (k + 1 .. k + m))
  BY <1>8, PageShares DEF all
<1>14. Cardinality(Newer(page, d)) = Cardinality(Newer(page, e)) + Cardinality(page \cap same)
  <2>1. Newer(page, d) = Newer(page, e) \cup (page \cap same)
        /\ Newer(page, e) \cap (page \cap same) = {}
    BY <1>1, <1>8 DEF Newer, SameDate
  <2>2. IsFiniteSet(Newer(page, e)) /\ IsFiniteSet(page \cap same)
    BY <1>1, <1>2 DEF Newer
  <2> HIDE DEF same
  <2> QED
    BY <2>1, <2>2, DisjointCount
<1>15. Cardinality(Slots(p) \cap 1 .. (k + m))
         = Cardinality(Slots(p) \cap 1 .. k) + Cardinality(Slots(p) \cap (k + 1 .. k + m))
  <2> DEFINE low == Slots(p) \cap 1 .. k
             high == Slots(p) \cap (k + 1 .. k + m)
             both == Slots(p) \cap 1 .. (k + m)
  <2>1. both = low \cup high /\ low \cap high = {}
    BY <1>9, <1>10
  <2>2. IsFiniteSet(low) /\ IsFiniteSet(high)
    BY <1>2
  <2> HIDE DEF low, high, both
  <2>3. Cardinality(both) = Cardinality(low) + Cardinality(high)
    BY <2>1, <2>2, DisjointCount
  <2> QED
    BY <2>3 DEF low, high, both
<1>16. /\ Cardinality(Newer(page, e)) \in Nat /\ Cardinality(page \cap same) \in Nat
       /\ Cardinality(Slots(p) \cap 1 .. k) \in Nat
  BY <1>1, <1>2 DEF Newer
<1> HIDE DEF k, m, same, e
<1>17. Covered(d)
  <2>1. Cardinality(Newer(page, e)) >= Cardinality(Slots(p) \cap 1 .. k)
    BY <1>12 DEF k
  <2>2. Cardinality(Slots(p) \cap 1 .. rank(d))
          = Cardinality(Slots(p) \cap 1 .. k) + Cardinality(page \cap same)
    BY <1>11, <1>13, <1>15
  <2> HIDE DEF rank
  <2> QED
    BY <1>14, <1>16, <2>1, <2>2
<1> QED
  BY <1>6, <1>17

\* A row that no other row of its user shares the date with, and that comes no
\* earlier than page p, is on page p or comes no earlier than the next one; and
\* then page p is not a short one.
LEMMA PageOrLater ==
    ASSUME StoreTypeOK, NEW u, NEW p \in Nat, NEW page \in Pages(u, "any", p),
           NEW t \in RowsOf(u), AloneOnItsDate(t),
           Cardinality(Newer(RowsOf(u), row[t].date)) >= p * PageSize
    PROVE  \/ t \in page
           \/ /\ ~(Cardinality(page) < PageSize)
              /\ Cardinality(Newer(RowsOf(u), row[t].date)) >= (p + 1) * PageSize
<1> DEFINE d == row[t].date
           n == Cardinality(Newer(RowsOf(u), d))
           from == p * PageSize
<1>1. Matching(u, "any") = RowsOf(u) /\ page \subseteq RowsOf(u) /\ RowsOf(u) \subseteq Tx
  BY DEF Matching, Pages, RowsOf
<1>2. d \in Nat
  <2>1. row[t] \in Row
    BY DEF StoreTypeOK, RowsOf
  <2> QED
    BY <2>1 DEF Row
<1>3. IsFiniteSet(page) /\ IsFiniteSet(Newer(page, d)) /\ IsFiniteSet(Newer(RowsOf(u), d))
  BY <1>1, StoreAssumption, FS_Subset DEF Newer
<1>4. n \in Nat /\ Cardinality(page) \in Nat /\ Cardinality(Newer(page, d)) \in Nat
  BY <1>3, FS_CardinalityType
<1>5. from \in Nat /\ PageSize \in Nat \ {0} /\ (p + 1) * PageSize = from + PageSize
  BY TesterAssumption
<1>6. SameDate(RowsOf(u), d) = {t}
  BY DEF SameDate, AloneOnItsDate, RowsOf
<1>7. Cardinality(page \cap {t}) = Cardinality(Slots(p) \cap (n + 1 .. n + 1))
  <2>1. Cardinality({t}) = 1
    BY FS_Singleton
  <2>2. t \in Matching(u, "any")
    BY <1>1
  <2>3. LET same == SameDate(Matching(u, "any"), row[t].date)
            k == Cardinality(Newer(Matching(u, "any"), row[t].date))
        IN Cardinality(page \cap same)
             = Cardinality(Slots(p) \cap (k + 1 .. k + Cardinality(same)))
    BY <2>2 DEF Pages, Newer, SameDate, Slots
  <2> QED
    BY <1>1, <1>6, <2>1, <2>3
<1> HIDE DEF n, from, d
<1>8. Slots(p) = from + 1 .. from + PageSize
  BY <1>5 DEF Slots, from
<1>9. n >= from
  BY DEF n, from, d
<1>10. CASE n + 1 \in Slots(p)
  <2>1. Slots(p) \cap (n + 1 .. n + 1) = {n + 1}
    BY <1>4, <1>10
  <2>2. Cardinality(page \cap {t}) = 1
    BY <1>7, <2>1, FS_Singleton
  <2>3. page \cap {t} # {}
    BY <2>2, FS_EmptySet
  <2> QED
    BY <2>3
<1>11. CASE n + 1 \notin Slots(p)
  <2>1. n >= from + PageSize
    BY <1>4, <1>5, <1>8, <1>9, <1>11
  <2>2. Slots(p) \cap 1 .. n = Slots(p)
    BY <1>4, <1>5, <1>8, <2>1
  <2>3. Cardinality(Slots(p)) = PageSize
    BY <1>5, <1>8, FS_Interval
  <2>4. Cardinality(Newer(page, d)) >= PageSize
    BY <1>1, <1>2, <2>2, <2>3, PagePrefix DEF n
  <2>5. Cardinality(Newer(page, d)) <= Cardinality(page)
    BY <1>3, FS_Subset DEF Newer
  <2> QED
    BY <1>4, <1>5, <2>1, <2>4, <2>5 DEF n, from, d
<1> QED
  BY <1>10, <1>11

-----------------------------------------------------------------------------
(* The walk: what it has not read of the rows it began with is still to     *)
(* come, and a short page is not read before.                              *)

WalksAll == walk # Null /\ walk.all /\ walk.first = 0 /\ walk.filter = "any"

Reached == WalksAll =>
    /\ walk.cut => walk.over
    /\ walk.had \subseteq RowsOf(walk.user)
    /\ \A t \in walk.had : AloneOnItsDate(t) =>
          walk.got[t] # "absent" \/ ((walk.over => walk.cut) /\ Coming(t))

LEMMA ReachedByPage ==
    ASSUME Inv, Reached, FetchPage
    PROVE  Reached'
<1>1. StoreTypeOK /\ walk # Null /\ walk \in Walk /\ walk.first <= walk.page /\ UNCHANGED row
  BY DEF Inv, TypeOK, TesterTypeOK, FetchPage, Backend, storeVars
<1>2. PICK page \in Pages(walk.user, walk.filter, walk.page) :
          walk' = [walk EXCEPT !.got = Update(walk.got, page),
                               !.page = @ + 1,
                               !.over = ~walk.all \/ Cardinality(page) < PageSize]
  BY DEF FetchPage
<1>3. PICK over \in BOOLEAN : over = (~walk.all \/ Cardinality(page) < PageSize)
  OBVIOUS
<1>4. walk' = [walk EXCEPT !.got = Update(walk.got, page), !.page = walk.page + 1,
                           !.over = over]
  BY <1>2, <1>3, Zenon
<1>5. /\ walk'.got = Update(walk.got, page) /\ walk'.page = walk.page + 1
      /\ walk'.over = over /\ walk'.all = walk.all /\ walk'.first = walk.first
      /\ walk'.filter = walk.filter /\ walk'.had = walk.had /\ walk'.user = walk.user
      /\ walk'.cut = walk.cut /\ walk.page \in Nat
  BY <1>1, <1>4 DEF Walk
<1>6. SUFFICES ASSUME walk.all, walk.first = 0, walk.filter = "any"
               PROVE  Reached'
  BY <1>5, Zenon DEF Reached, WalksAll
<1>7. /\ walk.cut => walk.over
      /\ walk.had \subseteq RowsOf(walk.user)
      /\ \A t \in walk.had : AloneOnItsDate(t) => walk.got[t] # "absent" \/ Coming(t)
  BY <1>1, <1>6, Zenon DEF Reached, WalksAll
<1>8. over <=> Cardinality(page) < PageSize
  BY <1>3, <1>6
<1>9. ASSUME NEW t \in walk.had, AloneOnItsDate(t)
      PROVE  \/ walk'.got[t] # "absent"
             \/ /\ ~over
                /\ Cardinality(Newer(RowsOf(walk.user), row[t].date))
                      >= (walk.page + 1) * PageSize
  <2>1. t \in RowsOf(walk.user) /\ t \in Tx /\ row[t].status \in Status
    <3>1. t \in RowsOf(walk.user)
      BY <1>7
    <3>2. t \in Tx /\ row[t] \in Row
      BY <1>1, <3>1 DEF RowsOf, StoreTypeOK
    <3> QED
      BY <3>1, <3>2 DEF Row
  <2>2. walk'.got[t] = IF t \in page THEN row[t].status ELSE walk.got[t]
    BY <1>5, <2>1 DEF Update
  <2>3. t \in page => walk'.got[t] # "absent"
    BY <2>1, <2>2 DEF Status
  <2>4. CASE walk.got[t] # "absent"
    BY <2>2, <2>3, <2>4
  <2>5. CASE Coming(t)
    <3>1. \/ t \in page
          \/ /\ ~(Cardinality(page) < PageSize)
             /\ Cardinality(Newer(RowsOf(walk.user), row[t].date))
                   >= (walk.page + 1) * PageSize
      BY <1>1, <1>5, <1>6, <1>9, <2>1, <2>5, PageOrLater DEF Coming
    <3> QED
      BY <1>8, <2>3, <3>1, Zenon
  <2> QED
    BY <1>7, <1>9, <2>4, <2>5
<1>10. /\ \A t : AloneOnItsDate(t)' <=> AloneOnItsDate(t)
       /\ RowsOf(walk.user)' = RowsOf(walk'.user)
       /\ RowsOf(walk'.user) = RowsOf(walk.user)
       /\ \A t : Coming(t)' <=> Cardinality(Newer(RowsOf(walk.user), row[t].date))
                                   >= (walk.page + 1) * PageSize
  BY <1>1, <1>5 DEF AloneOnItsDate, RowsOf, Coming, Newer
<1>11. \A t \in walk'.had : AloneOnItsDate(t)' =>
          walk'.got[t] # "absent" \/ ((walk'.over => walk'.cut) /\ Coming(t)')
  BY <1>5, <1>9, <1>10, Zenon
<1>12. ~walk.cut
  BY <1>7, Zenon DEF FetchPage
<1> QED
  BY <1>5, <1>7, <1>10, <1>11, <1>12, Zenon DEF Reached

LEMMA ReachedAnew ==
    ASSUME UNCHANGED row, NEW u, NEW todo, NEW filter, NEW page \in Nat, NEW all, NEW got,
           StartWalk(u, todo, filter, page, all, got)
    PROVE  Reached'
<1>1. /\ walk'.user = u /\ walk'.first = page /\ walk'.page = page
      /\ walk'.had = RowsOf(u) /\ walk'.over = FALSE /\ walk'.cut = FALSE
  BY DEF StartWalk
<1>2. RowsOf(walk.user)' = RowsOf(u)
  BY <1>1 DEF RowsOf
<1>3. ASSUME walk'.first = 0, NEW t PROVE Coming(t)'
  <2> SUFFICES Cardinality(Newer(RowsOf(walk.user), row[t].date))' >= 0
    BY <1>1, <1>3, TesterAssumption DEF Coming
  <2> QED
    BY FS_CardinalityType, StoreAssumption, FS_Subset DEF Newer, RowsOf
<1> QED
  BY <1>1, <1>2, <1>3, Zenon DEF Reached, WalksAll

\* Rows come and change labels, but keep their user and their date.
LEMMA ReachedWhileRowsGrow ==
    ASSUME Inv, Inv', Reached, UNCHANGED walk,
           \A t \in Tx : row[t] # Null =>
              row'[t] # Null /\ row'[t].user = row[t].user /\ row'[t].date = row[t].date
    PROVE  Reached'
<1>1. /\ walk # Null => walk \in Walk
      /\ StoreTypeOK /\ StoreTypeOK'
  BY DEF Inv, TypeOK, TesterTypeOK
<1>2. SUFFICES ASSUME WalksAll, walk \in Walk PROVE Reached'
  BY <1>1, Zenon DEF Reached, WalksAll
<1> DEFINE u == walk.user
           rows == RowsOf(u)
<1>3. /\ walk.cut => walk.over
      /\ walk.had \subseteq rows
      /\ \A t \in walk.had : AloneOnItsDate(t) =>
            walk.got[t] # "absent" \/ ((walk.over => walk.cut) /\ Coming(t))
  BY <1>2, Zenon DEF Reached
<1>4. \A v : RowsOf(v) \subseteq RowsOf(v)'
  BY DEF RowsOf
<1>5. \A t \in rows : AloneOnItsDate(t)' => AloneOnItsDate(t)
  <2>1. \A t \in rows, s \in rows : row'[t].user = row[t].user /\ row'[s].date = row[s].date
    BY DEF RowsOf
  <2>2. \A t \in rows : row[t].user = u
    BY DEF RowsOf
  <2> QED
    BY <1>4, <2>1, <2>2 DEF AloneOnItsDate
<1>6. ASSUME NEW t \in rows, Coming(t) PROVE Coming(t)'
  <2> DEFINE older == Newer(rows, row[t].date)
  <2>1. row'[t].date = row[t].date /\ walk'.user = u /\ walk'.page = walk.page
    BY DEF RowsOf
  <2>2. older \subseteq {s \in RowsOf(u)' : row'[s].date > row[t].date}
    <3>1. \A s \in rows : row'[s].date = row[s].date
      BY DEF RowsOf
    <3> QED
      BY <1>4, <3>1 DEF Newer
  <2>3. {s \in RowsOf(u)' : row'[s].date > row[t].date} \subseteq Tx
    BY DEF RowsOf
  <2>4. IsFiniteSet({s \in RowsOf(u)' : row'[s].date > row[t].date})
    BY <2>3, StoreAssumption, FS_Subset
  <2>5. /\ Cardinality(older) <= Cardinality({s \in RowsOf(u)' : row'[s].date > row[t].date})
        /\ Cardinality(older) \in Nat
        /\ Cardinality({s \in RowsOf(u)' : row'[s].date > row[t].date}) \in Nat
    BY <2>2, <2>4, FS_Subset, FS_CardinalityType
  <2>6. walk.page * PageSize \in Nat
    BY <1>2, TesterAssumption DEF Walk
  <2>7. Cardinality(older) >= walk.page * PageSize
    BY <1>6 DEF Coming
  <2>8. Cardinality({s \in RowsOf(u)' : row'[s].date > row[t].date}) >= walk.page * PageSize
    <3> HIDE DEF older
    <3> QED
      BY <2>5, <2>6, <2>7
  <2> QED
    BY <2>1, <2>8 DEF Coming, Newer, RowsOf
<1>7. walk'.had \subseteq RowsOf(walk.user)'
  BY <1>3, <1>4 DEF RowsOf
<1>8. \A t \in walk'.had : AloneOnItsDate(t)' =>
         walk'.got[t] # "absent" \/ ((walk'.over => walk'.cut) /\ Coming(t)')
  BY <1>3, <1>5, <1>6, Zenon
<1> QED
  BY <1>3, <1>7, <1>8, Zenon DEF Reached

LEMMA ReachedStep ==
    Inv /\ Inv' /\ Reached /\ [Next]_vars => Reached'
<1> SUFFICES ASSUME Inv, Inv', Reached, [Next]_vars PROVE Reached'
  OBVIOUS
<1>1. StoreTypeOK /\ CoreTypeOK /\ TesterTypeOK /\ CoreInv /\ TesterInv
  BY DEF Inv, TypeOK
<1>2. CASE UNCHANGED <<walk, row>>
  BY <1>2, ReachedWhileRowsGrow
<1>3. CASE walk' = Null
  BY <1>3 DEF Reached, WalksAll
<1>4. CASE CoreNext /\ UNCHANGED testerVars
  <2>1. UNCHANGED walk
    BY <1>4 DEF testerVars
  <2> QED
    BY <1>1, <1>4, <2>1, RowsGrow, ReachedWhileRowsGrow
<1>5. CASE TesterNext /\ UNCHANGED coreVars
  <2>1. UNCHANGED row
    BY <1>1, <1>5, TesterStore
  <2>2. CASE FetchPage
    BY <2>2, ReachedByPage
  <2>3. CASE EmptyBody
    <3>1. walk \in Walk /\ walk' = [walk EXCEPT !.over = TRUE, !.cut = TRUE]
      BY <1>1, <2>3 DEF EmptyBody, TesterTypeOK
    <3>2. /\ walk'.cut /\ walk'.over /\ walk'.all = walk.all
          /\ walk'.first = walk.first /\ walk'.filter = walk.filter
          /\ walk'.had = walk.had /\ walk'.got = walk.got
          /\ walk'.user = walk.user /\ walk'.page = walk.page
      BY <3>1 DEF Walk
    <3>3. /\ \A t : AloneOnItsDate(t)' <=> AloneOnItsDate(t)
          /\ \A t : Coming(t)' <=> Coming(t)
          /\ RowsOf(walk.user)' = RowsOf(walk.user)
      BY <2>1, <3>2 DEF AloneOnItsDate, Coming, RowsOf, Newer
    <3> QED
      BY <2>3, <3>2, <3>3, Zenon DEF EmptyBody, Reached, WalksAll
  <2>4. CASE Poll
    BY <2>1, <2>4, ReachedAnew DEF Poll
  <2>5. CASE NextUser
    BY <2>1, <2>5, ReachedAnew DEF NextUser
  <2>6. ASSUME NEW u \in known, NEW form \in Loads, Load(u, form.filter, form.page, form.all)
        PROVE  Reached'
    <3>1. form.page \in Nat
      BY TesterAssumption
    <3> QED
      BY <2>1, <2>6, <3>1, ReachedAnew DEF Load
  <2>7. CASE UNCHANGED walk
    BY <1>2, <2>1, <2>7
  <2> QED
    BY <1>3, <1>5, <2>2, <2>3, <2>4, <2>5, <2>6, <2>7
       DEF TesterNext, Script, Rendered, RequestFails, Interrupt, Summarize, Show, Sent,
           EndPoll, Send, LateDelivery, Preview, Run, Leave
<1>6. CASE Answer /\ UNCHANGED <<coreVars, testerVars>>
  BY <1>2, <1>6 DEF Answer, testerVars
<1>7. CASE UNCHANGED vars
  BY <1>2, <1>7 DEF vars, storeVars, testerVars
<1> QED
  BY <1>4, <1>5, <1>6, <1>7 DEF Next

\* However many rows the core inserts between two requests, and wherever on the
\* pages, a walk over all of them has returned every row that was there when it
\* began, but for rows that share their date and those behind an empty body.
THEOREM NothingMissed == Spec => []WalkMissesNothing
<1>1. Init => Reached
  BY DEF Init, TesterInit, Reached, WalksAll
<1>2. Reached => WalkMissesNothing
  <2> SUFFICES ASSUME Reached, walk # Null, walk.over, walk.all, walk.first = 0,
                      walk.filter = "any", NEW t \in walk.had, AloneOnItsDate(t)
               PROVE  walk.got[t] # "absent" \/ (walk.cut /\ Coming(t))
    BY Zenon DEF WalkMissesNothing
  <2> QED
    BY Zenon DEF Reached, WalksAll
<1> QED
  BY <1>1, <1>2, Initially, Inductive, ReachedStep, PTL DEF Spec
=============================================================================
