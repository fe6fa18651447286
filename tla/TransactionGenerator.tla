------------------------ MODULE TransactionGenerator ------------------------
(***************************************************************************)
(* generate_transactions of the transaction tester: which batches a        *)
(* configuration can produce.  The random generator is a choice among all  *)
(* outcomes; ratios are in hundredths, as the sliders give them.           *)
(*                                                                         *)
(* Abstracted: amounts, descriptions, merchants and MCC codes; the time    *)
(* stamp to the rank of its date among the dates of the batch.             *)
(***************************************************************************)
EXTENDS PythonNumbers, Sequences, FiniteSets, FiniteSetsExt

CONSTANTS
    Categories,    \* allowed_categories, without UNDEFINED
    WithMcc,       \* the categories whose template has MCC codes
    Dates          \* ranks of a date in the configured range

ASSUME GeneratorAssumption ==
    /\ IsFiniteSet(Categories) /\ WithMcc \subseteq Categories
    /\ Dates \subseteq Nat

Profiles == {"ambiguous", "low_confidence", "normal"}

\* What the controls of the page hand over.  The widgets bound the counts from
\* below; amounts (tenths of a cent) and the target user are free text.
Config == [users: Nat \ {0}, perUser: Nat \ {0},
           target: {"none", "uuid", "malformed"},
           amountMin: Int, amountMax: Int, from: Nat, to: Nat,
           counts: [Categories -> Nat], fill: BOOLEAN,
           ambiguous: 0 .. 100, low: 0 .. 100]

Total(cfg) == cfg.users * cfg.perUser
Selected(cfg) == MapThenSumSet(LAMBDA c : cfg.counts[c], Categories)

\* parse_decimal and _validate_config do not throw.
Valid(cfg) ==
    /\ cfg.amountMin > 0 /\ cfg.amountMax >= cfg.amountMin
    /\ cfg.from <= cfg.to
    /\ cfg.ambiguous + cfg.low <= 100
    /\ cfg.target # "malformed"
    /\ Categories # {}
    /\ Selected(cfg) <= Total(cfg)
    /\ Selected(cfg) < Total(cfg) => cfg.fill

\* Mutant: both targets rounded up past the total.
TargetsUnclamped(total, ambiguous, low) ==
    LET a == RoundHundredths(total * ambiguous)
        l == RoundHundredths(total * low)
    IN [p \in Profiles |-> CASE p = "ambiguous" -> a
                             [] p = "low_confidence" -> l
                             [] p = "normal" -> Larger(0, total - a - l)]

\* calculate_profile_targets.
Targets(total, ambiguous, low) ==
    LET a == RoundHundredths(total * ambiguous)
        l == RoundHundredths(total * low)
        fits == IF a + l > total THEN Larger(0, total - a) ELSE l
    IN [p \in Profiles |-> CASE p = "ambiguous" -> a
                             [] p = "low_confidence" -> fits
                             [] p = "normal" -> Larger(0, total - a - fits)]

TargetsOf(cfg) == Targets(Total(cfg), cfg.ambiguous, cfg.low)

Occurrences(plan, x) == Cardinality({i \in DOMAIN plan : plan[i] = x})

\* _build_category_plan: the selected ones, the rest at random, shuffled.
CategoryPlans(cfg) ==
    {plan \in [1 .. Larger(Total(cfg), Selected(cfg)) -> Categories] :
        \A c \in Categories : Occurrences(plan, c) >= cfg.counts[c]}

\* _build_profile_plan: as many of each profile as targeted, shuffled.
ProfilePlans(cfg) ==
    LET t == TargetsOf(cfg)
        length == t["ambiguous"] + t["low_confidence"] + t["normal"]
    IN {plan \in [1 .. length -> Profiles] :
           \A p \in Profiles : Occurrences(plan, p) = t[p]}

\* The user of the i-th transaction.
Owner(cfg, ids, i) ==
    IF cfg.target = "uuid" THEN ids[1] ELSE ids[((i - 1) \div cfg.perUser) + 1]

\* Without MCC codes there is no low-confidence event: it becomes a normal one.
ProfileFor(category, requested) ==
    IF requested = "low_confidence" /\ category \notin WithMcc
    THEN "normal" ELSE requested

\* How many user ids generate_transactions makes up.
IdsNeeded(cfg) == IF cfg.target = "uuid" THEN 1 ELSE cfg.users

\* _random_timestamp: any date of the range, both ends included.
DatesOf(cfg) == {d \in Dates : cfg.from <= d /\ d <= cfg.to}

\* _build_transaction.
Transaction(user, category, profile, date) ==
    [user |-> user, category |-> category, profile |-> profile, date |-> date]

\* The loop over the plans: batches of transactions for the users in ids.
Batches(cfg, ids) ==
    {[i \in DOMAIN categories |->
         Transaction(Owner(cfg, ids, i), categories[i],
                     ProfileFor(categories[i], profiles[i]), dates[i])] :
        categories \in CategoryPlans(cfg), profiles \in ProfilePlans(cfg),
        dates \in [1 .. Larger(Total(cfg), Selected(cfg)) -> DatesOf(cfg)]}

\* What the page promises of a batch: it has users times transactions-per-user
\* events, every user exactly its share (a target user all of them), at least
\* the selected number of each category, and the profile mix it displayed, up
\* to the low-confidence events that had to become normal ones.
AsConfigured(cfg, ids, batch) ==
    LET t == TargetsOf(cfg)
        count(P(_)) == Cardinality({i \in DOMAIN batch : P(batch[i])})
    IN /\ Len(batch) = Total(cfg)
       /\ \A u \in {ids[k] : k \in 1 .. IdsNeeded(cfg)} :
             count(LAMBDA x : x.user = u) = Total(cfg) \div IdsNeeded(cfg)
       /\ \A c \in Categories : count(LAMBDA x : x.category = c) >= cfg.counts[c]
       /\ t["ambiguous"] + t["low_confidence"] + t["normal"] = Total(cfg)
       /\ count(LAMBDA x : x.profile = "ambiguous") = t["ambiguous"]
       /\ count(LAMBDA x : x.profile = "low_confidence") <= t["low_confidence"]
       /\ count(LAMBDA x : x.profile = "normal" /\ x.category \in WithMcc) <= t["normal"]
=============================================================================
