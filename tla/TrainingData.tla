----------------------------- MODULE TrainingData -----------------------------
(***************************************************************************)
(* What export_datasets generates for a split: how many rows of each       *)
(* category, and which merchant groups they are about.                     *)
(*                                                                         *)
(* Categories are numbered in the order of their names; the catalog lists  *)
(* them in the order Catalog.  Shares and the hold-out ratio are in        *)
(* hundredths.  The random generator is a choice among all outcomes,       *)
(* except where the code seeds one of its own, to shuffle the groups of a  *)
(* category: that shuffle is a function of the seed, Shuffle.              *)
(*                                                                         *)
(* Abstracted: texts, amounts, MCC codes, time stamps, users.  A remainder *)
(* is a float: rounding errors break the ties, so they break either way.   *)
(***************************************************************************)
EXTENDS PythonNumbers, Sequences, FiniteSets, FiniteSetsExt

CONSTANTS
    Catalog,     \* the categories of the catalog, in its order
    Undefined,   \* UNDEFINED
    Groups,      \* the merchant groups of a category
    Share,       \* distributions.realistic, 0 where it has no entry
    Seeds,
    Shuffle      \* Shuffle[seed][category]: the groups, shuffled

Split == {"train", "validation", "test"}
CatalogCategories == {Catalog[i] : i \in DOMAIN Catalog}

\* UNDEFINED is added where the catalog does not have it.
Labels == CatalogCategories \cup {Undefined}

SumOf(counts) == MapThenSumSet(LAMBDA c : counts[c], DOMAIN counts)

ASSUME CatalogAssumption ==
    /\ Catalog \in Seq(Nat \ {0}) /\ Undefined \in Nat \ {0}
    /\ Share \in [Labels -> 0 .. 100]
    /\ SumOf(Share) <= 100
    /\ \A c \in CatalogCategories : IsFiniteSet(Groups[c])
    /\ \A seed \in Seeds, c \in CatalogCategories :
          LET s == Shuffle[seed][c] IN
          /\ s \in Seq(Groups[c])
          /\ {s[i] : i \in DOMAIN s} = Groups[c] /\ Len(s) = Cardinality(Groups[c])

Config == [profile: {"balanced", "realistic"}, strategy: {"holdout", "mixed"},
           perCategory: [Split -> Int], size: [Split -> Int],
           amountMin: Int, amountMax: Int, users: Int, ratio: Int, seed: Seeds]

\* validate_export_config: the sizes are not looked at.
Valid(cfg) ==
    /\ cfg.amountMin > 0 /\ cfg.amountMax >= cfg.amountMin
    /\ cfg.users > 0
    /\ cfg.ratio \in 0 .. 99

Total(cfg, split) ==
    IF cfg.profile = "balanced" THEN cfg.perCategory[split] * Cardinality(Labels)
    ELSE cfg.size[split]

\* build_category_plan does not throw.
Plannable(cfg, split) == Total(cfg, split) > 0

\* The whole part of every share of n rows, and its remainder.
Floor(n) == [c \in Labels |-> (Share[c] * n) \div 100]
Remainder(n) == [c \in Labels |-> (Share[c] * n) % 100]

\* What the whole parts leave over: one row each for the largest remainders,
\* the rest, where the shares are below one, at random.
Left(n) == n - SumOf(Floor(n))
Extra(n) == Smaller(Left(n), Cardinality(Labels))
Rest(n) == Left(n) - Extra(n)

Lucky(n) == {s \in kSubset(Extra(n), Labels) :
                \A c \in s, d \in Labels \ s : Remainder(n)[c] >= Remainder(n)[d]}
AtRandom(k) == {more \in [Labels -> 0 .. k] : SumOf(more) = k}

Rows(n, lucky, more) ==
    [c \in Labels |-> Floor(n)[c] + (IF c \in lucky THEN 1 ELSE 0) + more[c]]

\* Mutant: what the rounding leaves over goes anywhere.
RealisticCountsAnywhere(n) == {Rows(n, {}, more) : more \in AtRandom(Left(n))}

RealisticCounts(n) ==
    {Rows(n, lucky, more) : lucky \in Lucky(n), more \in AtRandom(Rest(n))}

\* build_category_plan: rows per category (the order is shuffled).
Plans(cfg, split) ==
    IF cfg.profile = "balanced"
    THEN {[c \in Labels |-> cfg.perCategory[split]]}
    ELSE RealisticCounts(cfg.size[split])

\* Mutant: the last group may be held out too.
HeldOutAll(n, ratio) == Larger(1, RoundHundredths(n * ratio))

\* holdout_count, of n groups.
HeldOut(n, ratio) == Smaller(n - 1, Larger(1, RoundHundredths(n * ratio)))

SetOf(s) == {s[i] : i \in DOMAIN s}

\* build_split_pools: the groups of a category a split may use.
Pool(cfg, split, c) ==
    LET shuffled == Shuffle[cfg.seed][c]
        n == Len(shuffled)
        held == HeldOut(n, cfg.ratio)
        evaluation == SubSeq(shuffled, 1, held)
        train == SubSeq(shuffled, held + 1, n)
        active == IF split = "train" THEN train ELSE evaluation
    IN IF cfg.strategy = "mixed" \/ n <= 1 THEN Groups[c]
       ELSE SetOf(IF active = <<>> THEN shuffled ELSE active)

\* build_transaction_row for the rows of a plan: the groups that occur.  A
\* recurring payment repeats a group of the same split: its users are new.
Used(cfg, split, plan) ==
    LET pool(c) == IF plan[c] = 0 \/ c = Undefined THEN {} ELSE Pool(cfg, split, c)
    IN {used \in [CatalogCategories -> SUBSET UNION {pool(c) : c \in CatalogCategories}] :
           \A c \in CatalogCategories :
               used[c] \subseteq pool(c) /\ (used[c] = {} <=> pool(c) = {})}
=============================================================================
