---------------------------- MODULE MCVerifiedBatch ----------------------------
EXTENDS VerifiedBatch

CONSTANTS c1, c2, w1

Base == [users |-> 1, perUser |-> 2, target |-> "none",
         amountMin |-> 50, amountMax |-> 50, from |-> 1, to |-> 2,
         counts |-> [c \in Categories |-> 0], fill |-> TRUE,
         ambiguous |-> 0, low |-> 0]

\* One user with two transactions on any two dates; two users with one each.
MCPublished == {
    [Base EXCEPT !.counts[c1] = 2, !.fill = FALSE],
    [Base EXCEPT !.users = 2, !.perUser = 1, !.to = 1, !.counts[c1] = 2,
                 !.fill = FALSE]}

MCLoads == {
    [filter |-> "any", page |-> 0, all |-> TRUE],
    [filter |-> "pending", page |-> 1, all |-> FALSE]}

\* Rounded halves with a clamp, a target user, a category without MCC codes,
\* and what is refused.
MCPreviewed == {
    [Base EXCEPT !.users = 3, !.perUser = 1, !.to = 1, !.ambiguous = 50, !.low = 50],
    [Base EXCEPT !.users = 2, !.to = 1, !.target = "uuid", !.ambiguous = 25],
    [Base EXCEPT !.to = 1, !.low = 50, !.counts[c2] = 1],
    [Base EXCEPT !.counts[c1] = 3],
    [Base EXCEPT !.fill = FALSE],
    [Base EXCEPT !.low = 60, !.ambiguous = 60],
    [Base EXCEPT !.target = "malformed"],
    [Base EXCEPT !.from = 2, !.to = 1]}
=============================================================================
