SPECIFICATION Spec
CONSTANTS
    c1 = c1
    c2 = c2
    w1 = w1
    Null = Null
    Tx = {1, 2}
    UserIds = {1, 2, 3, 4}
    Workers = {w1}
    Categories = {c1, c2}
    WithMcc = {c1}
    Dates = {1, 2}
    MaxFaults = 1
    MaxAttempts = 2
    Previewed <- MCPreviewed
    Published <- MCPublished
    Loads <- MCLoads
    TargetUser = 4
    PageSize = 1
    MaxPolls = 2
    MaxLoads = 1
INVARIANT
    LoadsToTheLastPage
CHECK_DEADLOCK FALSE
