SPECIFICATION FairSpec
CONSTANTS
    u1 = u1
    Req = {r1}
    Users = {u1}
    Workers = {w1}
    Null = Null
    userOf <- MCUserOf
    Keyed = {w1}
    MaxLlmAttempts = 3
    MaxAttempts = 2
    MaxFaults = 0
CHECK_DEADLOCK FALSE
PROPERTIES PendingAlwaysEnds
