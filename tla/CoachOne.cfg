SPECIFICATION Spec
CONSTANTS
    u1 = u1
    Req = {r1, r2}
    Users = {u1}
    Workers = {w1}
    Null = Null
    userOf <- MCUserOf
    Keyed = {w1}
    MaxLlmAttempts = 3
    MaxAttempts = 2
    MaxFaults = 2
CHECK_DEADLOCK FALSE
INVARIANTS TypeOK AcknowledgedIsServed WorkIsBounded
PROPERTIES LifecycleSpec
