SPECIFICATION FairSpec
CONSTANTS
    u1 = u1
    w1 = w1
    w2 = w2
    Null = Null
    Tx = {1, 2}
    UserIds = {u1}
    Workers = {w1, w2}
    MaxFaults = 1
    MaxAttempts = 2
    MaxLlmAttempts = 2
    MaxDeliveries = 2
    Sent <- MCSent
INVARIANTS
    TypeOK
    OneAccountPerUser
    RacesCostOneDelivery
    DoneIsAnswered
    DeliveryIsBounded
PROPERTY
    PendingIsLabelled
CHECK_DEADLOCK FALSE
