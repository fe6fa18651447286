SPECIFICATION FairSpec
CONSTANTS
    t1 = t1
    t2 = t2
    food = food
    other = other
    Null = Null
    Tx = {t1}
    Workers = {w1}
    Categories = {food, other}
    MlAnswers <- MCMlAnswers
    LlmAnswers <- MCLlmAnswers
    Threshold = 9
    MaxCopies = 1
    MaxAttempts = 2
    MaxFaults = 0
CHECK_DEADLOCK FALSE
PROPERTY PendingAlwaysEnds
