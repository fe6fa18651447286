SPECIFICATION Spec
CONSTANTS
    t1 = t1
    t2 = t2
    food = food
    other = other
    Null = Null
    Tx = {t1, t2}
    Workers = {w1, w2}
    Categories = {food, other}
    MlAnswers <- MCMlAnswers
    LlmAnswers <- MCLlmAnswers
    Threshold = 9
    MaxCopies = 1
    MaxAttempts = 1
    MaxFaults = 1
CHECK_DEADLOCK FALSE
SYMMETRY Symmetric
INVARIANTS TypeOK RowsAreSettled MlDecisionsAreFinal LlmLabelsAreAnswers PendingHasWork
