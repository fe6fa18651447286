SPECIFICATION Spec
CONSTANTS
    Null = Null
    Files <- MCFiles
    Responses <- MCResponses
    MaxIterations = 3
    MaxHistory = 2
    MaxRuns = 3
INVARIANTS
    TraceStopsAtItsStep
    RepliesFollowCalls
    ResultIsWhole
CHECK_DEADLOCK FALSE
