SPECIFICATION Spec
CONSTANTS
    Null = Null
    Files <- MCFiles
    Responses <- MCResponses
    MaxIterations = 3
    MaxHistory = 2
    MaxRuns = 3
INVARIANT
    TraceShowsRequests
CHECK_DEADLOCK FALSE
