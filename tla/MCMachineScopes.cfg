SPECIFICATION ESpec
CONSTANTS
    Programs <- ScopePrograms
    Scanned <- MCTokens
    MaxTokens = 40
    MaxCalls = 2
    MaxRounds = 3
CHECK_DEADLOCK FALSE
INVARIANT
    RunsWithoutFault
