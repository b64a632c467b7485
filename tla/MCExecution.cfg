SPECIFICATION ESpec
CONSTANTS
    Programs <- RunnablePrograms
    Scanned <- MCTokens
    MaxTokens = 120
    MaxCalls = 2
    MaxRounds = 6
CHECK_DEADLOCK FALSE
INVARIANTS
    RunsWithoutFault
    ExpressionsHaveTheirTypes
    FunctionsLeaveOneValue
    ForRunsItsRounds
    ProgramsMeanWhatTheySay
