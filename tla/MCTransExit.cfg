SPECIFICATION TSpec
CONSTANTS
    Programs <- LoopPrograms
    Scanned <- MCTokens
    MaxTokens = 100
CHECK_DEADLOCK FALSE
INVARIANTS
    JumpsOnlyOutOfOpenLoops
