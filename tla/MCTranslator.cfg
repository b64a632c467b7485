SPECIFICATION TSpec
CONSTANTS
    Programs <- AllPrograms
    Scanned <- MCTokens
    MaxTokens = 100
CHECK_DEADLOCK FALSE
INVARIANTS
    StatementsStartClean
    JumpsToTheNamedLoop
    NamesMeanWhatTheTextSays
    CodeIsWellFormed
    DeclarationsAreKept
PROPERTIES
    TokensReachTheirStatement
    StatementsLeaveParentsAlone
