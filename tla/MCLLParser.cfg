CONSTANTS
    Scanned <- MCScanned
    MaxTokens = 10
SPECIFICATION Spec
CHECK_DEADLOCK FALSE
INVARIANTS
    TypeOK
    EOFAtBottom
    RefusedOnlyIfHopeless
PROPERTY ParseEnds
