CONSTANTS
    Addr = {a1, a2, a3, a4}
    Null = Null
    MEMORY_CHUNK = 2
SPECIFICATION Spec
CHECK_DEADLOCK FALSE
INVARIANTS
    TypeOK
    EachBlockRecordedOnce
    NoBlockLeftAtEnd
PROPERTY ImplementsBlockStore
