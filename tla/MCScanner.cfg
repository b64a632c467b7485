SPECIFICATION Spec
CONSTANTS
    BUFFER_CHUNK = 3
    IntBits = 5
    LongBits = 9
    Texts <- MCTexts
INVARIANTS BufferHoldsString LongestLexemes ErrorsAreHopeless TokensMeanTheirText
PROPERTY ScansToEnd
CHECK_DEADLOCK FALSE
