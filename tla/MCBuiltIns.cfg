SPECIFICATION BSpec
CONSTANTS
    MaxCalls = 1
    MaxRounds = 0
CHECK_DEADLOCK FALSE
INVARIANTS
    CallsGiveTheirMeaning
PROPERTIES
    CallsEnd
