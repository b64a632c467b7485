SPECIFICATION Spec
CONSTANTS
    BUFFER_CHUNK = 1
    BUFFER_INIT_SIZE = 2
    BucketCount = 2
    ULONG_MAX = 16777215
    MaxParams = 2
    Key <- MCKey
    Name <- MCName
    Type = {"KW_INTEGER", "KW_STRING"}
    NoType = "none"
INVARIANTS KeysInTheirChainOnce SignaturesAreStrings SignaturesReadBack
CHECK_DEADLOCK FALSE
