CONSTANTS
    VarType <- MCVarType
    FuncSig <- MCFuncSig
    Inputs <- CallInputs
SPECIFICATION Spec
CHECK_DEADLOCK FALSE
PROPERTY Terminates
