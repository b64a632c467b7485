CONSTANTS
    VarType <- MCVarType
    FuncSig <- MCFuncSig
    Inputs <- AllInputs
SPECIFICATION Spec
CHECK_DEADLOCK FALSE
INVARIANTS
    AnalyzersMatchNonterminals
    DataStackMatchesAnalyzers
    AcceptedMeansReference
    RefusedHasNoMeaning
