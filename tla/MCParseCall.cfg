CONSTANTS
    MsatsPerSat = 3
    Decimals = 1
    MAX_MSATS = 18
    U64 = 64
    network = "main"
    MAX_AMOUNT_DIFFERENCE = 2
    MAX_QUERIES = 4
    Graphs <- MCGraphs
    MaxQueued = 6
    Texts <- MCTexts
    Resolvable <- MCResolvable
SPECIFICATION Spec
INVARIANTS
    MethodsAgree
    AmountsPayable
    AmountAsWritten
    ParamOrderIrrelevant
    ProofComplete
PROPERTY ResolutionEnds
CHECK_DEADLOCK FALSE
