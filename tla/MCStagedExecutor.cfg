SPECIFICATION Spec
CONSTANTS
    MaxVariants <- MCMaxVariants
    Dicts <- MCDicts
    NoCall <- NoSource
    Calls <- MCCalls
    Plans <- MCPlans
    MaxParallel = 2
INVARIANTS
    TypeOK
    DependenciesFirst
    EvidenceChain
    SkipsAreFinal
    DoneIsComplete
    LatestReferenceHolds
    AbortWaitsForPool
    CycleIsReal
PROPERTIES
    Terminates
    ImplementsDataflow
CHECK_DEADLOCK FALSE
