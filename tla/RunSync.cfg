SPECIFICATION FairSpec
CONSTANTS
    MaxPending = 7
    MaxBatch = 6
    EnumCap = 2
    WorkCap = 6
    ResCap = 1
    PoolSize = 2
INVARIANTS
    IInv
    NoWorkAfterReturn
PROPERTIES
    Terminates
    RunReturns
CHECK_DEADLOCK FALSE
