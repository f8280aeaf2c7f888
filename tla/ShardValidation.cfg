SPECIFICATION FairSpec
CONSTANTS
    MaxRef = 4
    EnumCap = 3
    MissingCap = 1
    MayFail <- AllSides
INVARIANTS
    OnlyMissingEnqueued
    ValidatedCompletely
PROPERTIES
    Terminates
    ShardProcessed
CHECK_DEADLOCK FALSE
