SPECIFICATION Spec
CONSTANTS
    c = c
    d = d
    f = f
    p = p
    k = k
    Blobs <- FourBlobs
    Deps <- MCDeps
    Target <- MCTarget
    Deletable <- MCDeletable
    Dirs <- MCDirs
    Modes = {"serve", "reindex"}
    MaxFails <- OneOfEach
    MaxFailKinds = 2
    MaxCrashes = 1
INVARIANTS
    TypeOK
    IndexedIsComplete
    NeededByIsInverse
    AckedIsPending
    AtRestAllIndexed
    CacheMatchesRows
    ReindexHonest
CHECK_DEADLOCK FALSE
