SPECIFICATION FairSpec
CONSTANTS
    c = c
    d = d
    f = f
    p = p
    k = k
    Blobs <- AllBlobs
    Deps <- MCDeps
    Target <- MCTarget
    Deletable <- MCDeletable
    Dirs <- MCDirs
    Modes = {"serve", "reindex"}
    MaxFails <- NoFails
    MaxFailKinds = 0
    MaxCrashes = 0
PROPERTIES
    EventuallyIndexed
    ReindexTerminates
CHECK_DEADLOCK FALSE
