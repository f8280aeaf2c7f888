SPECIFICATION Spec
CONSTANTS
    c = c
    e = e
    f = f
    g = g
    f1 = f1
    f2 = f2
    g1 = g1
    g2 = g2
    g3 = g3
    w = w
    h1 = h1
    h2 = h2
    Blobs <- SmallFile
    Files <- OneFile
    Zips <- OneZip
    Contents <- MCContents
    Packs <- MCPacks
    DataSize <- MCDataSize
    Whole <- MCWhole
    Requests <- TwoRequests
    Removers = {h1}
    Readers = {h2}
    GateSize = 2
    KeepGoing = TRUE
    MaxErrors = 1
    MaxCrashes = 0
    MaxRemoves = 2
INVARIANTS
    TypeOK
    PackedFetchFinds
PROPERTY
    StorageContract
CHECK_DEADLOCK FALSE
