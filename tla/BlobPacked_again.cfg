SPECIFICATION Spec
CONSTANTS
    c = c
    e = e
    f = f
    g = g
    f1 = f1
    f2 = f2
    g1 = g1
    g2 = g2
    g3 = g3
    w = w
    h1 = h1
    h2 = h2
    Blobs <- SmallFile
    Files <- OneFile
    Zips <- OneZip
    Contents <- MCContents
    Packs <- MCPacks
    DataSize <- MCDataSize
    Whole <- MCWhole
    Requests <- TwoRequests
    Removers = {h2}
    Readers = {}
    GateSize = 1
    KeepGoing = TRUE
    MaxErrors = 0
    MaxCrashes = 0
    MaxRemoves = 1
INVARIANT
    DurableAgain
CHECK_DEADLOCK FALSE
