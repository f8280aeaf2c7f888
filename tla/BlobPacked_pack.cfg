SPECIFICATION Spec
CONSTANTS
    c = c
    e = e
    f = f
    g = g
    f1 = f1
    f2 = f2
    g1 = g1
    g2 = g2
    g3 = g3
    w = w
    h1 = h1
    h2 = h2
    Blobs <- BlobsOfTwo
    Files <- TwoFiles
    Zips <- ZipsOfTwo
    Contents <- MCContents
    Packs <- MCPacks
    DataSize <- MCDataSize
    Whole <- MCWhole
    Requests <- TwoRequests
    Removers = {}
    Readers = {}
    GateSize = 2
    KeepGoing = TRUE
    MaxErrors = 1
    MaxCrashes = 1
    MaxRemoves = 0
INVARIANTS
    Durable
    WholeRowsComplete
CHECK_DEADLOCK FALSE
SYMMETRY Symmetry
