SPECIFICATION Spec
CONSTANTS
    b1 = b1
    b2 = b2
    r1 = r1
    r2 = r2
    c1 = c1
    c2 = c2
    Blobs <- MCBlobs
    Receivers <- MCReceivers
    Copiers <- MCCopiers
    Size <- MCSize
    MaxBlobSize = 3
    MaxBatch = 2
    WorkCap = 2
    EnumCap = 0
    HourlyCompareOn = FALSE
    FullSyncOnStart = {FALSE}
    MaxCrashes = 1
SYMMETRY Symmetry
INVARIANT
    AckedSurvivesRestart
