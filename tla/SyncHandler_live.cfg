SPECIFICATION FairSpec
CONSTANTS
    b1 = b1
    b2 = b2
    r1 = r1
    r2 = r2
    c1 = c1
    c2 = c2
    Blobs <- MCBlobs
    Receivers <- OneReceiver
    Copiers <- OneCopier
    Size <- MCSize
    MaxBlobSize = 3
    MaxBatch = 1
    WorkCap = 1
    EnumCap = 0
    HourlyCompareOn = FALSE
    FullSyncOnStart = {TRUE, FALSE}
    MaxCrashes = 1
PROPERTY
    RecordedCopied
