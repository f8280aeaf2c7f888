SPECIFICATION FairSpec
CONSTANTS
    a = a
    b = b
    a1 = a1
    b1 = b1
    Plains = {a, b}
    Encs = {a1, b1}
    Plain <- MCPlain
    Metas = {m1, m2, m3, m4, m5, m6, m7, m8}
    Requests = {r1, r2}
    Packers = {t1, t2}
    FullMetaBlobSize = 2
    SmallMetaCountLimit = 1
    MaxErrors = 1
    MaxCrashes = 2
INVARIANTS
    TypeOK
    Served
PROPERTIES
    StorageContract
    PackedAtNextStart
CHECK_DEADLOCK FALSE
