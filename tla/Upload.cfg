SPECIFICATION Spec
CONSTANTS
    t1 = t1
    t2 = t2
    f1 = f1
    f2 = f2
    Tabs = {t1, t2}
    Files = {f1, f2}
    Drops <- DropsOfTwo
    Totals = {1}
    MaxTries = 1
    MaxRuns = 1
    MaxChunk = 3
    MaxFaults = 1
    Old = Old
    None = None
INVARIANTS
    TypeOK
    CompleteIsWhole
PROPERTIES
    UploadsEnd
    OldFilesAreKept
CHECK_DEADLOCK FALSE
