SPECIFICATION FairSpec
CONSTANTS
    r1 = r1
    r2 = r2
    Runs <- TwoRuns
    Batches = 2
    Overlap = FALSE
    None = None
    Prior = Prior
INVARIANTS
    TypeOK
    SealedIsWhole
    OutWhole
    NoStrayTemp
    ExitTellsStatus
    LogTruth
PROPERTIES
    Publishes
    EveryRunEnds
CHECK_DEADLOCK FALSE
