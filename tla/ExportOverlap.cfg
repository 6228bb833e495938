SPECIFICATION Spec
CONSTANTS
    r1 = r1
    r2 = r2
    Runs <- TwoRuns
    Batches = 2
    Overlap = TRUE
    None = None
    Prior = Prior
INVARIANTS
    OutWhole
CHECK_DEADLOCK FALSE
