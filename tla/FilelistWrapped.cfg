SPECIFICATION FairSpec
CONSTANTS
    Dir <- MCDir
    Leaf <- MCLeaf
    Inputs <- WrappedInputs
    MaxDepth = 2
CHECK_DEADLOCK FALSE
INVARIANTS
    TypeOK
    ReadAsUnwrapped
    NoListInItself
PROPERTY ReadingEnds
