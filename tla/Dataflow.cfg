SPECIFICATION Spec
CONSTANTS
    Subs <- MCSubs
    Width <- MCWidth
    Fixed <- MCFixed
    Nets <- MCNets
    Inside <- MCInside
    LoopVars <- MCLoopVars
    Bodies <- MCBodies
    NoExpr = NoExpr
    NoNet = NoNet
INVARIANTS
    TypeOK
    EveryFlowFiled
    ExactDepsAreTrue
    NothingCrossed
    DriversTold
    RowsAgree
    ReferencesFiled
    ControlsTold
