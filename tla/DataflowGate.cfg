SPECIFICATION Spec
CONSTANTS
    Subs <- MCSubs
    Width <- MCWidth
    Fixed <- MCFixed
    Nets <- MCNets
    Inside <- MCInside
    LoopVars <- MCLoopVars
    Bodies <- MCOutwardGateBodies
    NoExpr = NoExpr
    NoNet = NoNet
INVARIANT DriversTold
