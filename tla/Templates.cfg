SPECIFICATION Spec
CONSTANTS
    Designs <- MCDesigns
    Insts <- MCInsts
    Keys <- MCKeys
    NoBody = NoBody
    Subs <- MCSubs
    Width <- MCWidth
    Fixed <- MCFixed
    LoopVars <- MCLoopVars
    NoExpr = NoExpr
    NoNet = NoNet
INVARIANTS
    GroupsReady
    BodiesChosen
    ArcsAreTrue
    TiesAreTold
