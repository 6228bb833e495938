SPECIFICATION Spec
CONSTANTS
    Designs <- FoldedDesigns
    Insts <- MCInsts
    Keys <- MCKeys
    NoBody = NoBody
    Subs <- MCSubs
    Width <- MCWidth
    Fixed <- MCFixed
    LoopVars <- MCLoopVars
    NoExpr = NoExpr
    NoNet = NoNet
INVARIANTS
    StampedAsElaborated
