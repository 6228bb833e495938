SPECIFICATION Spec
CONSTANTS
    Node <- MCNode
    Var <- MCVar
    Delay <- MCDelay
    Program <- TwoCalls
    Budget = 5
INVARIANTS
    CallerMadeTheCall
