SPECIFICATION Spec
CONSTANTS
    Node <- MCNode
    Var <- MCVar
    Delay <- MCDelay
    Program <- TreePrograms
    Budget = 5
INVARIANTS
    TypeOK
    RowsNested
    BodiesInlined
    BudgetAccounts
    ContextInForce
    CallerNamed
