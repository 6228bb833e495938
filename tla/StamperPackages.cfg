SPECIFICATION Spec
CONSTANTS
    Name <- MCName
    Tpl <- MCTpl
    Plain <- MCPlain
    Designs <- PackageDesigns
INVARIANTS
    DuplicatesMatchTree
CHECK_DEADLOCK FALSE
