SPECIFICATION FairSpec
CONSTANTS
    Name <- LinkName
    Tpl <- LinkTpl
    Plain <- MCPlain
    Designs <- TreeDesigns
INVARIANTS
    TypeOK
    IdsIssuedOnce
    LinksStayHome
    PathDistinct
    TreeCounted
    IfaceBindingFollowed
    ResolvedInFinalTree
    DepEndsEvidenced
PROPERTIES
    Unfolds
    Terminates
CHECK_DEADLOCK FALSE
