SPECIFICATION Spec
CONSTANTS
    r1 = r1
    r2 = r2
    builtin = builtin
    None = None
    UserIds <- MCUserIds
    SystemIds = {builtin}
    Catalogues <- MCCatalogues
    Kinds = {"event"}
    Windows = {0, 1}
    Lines = {"enter", "high", "adrift"}
    MaxTime = 5
    MaxCalls = 3
    LevelInterval = 1
    ForSeconds = 1
    ReuseInTick = FALSE
CONSTRAINT Bounds
INVARIANTS
    TypeOK
    
    NoInheritance
    ExpiryAnnounced
    SilenceNoticed
    AlertsAfterRecovery
CHECK_DEADLOCK FALSE
