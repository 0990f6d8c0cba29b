SPECIFICATION FairSpec
CONSTANTS
    Levels = {0, 1}
    Errors = {e1, e2}
    NoError = NoError
    MaxActivity = 1
    Cooldown = 2
    Grace = 1
    MaxAge = 1
    MaxTime = 2
    SentryUntil = 0
    Faults = {"mock", "copy"}
INVARIANTS
    RecoveryWasTold
    RepeatedActivityWasUnseen
PROPERTIES
    EngineGrace
    EventuallyTold
CHECK_DEADLOCK FALSE
