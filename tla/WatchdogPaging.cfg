SPECIFICATION Spec
CONSTANTS
    Levels = {0, 1, 2}
    Errors = {}
    NoError = NoError
    MaxActivity = 0
    Cooldown = 2
    Grace = 2
    MaxAge = 1
    MaxTime = 3
    SentryUntil = 1
    Faults = {"mock", "send", "crash", "write"}
INVARIANTS
    TypeOK
    HeldPageStillOwed
    HoldEndsOnEscalation
PROPERTIES
    HoldIsFaithful
    RepeatPagesSpaced
