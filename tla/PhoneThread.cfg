SPECIFICATION ThreadSpec
CONSTANTS
    Faults = {"crash"}
    Credentials = {TRUE, FALSE}
    MaxClock = 3
    MaxPages = 3
    MaxBubbles = 4
    Batch = 2
    Backfill = 1
    History = 2
    MaxRows = 4
    MaxSent = 4
    Backlog = 2
    Bot = "shared"
INVARIANTS
    PanelIsTrue
    IntakeIsWhole
PROPERTIES
    AlertConfirmed
    EverythingShown
CHECK_DEADLOCK FALSE
