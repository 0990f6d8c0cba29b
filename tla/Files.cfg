SPECIFICATION FilesSpec
CONSTANTS
    loop = loop
    cron = cron
    w1 = w1
    w2 = w2
    w3 = w3
    Procs = {loop, cron}
    Calls = {w1, w2, w3}
    Owner <- MCOwner
    Initial = Initial
    Nothing = Nothing
    Inodes = {i1, i2, i3, i4}
    Chunks = 2
    Attempts = 2
    Overlap = FALSE
    MaxLines = 3
    MaxNow = 3
    MaxFaults = 1
    Retention = 1
    MinKeep = 2
    MaxAge = 1
    Window = 1
INVARIANTS
    NeverTorn
    LeakIsTrue
PROPERTIES
    ImplementsRegister
    HistoryKept
    MirrorCatchesUp
CHECK_DEADLOCK FALSE
