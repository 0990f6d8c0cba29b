SPECIFICATION Spec
CONSTANTS
    loop = loop
    cron = cron
    w1 = w1
    w2 = w2
    w3 = w3
    Procs = {loop, cron}
    Calls = {w1, w2, w3}
    Owner <- MCOwner
    Initial = Initial
    Nothing = Nothing
    Inodes = {i1, i2, i3, i4}
    Chunks = 2
    Attempts = 2
    Overlap = TRUE
INVARIANTS
    NeverTorn
CHECK_DEADLOCK FALSE
