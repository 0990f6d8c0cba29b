SPECIFICATION HooksSpec
CONSTANTS
    Questions = {q1, q2}
    None = None
    Failure = Failure
    Timeouts = {5, 90}
    MaxPlugs = 1
    Turns = {t1, t2}
    Earlier = {e1}
    MaxItems = 2
    Supervisors = {s1, s2}
    MaxTrouble = 3
INVARIANTS
    PhoneIsOwned
    LateNotLost
PROPERTIES
    EveryoneIsTold
    ServerReturns
CHECK_DEADLOCK FALSE
