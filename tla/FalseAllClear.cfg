SPECIFICATION DecisionSpec
CONSTANTS
    MaxFaces = 2
    MaxOpens = 3
    Least = 1
    Most = 4
    Budget = 2
INVARIANTS
    NoFalseAllClear
CHECK_DEADLOCK FALSE
