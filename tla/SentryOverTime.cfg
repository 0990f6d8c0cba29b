SPECIFICATION LongSpec
CONSTANTS
    alice = alice
    Persons = {alice}
    Enrolled = {alice}
    Opens = {1}
    LogLimit = 2
    Settings <- LongSettings
INVARIANTS
    DecisionDurable
    PresentIsNotFiled
PROPERTIES
    AuditOnlyGrows
    SilenceInTheEnd
