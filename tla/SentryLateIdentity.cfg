SPECIFICATION Spec
CONSTANTS
    alice = alice
    mallory = mallory
    Persons = {alice, mallory}
    Enrolled = {alice}
    Opens = {1}
    LogLimit = 50
    Settings <- LateSettings
INVARIANTS
    IdentityOfTheVisit
