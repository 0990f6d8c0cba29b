SPECIFICATION Spec
CONSTANTS
    mallory = mallory
    Persons = {mallory}
    Enrolled = {}
    Opens = {1}
    LogLimit = 50
    Settings <- VisitSettings
INVARIANTS
    IdentityOfTheVisit
    NoInheritedApproval
