CONSTANTS
    r1 = r1
    r2 = r2
    r3 = r3
    c1 = c1
    c2 = c2
    Request = {r1, r2}
    Client = {c1}
    ClientOf <- SharedClient
    NRules = 4
    Algorithm <- AllAlgorithm
    Limit <- AllLimit
    Window <- AllWindow
    Capacity <- AllCapacity
    Second = 2
    PurgeInterval = 4
    MaxTime = 5
    MaxRefused = 1
SPECIFICATION Spec
INVARIANTS
    AdmittedWithinRate
PROPERTIES
    AnswersAreExact
    ImplementsMeter
CHECK_DEADLOCK FALSE
