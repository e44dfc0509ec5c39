CONSTANTS
    ai = ai
    security = security
    database = database
    cache = cache
    c1 = c1
    c2 = c2
    Name = {ai, security, database, cache}
    Placeholder = {ai}
    Modules = 3
    Given = 2
    Id <- DistinctIds
    Deps <- TreeDeps
    Capability = {c1, c2}
    Provides <- ClashingCapabilities
    Closes <- CloseStages
    Steps = 2
    Faulty <- ButInitialize
    MaxStarts = 2
SPECIFICATION Spec
INVARIANTS
    ServingIsComplete
    EndHoldsNothing
PROPERTIES
    ReleasedInReverse
    LifespanSettles
CHECK_DEADLOCK FALSE
