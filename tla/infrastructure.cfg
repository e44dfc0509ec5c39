CONSTANTS
    x1 = x1
    x2 = x2
    x3 = x3
    row1 = row1
    row2 = row2
    NoValue = NoValue
    Malformed = Malformed
    Blank = Blank
    Request = {x1, x2, x3}
    Limit = 2
    Window = 2
    MaxTime = 4
    MaxCount = 4
    MaxLost = 1
    Unit = {x1, x2, x3}
    Row = {row1, row2}
    Work <- Works
    Status = {200, 404, 503}
    MaxSpans = 4
    ParsedVersion <- OneVersion
    Network <- NoNetwork
    BrotliInstalled = FALSE
    Importable <- Drivers
    Installation <- TheInstallations
    MaxChanges = 2
SYMMETRY Alike
SPECIFICATION MCSpec
INVARIANTS
    InTurnsItCountsRight
    LeaksExpire
    UnitsAreWhole
    TracesAreWhole
    ModulesCompose
PROPERTIES
    DeletedStaysDeleted
CHECK_DEADLOCK FALSE
