CONSTANTS
    None = None
    Malformed = Malformed
    Blank = Blank
    ParsedVersion <- Parsed
    Network <- NoNetwork
    BrotliInstalled = FALSE
    Importable <- Drivers
    Installation <- OneDatabase
    MaxChanges = 2
SPECIFICATION Spec
INVARIANTS
    PlaceholdersGiveWay
CHECK_DEADLOCK FALSE
