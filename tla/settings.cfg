CONSTANTS
    None = None
    Malformed = Malformed
    Blank = Blank
    ParsedVersion <- Parsed
    Network <- NoNetwork
    BrotliInstalled = FALSE
    Importable <- Drivers
    Installation <- FromSettings
    MaxChanges = 2
SPECIFICATION Spec
INVARIANTS
    SettingsAreHonoured
CHECK_DEADLOCK FALSE
