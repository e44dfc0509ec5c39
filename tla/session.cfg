CONSTANTS
    a = a
    b = b
    c1 = c1
    c2 = c2
    c3 = c3
    Call = {c1, c2}
    User = {a}
    Nobody = Nobody
    Persistent = TRUE
    MaxPairs = 3
    MaxReloads = 1
SPECIFICATION Spec
INVARIANTS
    HeldPairIsUsable
PROPERTIES
    RotatedTokenNotResent
    SessionSettles
CHECK_DEADLOCK FALSE
