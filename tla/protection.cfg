CONSTANTS
    r1 = r1
    r2 = r2
    r3 = r3
    other = other
    p1 = p1
    p2 = p2
    k1 = k1
    k2 = k2
    f1 = f1
    f2 = f2
    Request = {r1, r2, r3, other}
    KeyOf <- TwoKeys
    FingerprintOf <- Bodies
    Replica = {p1, p2}
    Backed = {p2}
    TTL = 1
    PurgeInterval = 2
    Restarts = {p2}
    MaxTime = 1
    None = None
    Malformed = Malformed
    Blank = Blank
    proxy1 = proxy1
    proxy2 = proxy2
    client1 = client1
    client2 = client2
    junk = junk
    ParsedVersion <- Parsed
    Network <- Networks
    BrotliInstalled = TRUE
    Address = {proxy1, proxy2, client1, client2, junk}
    Deployment <- Deployments
    Traffic <- Requests
    Page <- Pages
SPECIFICATION MCSpec
INVARIANTS
    AnswersAreJustified
    BuiltAsAssumed
    ClientIsVouchedFor
    NegotiatedAsAsked
    GrantsStayWithTheirOrigin
PROPERTIES
    AnsweredKeyNotExecuted
CHECK_DEADLOCK FALSE
