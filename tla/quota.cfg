CONSTANTS
    r1 = r1
    r2 = r2
    r3 = r3
    t1 = t1
    t2 = t2
    s1 = s1
    s2 = s2
    w1 = w1
    k1 = k1
    NoKey = NoKey
    Request = {r1, r2, r3}
    Tenant = {t1, t2}
    TenantOf <- TwoTenants
    Bytes <- BytesMap
    NRules = 4
    Kind <- DefaultKind
    Limit <- DefaultLimit
    Window <- DefaultWindow
    PurgeInterval = 5
    Resets = {t2}
    MaxTime = 3
    Sender = {s1, s2}
    Worker = {w1}
    Traffic <- Requested
    IdempotencyKey = {k1}
    Installed <- Stages
    ValidateResponses = TRUE
    MaxSlots = 1
    Raising <- Events
SPECIFICATION MCSpec
SYMMETRY Alike
INVARIANTS
    AdmittedWithinQuota
    NoPhantomRequests
    ConcurrencyLimitBeforeExpiry
    SlotsAreHeld
    AuditedAsAnswered
CHECK_DEADLOCK FALSE
