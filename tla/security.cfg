CONSTANTS
    k1 = k1
    k2 = k2
    k3 = k3
    t1 = t1
    t2 = t2
    admin = admin
    guest = guest
    read = read
    r1 = r1
    r2 = r2
    None = None
    Request = {r1, r2}
    Kid = {k1, k2, k3}
    Tenant = {t1, t2}
    Role = {admin, guest}
    Permission = {read}
    Credential <- Credentials
    Configured <- AzureAndLdap
    MultiTenant = TRUE
    Home = t1
    Allowed <- OneTenant
    Grants <- AdminReads
    Need <- NeedsAdmin
    AccessTTL = 1
    RefreshTTL = 2
    Skew = 2
    KeyTTL = {2}
    MaxPairs = 3
    MaxKeys = 2
    MaxTime = 3
SYMMETRY Requests
SPECIFICATION MCSpec
INVARIANTS
    WithdrawnIsRefused
    ExchangedOnce
    PublishedKeyAccepted
    CalledByTheEntitled
PROPERTIES
    DeadKeysStayDead
    PurgedKeysStayRefused
CHECK_DEADLOCK FALSE
