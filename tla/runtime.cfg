CONSTANTS
    t1 = t1
    t2 = t2
    a = a
    b = b
    m = m
    c = c
    s1 = s1
    s2 = s2
    p = p
    flag = flag
    h1 = h1
    h2 = h2
    Thread = {t1, t2}
    Contract = {a, b}
    Registrable <- Providers
    MaxChanges = 3
    MaxBuilt = 4
    MaxDepth = 3
    Module = {m}
    Capability = {c}
    Service = {s1, s2}
    Plugin = {p}
    Feature = {flag}
    Provides <- TwoServices
    Handler = {h1, h2}
    Watched <- ModulesOn
    HistoryLimit = 2
    MaxEvents = 3
    MaxSubscribed = 3
    ModuleId = {1, 2, 3}
    Catalogues <- Manifests
    NoPin = 0
SYMMETRY Alike
SPECIFICATION MCSpec
INVARIANTS
    HandlersHeardOnce
    HistoryTellsState
    LoadedPluginsAreWhole
    ResolvingIsBalanced
    OneInstance
    ScopedStaysInScope
    CataloguesAreResolved
CHECK_DEADLOCK FALSE
