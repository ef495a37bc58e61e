SPECIFICATION FairSpec
CONSTANTS
    root = root
    inner = inner
    leaf = leaf
    d1 = d1
    d2 = d2
    n1 = n1
    n2 = n2
    w1 = w1
    w2 = w2
    w3 = w3
    admin = admin
    operator = operator
    maintenance = maintenance
    None = None
    Via <- Chain
    Files <- EveryProfile
    Namespaces = {n1}
    NamespaceOf <- OneNamespace
    Profiles = {root, inner}
    Definitions = {d1}
    TunnelIds = {t1}
    MaxSessions = 2
    Workers = {w1, admin, maintenance}
    Guarded = {w1}
    Droppable = {w1}
    Duties <- LockDuties
    MaxDrops = 1
PROPERTIES ReapSparesUsers EveryRequestAnswered IdleSessionsReaped
