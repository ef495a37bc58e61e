SPECIFICATION Spec
CONSTANTS
    root = root
    inner = inner
    leaf = leaf
    d1 = d1
    d2 = d2
    n1 = n1
    n2 = n2
    w1 = w1
    w2 = w2
    w3 = w3
    admin = admin
    operator = operator
    maintenance = maintenance
    None = None
    Via <- Chain
    Files <- EveryProfile
    Namespaces = {n1, n2}
    NamespaceOf <- TwoNamespaces
    Profiles = {root, inner}
    Definitions = {d1}
    TunnelIds = {}
    MaxSessions = 3
    Workers = {w1, w2, w3}
    Guarded = {}
    Droppable = {w1}
    Duties <- SessionDuties
    MaxDrops = 1
INVARIANTS IndexMatches ActiveCounts NamespacesApart
