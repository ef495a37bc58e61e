SPECIFICATION Spec
CONSTANTS
    root = root
    inner = inner
    leaf = leaf
    d1 = d1
    d2 = d2
    n1 = n1
    n2 = n2
    w1 = w1
    w2 = w2
    w3 = w3
    admin = admin
    operator = operator
    maintenance = maintenance
    None = None
    Via <- Chain
    Files <- WithoutLeaf
    Namespaces = {n1}
    NamespaceOf <- OneNamespace
    Profiles = {root, inner, leaf}
    Definitions = {d1, d2}
    TunnelIds = {}
    MaxSessions = 2
    Workers = {w1, w2, admin, operator}
    Guarded = {w1}
    Droppable = {}
    Duties <- MutationDuties
    MaxDrops = 0
INVARIANTS SessionsCurrent ConfigLoads
