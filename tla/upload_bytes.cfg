SPECIFICATION Spec
CONSTANTS
    exec = exec
    read = read
    upload = upload
    mutation = mutation
    web = web
    restart = restart
    write = write
    t1 = t1
    t2 = t2
    n1 = n1
    n2 = n2
    a1 = a1
    a2 = a2
    v1 = v1
    v2 = v2
    None = None
    Profiles = {web}
    ProfileOf <- OneProfile
    Rules = {restart, write}
    Contents = {v1, v2}
    ApprovalTtl = 2
    GrantMaxTtl = 2
    TaskGrantRisks = {"low", "medium", "high"}
    TimeGrantRisks = {"low", "medium"}
    PlanTtl = 2
    Lease <- UnitLease
    Requests = {upload, mutation}
    Uploads = {upload}
    Mutations = {mutation}
    Tasks = {}
    Namespaces = {n1}
    Agents = {a1}
    Humans = {h1, h2}
    ApprovalIds = {p1}
    GrantIds = {}
    PlanIds = {}
    Policies <- ConfirmOrDeny
    WantedGrants = {}
    PlanShapes = {}
    MaxTime = 3
SYMMETRY ApprovalSymmetry
INVARIANT UploadSendsApprovedBytes
