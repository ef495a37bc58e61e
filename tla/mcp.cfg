CONSTANTS
    None = None
    Mark = Mark
    r1 = r1
    r2 = r2
    k1 = k1
    k2 = k2
    main = main
    other = other
    alice = alice
    Requests = {r1, r2}
    Servers <- TwoServers
    Kids = {k1, k2}
    Paths = {main, other}
    FirstKeys <- OneKey
    FirstFiles <- BothFiles
    Ttl = 1
    MaxTime = 2
    MaxChanges = 2
    Consultations <- SomeConsultations
    DenyRules <- SomeDenyRules
    Disclosures <- SomeDisclosures
    Contents <- SomeContents
    Limits = {0, 1, 2, 5}
    MAX_READ_BYTES = 3
SYMMETRY RequestSymmetry
SPECIFICATION Spec
INVARIANTS KeyRecent PublishedKeyFound CallsStayApart
    RulesMatchAsWritten RootsConfine DenyRulesNarrow
    SecretsHidden PagesReassemble
PROPERTY ManagedWhileEnabled
CHECK_DEADLOCK FALSE
