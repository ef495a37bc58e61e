CONSTANTS
    None = None
    Link = Link
    Exit = Exit
    Failure = Failure
    i1 = i1
    i2 = i2
    server = server
    k1 = k1
    k2 = k2
    Names = {server}
    Keys = {k1, k2}
    Answers <- SomeAnswers
    Profiles <- SomeProfiles
    Invocations = {i1, i2}
    Jobs <- AllJobs
    MaxChanges = 2
SYMMETRY InvocationSymmetry
SPECIFICATION Spec
INVARIANTS ConnectsAsConfigured PolicyConfined ReportedWritesWhole
CHECK_DEADLOCK FALSE
