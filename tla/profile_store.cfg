CONSTANTS
    None = None
    a = a
    b = b
    c = c
    w1 = w1
    w2 = w2
    Names = {a, b, c}
    Writers = {w1, w2}
    Starts <- SomeStarts
    Samples <- SomeSamples
    Edits <- SomeEdits
    Requests <- SomeRequests
    MaxFaults = 2
SPECIFICATION Spec
INVARIANTS GatewayFilesLoad DoneIsDurable OverwritesWhatItRead AcceptsSound
CHECK_DEADLOCK FALSE
