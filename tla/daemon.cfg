CONSTANTS
    c1 = c1
    c2 = c2
    d1 = d1
    d2 = d2
    Clients = {c1, c2}
    Daemons = {d1, d2}
    Duties <- DutiesOfTwo
    MaxPings = 2
    None = None
SPECIFICATION Spec
INVARIANTS
    AnsweredRanOnce
    LoneDaemonReachable
PROPERTY EveryCommandEnds
CHECK_DEADLOCK FALSE
