SPECIFICATION Spec
CONSTANTS
    h1 = h1
    h2 = h2
    h3 = h3
    p1 = p1
    p2 = p2
    Handles <- ThreeHandles
    MaxSessions = 2
    UpperLimit = 2
    ValuesCap = 1
    Params <- TwoParams
    Devices = {"http"}
    Requests <- AddRemove
    FreedReads = {"intact"}
    Null = Null
    None = None
    MaxAdds = 3
    Cap = 2
    MaxBack = 0
    MaxForward = 0
INVARIANT NeverTerminates
CHECK_DEADLOCK FALSE
