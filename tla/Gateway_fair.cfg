SPECIFICATION FairSpec
CONSTANTS
    h1 = h1
    h2 = h2
    h3 = h3
    p1 = p1
    p2 = p2
    Handles <- ThreeHandles
    MaxSessions = 2
    UpperLimit = 2
    ValuesCap = 1
    Params <- TwoParams
    Devices = {"http"}
    Requests <- AddUpdateRemove
    FreedReads = {"intact", "garbage"}
    Null = Null
    None = None
    MaxAdds = 2
    Cap = 2
    MaxBack = 0
    MaxForward = 0
INVARIANTS
    CollectedUnderParam
    Survives
PROPERTIES
    Pruned
    RequestsFinish
    ObservedEventually
CHECK_DEADLOCK FALSE
