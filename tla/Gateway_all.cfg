SPECIFICATION Spec
CONSTANTS
    h1 = h1
    h2 = h2
    h3 = h3
    p1 = p1
    p2 = p2
    Handles <- TwoHandles
    MaxSessions = 1
    UpperLimit = 1
    ValuesCap = 1
    Params <- TwoParams
    Devices = {"http", "coap"}
    Requests <- AllKinds
    FreedReads = {"intact"}
    Null = Null
    None = None
    MaxAdds = 3
    Cap = 3
    MaxBack = 1
    MaxForward = 1
INVARIANT CallbacksInv
PROPERTIES
    ImplementsStore
    Spaced
SYMMETRY HandlesAlike
CHECK_DEADLOCK FALSE
