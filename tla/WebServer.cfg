SPECIFICATION FairSpec
CONSTANTS
    k1 = k1
    k2 = k2
    Conns = {k1, k2}
    Requests <- MCRequests
    MaxRequests <- MCMaxRequests
    None = None
INVARIANTS
    ConnectionsInv
    ServedWhole
PROPERTIES
    DroppedForCause
    WaitsEnd
CHECK_DEADLOCK FALSE
