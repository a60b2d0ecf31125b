SPECIFICATION Spec
CONSTANTS
    MaxSessions = 2
    MaxInt = 8
    Requests <- MCRequests
    None = None
INVARIANTS
    StoreInv
PROPERTIES
    TrueAnswers
    DroppedForCause
