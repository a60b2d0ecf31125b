\* Four words, so three callbacks at most: the table fills up, and slots are
\* freed and taken again out of order.
SPECIFICATION FairSpec
CONSTANTS
    UpperLimit = 3
    c1 = c1
    c2 = c2
    Callbacks <- MCCallbacks
    Null = Null
INVARIANTS
    ArrayInv
PROPERTIES
    ImplementsTable
    EmitInvokesUnlessJoined
    EmissionEnds
