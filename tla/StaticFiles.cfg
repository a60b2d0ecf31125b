SPECIFICATION FairSpec
CONSTANTS
    empty = empty
    even = even
    odd = odd
    Conns = {1, 2}
    Files = {empty, even, odd}
    Full <- MCFull
    Rest <- MCRest
    Threads = 1
    MaxRequests = 2
    None = None
INVARIANTS
    ReceivesItsFiles
    BuffersInv
PROPERTIES
    Ends
CHECK_DEADLOCK FALSE
