SPECIFICATION Spec
CONSTANTS
    r1 = r1
    r2 = r2
    c1 = c1
    c2 = c2
    c3 = c3
    Requests <- TwoRequests
    Conns <- ThreeConns
    FramingsOf <- OneOfAll
    Limit = 1
    Tls = FALSE
    Proxy = FALSE
    Timeout = TRUE
    ConnectTimeout = FALSE
    Concurrent = TRUE
    None = None
INVARIANTS
    Exclusive
    AnsweredWhole
    CalledOnce
    PoolInv
    FailsForCause
PROPERTIES
    SentSparingly
SYMMETRY Symmetry
CHECK_DEADLOCK FALSE
