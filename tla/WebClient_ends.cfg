SPECIFICATION FairSpec
CONSTANTS
    r1 = r1
    r2 = r2
    c1 = c1
    c2 = c2
    c3 = c3
    Requests <- OneRequest
    Conns <- TwoConns
    FramingsOf <- Answered
    Limit = 1
    Tls = TRUE
    Proxy = TRUE
    Timeout = TRUE
    ConnectTimeout = TRUE
    Concurrent = FALSE
    None = None
PROPERTIES
    RequestEnds
CHECK_DEADLOCK FALSE
