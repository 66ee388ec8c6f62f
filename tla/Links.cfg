CONSTANTS
    BridgeIds = {i1, i2}
    MaxSessions = 2
    MaxDials = 2
    BridgeCalls = {b1, b2}
    SessionCalls = {s1, s2}
    PortalConcurrency = 1
    KChunks = {"a", "b"}
    KMaxChunks = 2
    KSendBuffer = 1
    KInFlight = 2
    KRecvWindow = 2
    KNetCap = 2
    HProcs = {p1, p2}
    HMaxConns = 3
    HPayload = 3
    BMin = 20
    BRates <- MCRates
    BLosses = 2
    Waiters = {w1, w2}
    Closers = {c1, c2}
    Starts = {1, 2}
    PIndexes = {0, 1, 3, 4, 5}
    PWorkers = 3
    LruKeys = {1, 2, 3}
    LruCap = 2
    LruMax = 4
    RaceAddrs = 4
    ObsTags = {o1, o2}
    ProbeMethods <- MCProbeMethods
    ReadCap = 2
    PingTags = {g1, g2}
    Sampling = 2
    Validity = 1
    LastTick = 3
    Relays = {l1, l2}
    StatNames = {n1, n2}
    MaxAdds = 2
    MaxIds = 3
    Emails = {e1, e2}
    OnlineIps = {a1, a2}
    OnlineTtl = 2
SPECIFICATION LinksSpec
CHECK_DEADLOCK FALSE
INVARIANTS
    BridgeForgetsNone
    OneLiveConnection
    HelpersSound
    MonitorExact

    
    
