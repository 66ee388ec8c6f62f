CONSTANTS
    Sessions = {s1, s2}
    MaxWrites = 2
    MaxChunks = 2
    ChunkLen = 2
    BufLens = {1, 3}
    StKinds = {"ws", "grpc", "quic", "httpupgrade", "h2"}
    StMaxBytes = 4
    StMaxMsg = 2
    StGrpcCap = 1
    StH2Window = 3
    MainConfigs <- MCMainConfigs
    ApiConfigs <- MCApiConfigs
    ApiCalls = {r1, r2}
    MaxTasks = 3
    ConnConfigs <- MCConnConfigs
    MaxConns = 2
    MaxSent = 2
    BufSize = 4
    BufBytes = 7
    ChunkSizes = {1, 2, 3, 6}
    BufChunks = 3
    BufReads = 6
    Overhead = 1
    JsonBytes = {"dq", "#", "/", "*", "nl"}
    JsonLen = 6
    JsonRooms = {1, 3}
    CfgTags = {"", "x", "y"}
    CfgFiles = 3
    UClients = {c1, c2}
    UTargets = {u1, u2}
    UMax = 2
    UDnsServer = UDnsServer
    UNobody = UNobody
    WireNames <- MCWireNames
    WireAsks <- MCWireAsks
    WireTtls = {60, 1000}
    WireMaxAnswers = 2
SPECIFICATION StreamsSpec
SYMMETRY Symmetry
CHECK_DEADLOCK FALSE
INVARIANTS
    SessionStreamIntact
    TransportInOrder
    ListenerIsRegistered
    SniffLosesNothing
    
    DnsWireExact
    BuffersKeepBytes
    ConfigTextExact
