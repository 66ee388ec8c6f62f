CONSTANTS
    FakeClients = {f1, f2}
    Names <- MCNames
    Lower <- MCLower
    CounterSize = 4
    PoolCount = 3
    BlockSize = 2
    MaxAllocs = 6
    None = None
    Tasks = {t1, t2}
    Spellings <- MCSpellings
    Normal <- MCNormal
    Configs <- MCDnsConfigs
    Ips = {"4x", "6x"}
    Ttl = 2
    MaxTime = 2
    NoTarget = NoTarget
    Setups <- MCSetups
    UpLen = 2
    DownLen = 2
    Base = 8
    V4Len = 2
    V6Len = 3
    FSettings <- MCFSettings
    FReads <- MCFReads
    TLoops = 2
    TPackets <- MCTPackets
    TNoPacket = TNoPacket
    BuildConfigs <- MCBuildConfigs
    GeoIp <- MCGeoIp
    GeoSite <- MCGeoSite
    MaxPort = 99
    SniffFlights <- MCFlights
    SniffReads <- MCSniffReads
    Fallbacks <- MCFallbacks
SPECIFICATION ServicesSpec
CHECK_DEADLOCK FALSE
INVARIANTS
    AnswersReversible
    RightServerAnswers
    CacheServesFresh
    TargetAgreed
    RelaysIntact
    
    
    FragmentsReassemble
    TunSound
    FirstReadUnderstood
    BuiltPairsAgree
PROPERTIES
    
    HandshakeSettles
