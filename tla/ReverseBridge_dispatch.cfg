CONSTANTS
    BridgeIds = {i1}
    MaxSessions = 2
    MaxDials = 1
SPECIFICATION BridgeFairSpec
CHECK_DEADLOCK FALSE
PROPERTIES
    EverySessionDispatched
