CONSTANTS
    BridgeIds = {i1}
    MaxSessions = 1
    MaxDials = 2
SPECIFICATION BridgeFairSpec
CHECK_DEADLOCK FALSE
PROPERTIES
    BridgeReconnects
