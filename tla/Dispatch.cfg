SPECIFICATION DispatchSpec
CONSTANTS
    Conns = {c1, c2, c3}
    Sessions <- MCSessions
    Tags = {"x", "y"}
    Confs <- MCConfs
    Addresses = {"ip1", "ip2"}
    NoneSuch = NoneSuch
    MaxChanges = 1
    MaxProbes = 1
    MaxDepth = 1
INVARIANTS RoutingDecides DeadOutboundAvoided RoundRobinEven
CHECK_DEADLOCK FALSE
SYMMETRY MCSymmetry
