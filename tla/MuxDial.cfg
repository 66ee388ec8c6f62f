CONSTANTS
    Dialers = {d1, d2, d3}
    DialConcurrency = 2
    MaxClients = 3
    MaxLateGets = 3
SPECIFICATION DialSpec
SYMMETRY Symmetry
INVARIANTS
    ClientsRunOut
