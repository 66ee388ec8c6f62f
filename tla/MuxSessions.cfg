CONSTANTS
    Callers = {c1, c2}
    W = 2
    Strategies <- MCStrategies
    MaxOpens = 5
SPECIFICATION FairSpec
CHECK_DEADLOCK FALSE
INVARIANTS
    ConcurrencyBound
    ConnectionBound
    LateOpensBounded
PROPERTIES
    OverwriteNeedsWrap
    EndRemovesWhatItClosed
    IdleCloseSound
    IdleEventuallyClosed
