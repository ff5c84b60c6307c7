SPECIFICATION Spec
CONSTANTS
    Threads = {t1, t2}
    Keys = {k1, k2}
    Vals = {v1, v2}
    TTLs <- TimesToLive
    DefaultTTL = 1
    Missing = Missing
INVARIANT TypeOK
PROPERTY ImplementsLossyMap
CHECK_DEADLOCK FALSE
