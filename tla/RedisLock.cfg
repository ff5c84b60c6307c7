SPECIFICATION FairLockSpec
CONSTANTS
    Calls = {c1, c2}
    TTL = 2
    MaxRetries = 1
    Resends = 1
    Nobody = Nobody
INVARIANTS LockTypeOK LeaseHonoured MutualExclusion
PROPERTIES LockReturns OrphansExpire
CHECK_DEADLOCK FALSE
