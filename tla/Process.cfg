SPECIFICATION FairSpec
CONSTANTS
    health_task = health_task
    Names = {health_task}
    Jobs = {j1, j2}
    Goroutines = {g1}
    Callers = {c1}
    Requests = {r1}
    Configured <- MCConfigured
    Retries = 1
    None = None
INVARIANTS TypeOK NoGhosts OrderlyExit InFlightServed
PROPERTY ShutdownEnds
CHECK_DEADLOCK FALSE
