SPECIFICATION MCSpec
CONSTANTS
    u1 = u1
    r1 = r1
    p1 = p1
    k1 = k1
    None = None
    Users = {u1}
    Roles = {r1, r2}
    Perms = {p1, p2}
    Keys = {k1}
    Requests = {q1}
    Admins = {a1}
    Handlers = {"SaveUser"}
    TTL = 1
    MaxJobs = 2
INVARIANT ChangesAreVisible
CHECK_DEADLOCK FALSE
