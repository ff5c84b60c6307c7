SPECIFICATION MCFairSpec
CONSTANTS
    u1 = u1
    r1 = r1
    p1 = p1
    k1 = k1
    None = None
    Users = {u1}
    Roles = {r1, r2}
    Perms = {p1, p2}
    Keys = {k1}
    Requests = {q1}
    Admins = {a1, a2}
    Handlers = {"UserAssignRoles", "SaveUser", "UpdateRole", "CreateRole", "DeleteRole", "CreatePermission", "UpdatePermission", "DeletePermission"}
    TTL = 2
    MaxJobs = 2
INVARIANTS TypeOK CachedExact LoadedExact
PROPERTIES AssignmentAccountsForRows CacheConverges
CHECK_DEADLOCK FALSE
