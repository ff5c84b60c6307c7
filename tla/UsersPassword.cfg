SPECIFICATION Spec
CONSTANTS
    u1 = u1
    root = root
    secret = secret
    None = None
    Guest = Guest
    Ids = {u1, u2}
    Names = {root, clerk}
    Passwords = {secret, other}
    Roles = {1, 2}
    RoleSets = {{}, {1}, {2}}
    Present = {1}
    Calls = {c1, c2}
    Initial <- MCInitial
    InitialRoles <- MCInitialRoles
SYMMETRY AnyOrder
INVARIANT PasswordsStayUntilChanged
CHECK_DEADLOCK FALSE
