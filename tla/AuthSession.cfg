SPECIFICATION Spec
CONSTANTS
    Nodes = {n1, n2}
    Jtis = {j1, j2, j3, j4}
    Requests = {q1}
    Logouts = {l1, l2}
    AccessTTL = 1
    RefreshTTL = 2
    None = None
SYMMETRY Ids
INVARIANT LogoutHolds
PROPERTY ImplementsRevocationList
CHECK_DEADLOCK FALSE
