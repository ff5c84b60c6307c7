------------------------ MODULE MCPermissionChecker ------------------------
(* A small installation: one role with one permission, held by one user.   *)
EXTENDS PermissionChecker, TLC

CONSTANTS u1, r1, p1, k1

MCInit ==
    /\ userRoles = {<<u1, r1>>}
    /\ roles = {r1}
    /\ rolePerms = {<<r1, p1>>}
    /\ perms = p1 :> [parent |-> None, key |-> k1]
    /\ retired = {}
    /\ Init

MCSpec == MCInit /\ [][Next]_vars

MCFairSpec == MCSpec /\ Fairness
=============================================================================
