----------------------------- MODULE RbacTables -----------------------------
(***************************************************************************)
(* The four tables of the iam module and the queries over them: which      *)
(* roles a user has, which permissions a role has, and the permission      *)
(* forest through which a grant reaches the children of a permission.      *)
(* A column the properties cannot tell apart (names, status, timestamps)   *)
(* is left out.  "key" is the row's method:path; None stands for an empty  *)
(* method or path, for parent_id = 0 and for an absent id.                 *)
(***************************************************************************)
CONSTANTS Users, Roles, Perms, Keys, None

VARIABLES
    userRoles,  \* user_role: pairs <<user, role>>; nothing checks that the role exists
    roles,      \* role: the ids present
    rolePerms,  \* role_permission: pairs <<role, permission>>
    perms,      \* permission: id -> row, for the ids present
    retired     \* ids of deleted rows: auto-increment never hands them out again

tables == <<userRoles, roles, rolePerms, perms, retired>>

Row == [parent : Perms \cup {None}, key : Keys \cup {None}]

TablesTypeOK ==
    /\ userRoles \subseteq Users \X Roles
    /\ roles \subseteq Roles
    /\ rolePerms \subseteq Roles \X Perms
    /\ DOMAIN perms \subseteq Perms
    /\ perms \in [DOMAIN perms -> Row]
    /\ retired \subseteq Roles \cup Perms

-----------------------------------------------------------------------------
(* Queries: each is one SQL statement.                                     *)

RoleIdsOf(u) == {r \in Roles : <<u, r>> \in userRoles}

PermIdsOf(r) == {p \in Perms : <<r, p>> \in rolePerms}

\* What a query of the permission table returns for the ids that exist.
RowsOf(ids) == {[id |-> p, key |-> perms[p].key] : p \in ids \cap DOMAIN perms}

IdsOf(rows) == {x.id : x \in rows}

ChildrenOf(ids) == {p \in DOMAIN perms : perms[p].parent \in ids}

\* The recursive CTE: the ids that exist and everything below them, that is,
\* the least set of permissions that holds them and all its own children.
TreeOf(ids) ==
    {p \in DOMAIN perms :
        \A S \in SUBSET DOMAIN perms :
            (ids \cap DOMAIN perms) \cup ChildrenOf(S) \subseteq S => p \in S}

\* UNION ALL keeps every level, so a permission below itself never runs dry and
\* the server aborts the statement.
TreeHasCycle(ids) == \E p \in TreeOf(ids) : p \in TreeOf(ChildrenOf({p}))

\* Mutant of KeysOf: rows without a method or a path are not skipped.
EveryKeyOf(rows) == {x.key : x \in rows}

\* The method:path pairs of the rows that have both.
KeysOf(rows) == {x.key : x \in rows} \ {None}

\* Permissions given to a user through one of the roles that still exist.
DirectPerms(u) == UNION {PermIdsOf(r) : r \in RoleIdsOf(u) \cap roles}

\* What the tables entitle a user to now: the reference the cache is compared with.
Effective(u) == KeysOf(RowsOf(TreeOf(DirectPerms(u))))

-----------------------------------------------------------------------------
(* Transactions and single statements, as changes of the tables.           *)

\* The incremental assignment computes its two lists from the rows it read before
\* the transaction; a row it wants to add and that exists by now breaks the
\* unique index and rolls the transaction back.
DiffConflicts(current, seen, want) == (want \ seen) \cap current # {}

\* Mutant of DiffApplied: the two lists are swapped.
DiffSwapped(current, seen, want) == (current \ (want \ seen)) \cup (seen \ want)

DiffApplied(current, seen, want) == (current \ (seen \ want)) \cup (want \ seen)

AssignUserRolesTx(u, seen, want) ==
    /\ ~ DiffConflicts(RoleIdsOf(u), seen, want)
    /\ userRoles' = {x \in userRoles : x[1] # u}
                        \cup {<<u, r>> : r \in DiffApplied(RoleIdsOf(u), seen, want)}
    /\ UNCHANGED <<roles, rolePerms, perms, retired>>

AssignRolePermissionsTx(r, seen, want) ==
    /\ ~ DiffConflicts(PermIdsOf(r), seen, want)
    /\ rolePerms' = {x \in rolePerms : x[1] # r}
                        \cup {<<r, p>> : p \in DiffApplied(PermIdsOf(r), seen, want)}
    /\ UNCHANGED <<userRoles, roles, perms, retired>>

\* Insert the role and its permissions in one transaction, under a fresh id.
CreateRoleTx(r, want) ==
    /\ r \notin roles \cup retired
    /\ roles' = roles \cup {r}
    /\ rolePerms' = rolePerms \cup ({r} \X want)
    /\ UNCHANGED <<userRoles, perms, retired>>

\* Delete the role and its permission links; user_role rows keep pointing at it.
DeleteRoleTx(r) ==
    /\ roles' = roles \ {r}
    /\ rolePerms' = {x \in rolePerms : x[1] # r}
    /\ retired' = retired \cup {r}
    /\ UNCHANGED <<userRoles, perms>>

\* One INSERT of one or several rows, under fresh ids.
InsertPermissions(new) ==
    /\ DOMAIN new \cap (DOMAIN perms \cup retired) = {}
    /\ perms' = [p \in DOMAIN perms \cup DOMAIN new |->
                    IF p \in DOMAIN new THEN new[p] ELSE perms[p]]
    /\ UNCHANGED <<userRoles, roles, rolePerms, retired>>

\* UPDATE of the non-zero columns only; a row deleted meanwhile is not an error.
UpdatePermissionRow(p, row) ==
    /\ perms' = [x \in DOMAIN perms |->
                    IF x # p THEN perms[x]
                    ELSE [parent |-> IF row.parent = None THEN perms[x].parent ELSE row.parent,
                          key    |-> IF row.key = None THEN perms[x].key ELSE row.key]]
    /\ UNCHANGED <<userRoles, roles, rolePerms, retired>>

\* DELETE ... WHERE id IN (ids); role_permission rows keep pointing at them.
DeletePermissionRows(ids) ==
    /\ perms' = [x \in DOMAIN perms \ ids |-> perms[x]]
    /\ retired' = retired \cup (ids \cap DOMAIN perms)
    /\ UNCHANGED <<userRoles, roles, rolePerms>>
=============================================================================
