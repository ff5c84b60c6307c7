------------------------- MODULE PermissionChecker -------------------------
(***************************************************************************)
(* The authorisation hot path and the handlers that change what it         *)
(* decides.  HasPermission answers from a per-user cache; on a miss it     *)
(* runs a series of separate queries and caches the outcome.  The admin    *)
(* handlers commit a change first and invalidate the cache afterwards, and *)
(* return without invalidating when any step fails.                        *)
(*                                                                         *)
(* A request is one call of HasPermission, a job one call of an admin      *)
(* handler.  Every query, transaction and critical section of the cache is *)
(* a step of its own, so that jobs and requests interleave between them.   *)
(* tainted, owed and excused are history variables: no guard reads them.   *)
(***************************************************************************)
EXTENDS RbacTables, MemoryMap

CONSTANTS
    Requests,   \* concurrent calls of HasPermission
    Admins,     \* concurrent admin calls
    Handlers,   \* the admin handlers of this instance, a subset of AllHandlers
    TTL,        \* time to live of a cache entry, in ticks
    MaxJobs     \* bound: how many admin calls are made

AllHandlers == {"UserAssignRoles", "SaveUser", "UpdateRole", "CreateRole",
                "DeleteRole", "CreatePermission", "UpdatePermission", "DeletePermission"}

ASSUME TTLAssumption == TTL \in Nat \ {0}
ASSUME MaxJobsAssumption == MaxJobs \in Nat
ASSUME HandlersAssumption == Handlers \subseteq AllHandlers
ASSUME NoneAssumption == None \notin Users \cup Roles \cup Perms \cup Keys

VARIABLES
    cache,      \* the MemoryMap of InMemoryCache: user -> keys the user may call
    req,        \* progress of each request
    job,        \* progress of each admin call
    jobs,       \* admin calls made so far
    tainted,    \* requests whose loading overlapped a commit that concerns their user
    owed,       \* admin -> users whose entry its commits have outdated and it has yet to drop
    excused     \* users whose entry may lag behind the tables: loaded by a tainted
                \* request, or outdated by a call that returned without invalidating

vars == <<userRoles, roles, rolePerms, perms, retired,
          cache, req, job, jobs, tainted, owed, excused>>

-----------------------------------------------------------------------------
RowSet == [id : Perms, key : Keys \cup {None}]

Loading == {"userRoles", "roles", "rolePerms", "permRows", "tree", "store"}

IdleRequest == [pc |-> "idle", user |-> None, ids |-> {}, todo |-> {}, got |-> {}]

Request == [pc : {"idle", "reap"} \cup Loading, user : Users \cup {None},
            ids : SUBSET (Roles \cup Perms), todo : SUBSET Roles, got : SUBSET RowSet]

NoRow == [parent |-> None, key |-> None]

IdleJob == [pc |-> "idle", op |-> "none", target |-> None, want |-> {}, seen |-> {},
            row |-> NoRow, failed |-> FALSE]

JobSteps == {"readRoles", "assignRoles", "readPerms", "assignPerms", "retrieve", "createRole",
             "findRole", "deleteRole", "statement", "updatePermission", "invalidate"}

Job == [pc : {"idle"} \cup JobSteps, op : {"none"} \cup AllHandlers,
        target : Users \cup Roles \cup Perms \cup {None}, want : SUBSET (Roles \cup Perms),
        seen : SUBSET (Roles \cup Perms), row : Row, failed : BOOLEAN]

TypeOK ==
    /\ TablesTypeOK
    /\ DOMAIN cache \subseteq Users
    /\ cache \in [DOMAIN cache -> [val : SUBSET Keys, left : 0..TTL]]
    /\ req \in [Requests -> Request]
    /\ job \in [Admins -> Job]
    /\ jobs \in 0..MaxJobs
    /\ tainted \subseteq Requests
    /\ owed \in [Admins -> SUBSET Users]
    /\ excused \subseteq Users

Init ==
    /\ TablesTypeOK
    /\ cache = EmptyMap
    /\ req = [q \in Requests |-> IdleRequest]
    /\ job = [a \in Admins |-> IdleJob]
    /\ jobs = 0
    /\ tainted = {}
    /\ owed = [a \in Admins |-> {}]
    /\ excused = {}

\* History of entries that left the cache is dropped with them.
ForgetAbsent ==
    /\ owed' = [a \in Admins |-> owed[a] \cap DOMAIN cache']
    /\ excused' = excused \cap DOMAIN cache'

-----------------------------------------------------------------------------
(* Requests.  A hit answers from the entry and changes nothing, so only    *)
(* misses are actions.                                                     *)

StartLoading(q, u) ==
    /\ req' = [req EXCEPT ![q] = [IdleRequest EXCEPT !.pc = "userRoles", !.user = u]]
    /\ tainted' = tainted \ {q}

\* cache.Get finds nothing.
LookupMiss(q, u) ==
    /\ req[q].pc = "idle"
    /\ u \notin DOMAIN cache
    /\ StartLoading(q, u)
    /\ UNCHANGED <<tables, cache, job, jobs, owed, excused>>

\* cache.Get finds an expired entry and lets go of the read lock...
LookupExpired(q, u) ==
    /\ req[q].pc = "idle"
    /\ u \in DOMAIN cache \ LiveKeys(cache)
    /\ req' = [req EXCEPT ![q] = [IdleRequest EXCEPT !.pc = "reap", !.user = u]]
    /\ UNCHANGED <<tables, cache, job, jobs, tainted, owed, excused>>

\* ...then deletes whatever the key holds by now, and reports a miss.
ReapExpired(q) ==
    /\ req[q].pc = "reap"
    /\ cache' = Without(cache, {req[q].user})
    /\ StartLoading(q, req[q].user)
    /\ ForgetAbsent
    /\ UNCHANGED <<tables, job, jobs>>

Advance(q, pc, ids, todo, got) ==
    /\ req' = [req EXCEPT ![q] = [pc |-> pc, user |-> req[q].user,
                                  ids |-> ids, todo |-> todo, got |-> got]]
    /\ UNCHANGED <<tables, cache, job, jobs, tainted, owed, excused>>

\* RetrieveRolesByUserID: the user_role rows...
ReadUserRoles(q) ==
    /\ req[q].pc = "userRoles"
    /\ LET ids == RoleIdsOf(req[q].user)
       IN  Advance(q, IF ids = {} THEN "store" ELSE "roles", ids, {}, {})

\* Mutant of ReadRoles: the ids in user_role are trusted to be roles.
ReadRolesUnchecked(q) ==
    /\ req[q].pc = "roles"
    /\ Advance(q, "rolePerms", {}, req[q].ids \cap Roles, {})

\* ...then the role rows with those ids.
ReadRoles(q) ==
    /\ req[q].pc = "roles"
    /\ LET found == req[q].ids \cap roles
       IN  Advance(q, IF found = {} THEN "store" ELSE "rolePerms", {}, found, {})

\* After the last role: nothing found needs no search for children.
AfterRole(todo, got) ==
    IF todo # {} THEN "rolePerms" ELSE IF got = {} THEN "store" ELSE "tree"

\* RetrievePermissionByRoleID for the next role: its role_permission rows...
ReadRolePerms(q, r) ==
    /\ req[q].pc = "rolePerms"
    /\ r \in req[q].todo
    /\ LET ids  == PermIdsOf(r)
           todo == req[q].todo \ {r}
       IN  Advance(q, IF ids = {} THEN AfterRole(todo, req[q].got) ELSE "permRows",
                   ids, todo, req[q].got)

\* UniqBy keeps the row that came first for an id.
Merge(got, rows) == got \cup {x \in rows : x.id \notin IdsOf(got)}

\* ...then the permission rows with those ids.
ReadPermRows(q) ==
    /\ req[q].pc = "permRows"
    /\ LET got == Merge(req[q].got, RowsOf(req[q].ids))
       IN  Advance(q, AfterRole(req[q].todo, got), {}, req[q].todo, got)

\* getChildPermissionsWithCTE from the permissions found.
ReadTree(q) ==
    /\ req[q].pc = "tree"
    /\ ~ TreeHasCycle(IdsOf(req[q].got))
    /\ Advance(q, "store", {}, {}, Merge(req[q].got, RowsOf(TreeOf(IdsOf(req[q].got)))))

\* cache.Set, then the answer.
StoreEntry(q) ==
    /\ req[q].pc = "store"
    /\ LET u == req[q].user
       IN  /\ cache' = Set(cache, u, KeysOf(req[q].got), TTL)
           /\ owed' = [a \in Admins |-> (owed[a] \ {u}) \cap DOMAIN cache']
           /\ excused' = ((excused \ {u}) \cup (IF q \in tainted THEN {u} ELSE {}))
                            \cap DOMAIN cache'
    /\ req' = [req EXCEPT ![q] = IdleRequest]
    /\ UNCHANGED <<tables, job, jobs, tainted>>

\* A query fails: the request is answered with the error and nothing is cached.
LoadFails(q) ==
    /\ req[q].pc \in Loading \ {"store"}
    /\ req' = [req EXCEPT ![q] = IdleRequest]
    /\ UNCHANGED <<tables, cache, job, jobs, tainted, owed, excused>>

RequestStep(q) ==
    \/ ReapExpired(q)
    \/ ReadUserRoles(q)
    \/ ReadRoles(q)
    \/ \E r \in Roles : ReadRolePerms(q, r)
    \/ ReadPermRows(q)
    \/ ReadTree(q)
    \/ StoreEntry(q)
    \/ LoadFails(q)

RequestNext(q) ==
    \/ \E u \in Users : LookupMiss(q, u) \/ LookupExpired(q, u)
    \/ RequestStep(q)

-----------------------------------------------------------------------------
(* Admin calls.                                                            *)

Begin(a, h, new) ==
    /\ job[a].pc = "idle"
    /\ h \in Handlers
    /\ jobs < MaxJobs
    /\ jobs' = jobs + 1
    /\ job' = [job EXCEPT ![a] = [new EXCEPT !.op = h]]

Step(a, new) ==
    /\ job' = [job EXCEPT ![a] = new]
    /\ UNCHANGED jobs

\* Bookkeeping of a commit that may change the permissions of the users in scope.
Outdate(a, scope) ==
    /\ tainted' = tainted \cup {q \in Requests : req[q].pc \in Loading /\ req[q].user \in scope}
    /\ owed' = [owed EXCEPT ![a] = @ \cup (scope \cap DOMAIN cache)]
    /\ UNCHANGED <<cache, req, excused>>

\* The same for a commit after which the call returns and invalidates nothing.
OutdateForGood(a, scope) ==
    /\ tainted' = tainted \cup {q \in Requests : req[q].pc \in Loading /\ req[q].user \in scope}
    /\ owed' = [owed EXCEPT ![a] = {}]
    /\ excused' = excused \cup owed[a] \cup (scope \cap DOMAIN cache)
    /\ UNCHANGED <<cache, req>>

\* What follows a commit: the call goes on, or the answer to COMMIT was lost and it
\* returns an error for a change that is in the tables.
Committed(a, scope, new) ==
    \/ Step(a, new) /\ Outdate(a, scope)
    \/ Step(a, IdleJob) /\ OutdateForGood(a, scope)

NoCacheEffect == UNCHANGED <<cache, req, tainted, owed, excused>>

\* Any failure: the error goes to the client, the open transaction is rolled back
\* and nothing is invalidated, whatever the call has committed before.
JobFails(a) ==
    /\ job[a].pc \notin {"idle", "findRole", "deleteRole", "invalidate"}
    /\ Step(a, IdleJob)
    /\ owed' = [owed EXCEPT ![a] = {}]
    /\ excused' = excused \cup owed[a]
    /\ UNCHANGED <<tables, cache, req, tainted>>

\* UserAssignRoles, and the role part of CreateUser and UpdateUser ("SaveUser"):
\* AssignRoles has found the user.
BeginAssignRoles(a, h, u, want) ==
    /\ h \in {"UserAssignRoles", "SaveUser"}
    /\ Begin(a, h, [IdleJob EXCEPT !.pc = "readRoles", !.target = u, !.want = want])
    /\ NoCacheEffect /\ UNCHANGED tables

\* The current rows are read outside the transaction.
ReadCurrentRoles(a) ==
    /\ job[a].pc = "readRoles"
    /\ Step(a, [job[a] EXCEPT !.pc = "assignRoles", !.seen = RoleIdsOf(job[a].target)])
    /\ NoCacheEffect /\ UNCHANGED tables

\* The transaction.  Only UserAssignRoles has an invalidation ahead of it.
AssignUserRoles(a) ==
    /\ job[a].pc = "assignRoles"
    /\ AssignUserRolesTx(job[a].target, job[a].seen, job[a].want)
    /\ \/ /\ job[a].op = "UserAssignRoles"
          /\ Committed(a, {job[a].target}, [job[a] EXCEPT !.pc = "invalidate"])
       \/ /\ job[a].op = "SaveUser"
          /\ Step(a, IdleJob)
          /\ OutdateForGood(a, {job[a].target})

\* UpdateRole: the row was found and its own columns updated, which no grant depends
\* on; a request without permission ids goes straight to the closing query.
BeginUpdateRole(a, r, want, given) ==
    /\ r \in roles
    /\ given \/ want = {}
    /\ Begin(a, "UpdateRole", [IdleJob EXCEPT !.pc = IF given THEN "readPerms" ELSE "retrieve",
                                              !.target = r, !.want = want])
    /\ NoCacheEffect /\ UNCHANGED tables

ReadCurrentPerms(a) ==
    /\ job[a].pc = "readPerms"
    /\ Step(a, [job[a] EXCEPT !.pc = "assignPerms", !.seen = PermIdsOf(job[a].target)])
    /\ NoCacheEffect /\ UNCHANGED tables

AssignRolePermissions(a) ==
    /\ job[a].pc = "assignPerms"
    /\ AssignRolePermissionsTx(job[a].target, job[a].seen, job[a].want)
    /\ Committed(a, Users, [job[a] EXCEPT !.pc = "retrieve"])

\* The permissions are read back for the answer, before the handler invalidates.
RetrieveRolePerms(a) ==
    /\ job[a].pc = "retrieve"
    /\ Step(a, [job[a] EXCEPT !.pc = "invalidate"])
    /\ NoCacheEffect /\ UNCHANGED tables

\* CreateRole and CreateRoleBatch: one transaction per role of the request.
BeginCreateRole(a, ids) ==
    /\ ids # {} /\ ids \cap (roles \cup retired) = {}
    /\ Begin(a, "CreateRole", [IdleJob EXCEPT !.pc = "createRole", !.want = ids])
    /\ NoCacheEffect /\ UNCHANGED tables

CreateRole(a, r, ps) ==
    /\ job[a].pc = "createRole"
    /\ r \in job[a].want
    /\ CreateRoleTx(r, ps)
    /\ LET left == job[a].want \ {r}
       IN  Committed(a, Users, [job[a] EXCEPT !.want = left,
                                    !.pc = IF left = {} THEN "invalidate" ELSE "createRole"])

\* DeleteRole: every id is tried, and one that fails makes the whole call fail.
BeginDeleteRole(a, ids) ==
    /\ ids # {}
    /\ Begin(a, "DeleteRole", [IdleJob EXCEPT !.pc = "findRole", !.want = ids])
    /\ NoCacheEffect /\ UNCHANGED tables

FindRole(a, r) ==
    /\ job[a].pc = "findRole"
    /\ r \in job[a].want \cap roles
    /\ Step(a, [job[a] EXCEPT !.pc = "deleteRole", !.target = r, !.want = @ \ {r}])
    /\ NoCacheEffect /\ UNCHANGED tables

\* The id is not there, or the query fails.
FindRoleFails(a, r) ==
    /\ job[a].pc = "findRole"
    /\ r \in job[a].want
    /\ Step(a, [job[a] EXCEPT !.want = @ \ {r}, !.failed = TRUE])
    /\ NoCacheEffect /\ UNCHANGED tables

\* The transaction is applied, and reported as such or not.
DeleteRole(a, acked) ==
    /\ job[a].pc = "deleteRole"
    /\ DeleteRoleTx(job[a].target)
    /\ Step(a, [job[a] EXCEPT !.pc = "findRole", !.failed = @ \/ ~ acked])
    /\ Outdate(a, Users)

DeleteRoleFails(a) ==
    /\ job[a].pc = "deleteRole"
    /\ Step(a, [job[a] EXCEPT !.pc = "findRole", !.failed = TRUE])
    /\ NoCacheEffect /\ UNCHANGED tables

\* ErrorOrNil after the last id.
EndDeleteRole(a) ==
    /\ job[a].pc = "findRole"
    /\ job[a].want = {}
    /\ \/ /\ job[a].failed
          /\ Step(a, IdleJob)
          /\ owed' = [owed EXCEPT ![a] = {}]
          /\ excused' = excused \cup owed[a]
          /\ UNCHANGED <<cache, req, tainted>>
       \/ /\ ~ job[a].failed
          /\ Step(a, [job[a] EXCEPT !.pc = "invalidate"])
          /\ NoCacheEffect
    /\ UNCHANGED tables

\* CreatePermission, CreatePermissionBatch and DeletePermission: one statement each.
BeginPermissions(a, h) ==
    /\ h \in {"CreatePermission", "DeletePermission"}
    /\ Begin(a, h, [IdleJob EXCEPT !.pc = "statement"])
    /\ NoCacheEffect /\ UNCHANGED tables

CreatePermission(a, new) ==
    /\ job[a].pc = "statement" /\ job[a].op = "CreatePermission"
    /\ InsertPermissions(new)
    /\ Committed(a, Users, [job[a] EXCEPT !.pc = "invalidate"])

DeletePermission(a, ids) ==
    /\ job[a].pc = "statement" /\ job[a].op = "DeletePermission"
    /\ DeletePermissionRows(ids)
    /\ Committed(a, Users, [job[a] EXCEPT !.pc = "invalidate"])

\* UpdatePermission reads the row and lays the request over it...
BeginUpdatePermission(a, p, parent, given, key) ==
    /\ p \in DOMAIN perms
    /\ given \/ parent = None
    /\ Begin(a, "UpdatePermission",
             [IdleJob EXCEPT !.pc = "updatePermission", !.target = p,
                 !.row = [parent |-> IF given THEN parent ELSE perms[p].parent, key |-> key]])
    /\ NoCacheEffect /\ UNCHANGED tables

\* ...then writes the columns that are not zero.
UpdatePermission(a) ==
    /\ job[a].pc = "updatePermission"
    /\ UpdatePermissionRow(job[a].target, job[a].row)
    /\ Committed(a, Users, [job[a] EXCEPT !.pc = "invalidate"])

\* Mutant of Invalidate: UpdateRole forgets to clear the cache.
InvalidateForgotten(a) ==
    /\ job[a].pc = "invalidate"
    /\ cache' = IF job[a].op = "UserAssignRoles" THEN Without(cache, {job[a].target})
                ELSE IF job[a].op = "UpdateRole" THEN cache ELSE EmptyMap
    /\ Step(a, IdleJob)
    /\ owed' = [x \in Admins |-> IF x = a THEN {} ELSE owed[x] \cap DOMAIN cache']
    /\ excused' = excused \cap DOMAIN cache'
    /\ UNCHANGED <<tables, req, tainted>>

\* The call succeeded: drop the user's entry, or all of them, and answer.
Invalidate(a) ==
    /\ job[a].pc = "invalidate"
    /\ cache' = IF job[a].op = "UserAssignRoles" THEN Without(cache, {job[a].target})
                                                 ELSE EmptyMap
    /\ Step(a, IdleJob)
    /\ owed' = [x \in Admins |-> IF x = a THEN {} ELSE owed[x] \cap DOMAIN cache']
    /\ excused' = excused \cap DOMAIN cache'
    /\ UNCHANGED <<tables, req, tainted>>

JobBegin(a) ==
    \/ \E h \in Handlers, u \in Users, want \in SUBSET Roles : BeginAssignRoles(a, h, u, want)
    \/ \E r \in Roles, want \in SUBSET Perms, given \in BOOLEAN : BeginUpdateRole(a, r, want, given)
    \/ \E ids \in SUBSET Roles : BeginCreateRole(a, ids) \/ BeginDeleteRole(a, ids)
    \/ \E h \in Handlers : BeginPermissions(a, h)
    \/ \E p \in Perms, parent \in Perms \cup {None}, given \in BOOLEAN, key \in Keys \cup {None} :
            BeginUpdatePermission(a, p, parent, given, key)

JobStep(a) ==
    \/ JobFails(a)
    \/ ReadCurrentRoles(a) \/ AssignUserRoles(a)
    \/ ReadCurrentPerms(a) \/ AssignRolePermissions(a) \/ RetrieveRolePerms(a)
    \/ \E r \in Roles, ps \in SUBSET Perms : CreateRole(a, r, ps)
    \/ \E r \in Roles : FindRole(a, r) \/ FindRoleFails(a, r)
    \/ \E acked \in BOOLEAN : DeleteRole(a, acked)
    \/ DeleteRoleFails(a) \/ EndDeleteRole(a)
    \/ \E ids \in SUBSET Perms \ {{}} :
            \/ \E new \in [ids -> Row] : CreatePermission(a, new)
            \/ DeletePermission(a, ids)
    \/ UpdatePermission(a)
    \/ Invalidate(a)

\* The clock moves.
Tick ==
    /\ cache' = Aged(cache)
    /\ UNCHANGED <<tables, req, job, jobs, tainted, owed, excused>>

Next ==
    \/ \E q \in Requests : RequestNext(q)
    \/ \E a \in Admins : JobBegin(a) \/ JobStep(a)
    \/ Tick

Spec == Init /\ [][Next]_vars

\* Goroutines run, statements end (with an answer or an error) and the clock moves.
Fairness ==
    /\ WF_vars(Tick)
    /\ \A q \in Requests : WF_vars(RequestStep(q))
    /\ \A a \in Admins : WF_vars(JobStep(a))

FairSpec == Spec /\ Fairness

-----------------------------------------------------------------------------
(* Properties.                                                             *)

\* An entry says what the tables say, unless an admin call that outdated it is
\* still on its way to the invalidation, or it is one of the known gaps (excused):
\* no interleaving of queries, commits, invalidations and expiry leaves any other
\* user with permissions the tables do not give.
CachedExact ==
    \A u \in DOMAIN cache :
        \/ cache[u].val = Effective(u)
        \/ \E a \in Admins : job[a].pc # "idle" /\ u \in owed[a]
        \/ u \in excused

GrantedBy(rs) == RowsOf(UNION {PermIdsOf(r) : r \in rs})

\* What a request x has gathered so far is what the tables say of its user: the role
\* ids, the rows of the roles done, the rows of all roles, and in the end the keys.
Accurate(x) ==
    LET mine == RoleIdsOf(x.user) \cap roles
    IN  /\ x.pc = "roles" => x.ids = RoleIdsOf(x.user)
        /\ x.pc \in {"rolePerms", "permRows"} => x.todo \subseteq mine
        /\ x.pc = "rolePerms" => x.got = GrantedBy(mine \ x.todo)
        /\ x.pc = "permRows" => x.got \cup RowsOf(x.ids) = GrantedBy(mine \ x.todo)
        /\ x.pc = "tree" => x.got = RowsOf(DirectPerms(x.user))
        /\ x.pc = "store" => KeysOf(x.got) = Effective(x.user)

\* Separate queries add up to a snapshot: a request is off course only if a commit
\* that concerns its user fell between its queries (tainted).
LoadedExact == \A q \in Requests \ tainted : \A x \in {req[q]} : Accurate(x)

AccountsFor(j, before, after) ==
    /\ after \ j.want \subseteq before \ j.seen
    /\ j.want \ after \subseteq j.seen \ before

\* An assignment works from rows read before its transaction.  What a user or a role ends
\* up with beyond what was requested was added by someone else after that read, and what
\* was requested and is missing was removed by someone else after it.
AssignmentAccountsForRows ==
    [][\A a \in Admins :
        /\ \A u \in Users :
            /\ job[a].pc = "assignRoles" /\ job[a].target = u
            /\ job'[a].pc = "invalidate" \/ (job'[a] # job[a] /\ userRoles' # userRoles)
            => AccountsFor(job[a], RoleIdsOf(u), RoleIdsOf(u)')
        /\ \A r \in Roles :
            /\ job[a].pc = "assignPerms" /\ job[a].target = r
            /\ job'[a].pc = "retrieve" \/ (job'[a] # job[a] /\ rolePerms' # rolePerms)
            => AccountsFor(job[a], PermIdsOf(r), PermIdsOf(r)')
      ]_vars

\* The TTL is the fallback for every gap: once the tables stop changing, each entry
\* that can still be hit agrees with them for good.
CacheConverges ==
    <>[](\A u \in LiveKeys(cache) : cache[u].val = Effective(u))

\* README: after a role or permission change the cache of the users concerned is
\* invalidated.  With no call in flight, an entry that can be hit is up to date.
ChangesAreVisible ==
    (\A a \in Admins : job[a].pc = "idle") /\ (\A q \in Requests : req[q].pc = "idle")
        => \A u \in LiveKeys(cache) : cache[u].val = Effective(u)

=============================================================================
