------------------------- MODULE PermissionProofs -------------------------
(***************************************************************************)
(* What PermissionChecker guarantees for every set of users, roles,        *)
(* permissions, requests and admin calls, every TTL and every number of    *)
(* calls: its types; what an assignment leaves; and CachedExact: whatever  *)
(* queries, commits, invalidations, expiries and failures interleave, an   *)
(* entry of the permission cache is exact outside the known gaps.  The     *)
(* argument for the last: what an untainted request has read is what the   *)
(* tables say now (LoadedExact), so what it stores is exact; and a commit  *)
(* owes the entries it outdates until its call drops them or returns       *)
(* (OwedShape).                                                            *)
(***************************************************************************)
EXTENDS PermissionChecker, TLAPS

\* What requests and invalidations do to the cache keeps its type.
LEMMA CacheOps ==
    ASSUME NEW m, DOMAIN m \subseteq Users,
           m \in [DOMAIN m -> [val : SUBSET Keys, left : 0..TTL]],
           NEW u \in Users, NEW v \in SUBSET Keys
    PROVE  /\ DOMAIN Without(m, {u}) = DOMAIN m \ {u}
           /\ Without(m, {u}) \in [DOMAIN m \ {u} -> [val : SUBSET Keys, left : 0..TTL]]
           /\ DOMAIN Set(m, u, v, TTL) \subseteq DOMAIN m \cup {u}
           /\ Set(m, u, v, TTL)
                \in [DOMAIN Set(m, u, v, TTL) -> [val : SUBSET Keys, left : 0..TTL]]
<1>1. TTL \in Nat /\ TTL > 0
  BY TTLAssumption
<1>2. DOMAIN Without(m, {u}) = DOMAIN m \ {u}
      /\ Without(m, {u}) \in [DOMAIN m \ {u} -> [val : SUBSET Keys, left : 0..TTL]]
  BY DEF Without
<1>4. DEFINE w == With(m, u, Entry(v, TTL))
<1>5. w \in [DOMAIN m \cup {u} -> [val : SUBSET Keys, left : 0..TTL]]
  BY <1>1 DEF With, Entry
<1>6. Set(m, u, v, TTL) = Cleanup(w)
  BY <1>1 DEF Set, SetWithTTL
<1>7. DOMAIN Cleanup(w) \subseteq DOMAIN m \cup {u}
      /\ Cleanup(w) \in [DOMAIN Cleanup(w) -> [val : SUBSET Keys, left : 0..TTL]]
  BY <1>5 DEF Cleanup, LiveKeys
<1> QED BY <1>2, <1>6, <1>7

\* So does the clock.
LEMMA AgedTyped ==
    ASSUME NEW m, m \in [DOMAIN m -> [val : SUBSET Keys, left : 0..TTL]]
    PROVE  /\ DOMAIN Aged(m) = DOMAIN m
           /\ Aged(m) \in [DOMAIN m -> [val : SUBSET Keys, left : 0..TTL]]
BY TTLAssumption DEF Aged, Entry

-----------------------------------------------------------------------------
(* Type correctness.  The tables, the requests and the jobs are typed one  *)
(* after the other; each of them is changed by few actions.                *)

\* Every transaction and statement keeps the tables typed.
LEMMA TableOps ==
    ASSUME TablesTypeOK
    PROVE  /\ \A u \in Users, seen, want \in SUBSET (Roles \cup Perms) :
                want \subseteq Roles /\ seen \subseteq Roles /\ AssignUserRolesTx(u, seen, want)
                    => TablesTypeOK'
           /\ \A r \in Roles, seen, want \in SUBSET (Roles \cup Perms) :
                want \subseteq Perms /\ seen \subseteq Perms /\ AssignRolePermissionsTx(r, seen, want)
                    => TablesTypeOK'
           /\ \A r \in Roles, ps \in SUBSET Perms : CreateRoleTx(r, ps) => TablesTypeOK'
           /\ \A r \in Roles : DeleteRoleTx(r) => TablesTypeOK'
           /\ \A ids \in SUBSET Perms : \A new \in [ids -> Row] :
                InsertPermissions(new) => TablesTypeOK'
           /\ \A p \in Perms, row \in Row : UpdatePermissionRow(p, row) => TablesTypeOK'
           /\ \A ids \in SUBSET Perms : DeletePermissionRows(ids) => TablesTypeOK'
           /\ UNCHANGED tables => TablesTypeOK'
<1> USE DEF TablesTypeOK
<1>1. ASSUME NEW u \in Users, NEW seen \in SUBSET (Roles \cup Perms),
             NEW want \in SUBSET (Roles \cup Perms), want \subseteq Roles, seen \subseteq Roles,
             AssignUserRolesTx(u, seen, want)
      PROVE  TablesTypeOK'
  <2>1. DiffApplied(RoleIdsOf(u), seen, want) \subseteq Roles
    BY <1>1 DEF DiffApplied, RoleIdsOf
  <2>2. userRoles' \subseteq Users \X Roles
    BY <1>1, <2>1 DEF AssignUserRolesTx
  <2> QED BY <1>1, <2>2 DEF AssignUserRolesTx
<1>2. ASSUME NEW r \in Roles, NEW seen \in SUBSET (Roles \cup Perms),
             NEW want \in SUBSET (Roles \cup Perms), want \subseteq Perms, seen \subseteq Perms,
             AssignRolePermissionsTx(r, seen, want)
      PROVE  TablesTypeOK'
  <2>1. DiffApplied(PermIdsOf(r), seen, want) \subseteq Perms
    BY <1>2 DEF DiffApplied, PermIdsOf
  <2>2. rolePerms' \subseteq Roles \X Perms
    BY <1>2, <2>1 DEF AssignRolePermissionsTx
  <2> QED BY <1>2, <2>2 DEF AssignRolePermissionsTx
<1>3. ASSUME NEW r \in Roles, NEW ps \in SUBSET Perms, CreateRoleTx(r, ps)
      PROVE  TablesTypeOK'
  BY <1>3 DEF CreateRoleTx
<1>4. ASSUME NEW r \in Roles, DeleteRoleTx(r)
      PROVE  TablesTypeOK'
  BY <1>4 DEF DeleteRoleTx
<1>5. ASSUME NEW ids \in SUBSET Perms, NEW new \in [ids -> Row], InsertPermissions(new)
      PROVE  TablesTypeOK'
  BY <1>5 DEF InsertPermissions
<1>6. ASSUME NEW p \in Perms, NEW row \in Row, UpdatePermissionRow(p, row)
      PROVE  TablesTypeOK'
  <2>1. \A x \in DOMAIN perms :
            [parent |-> IF row.parent = None THEN perms[x].parent ELSE row.parent,
             key    |-> IF row.key = None THEN perms[x].key ELSE row.key] \in Row
    BY DEF Row
  <2> QED BY <1>6, <2>1 DEF UpdatePermissionRow
<1>7. ASSUME NEW ids \in SUBSET Perms, DeletePermissionRows(ids)
      PROVE  TablesTypeOK'
  BY <1>7 DEF DeletePermissionRows
<1>8. UNCHANGED tables => TablesTypeOK'
  BY DEF tables
<1> QED BY <1>1, <1>2, <1>3, <1>4, <1>5, <1>6, <1>7, <1>8

-----------------------------------------------------------------------------
(* TypeOK is not inductive: what a call carries depends on how far it got. *)

JobShape(j) ==
    /\ j.pc \in {"readRoles", "assignRoles"} =>
            /\ j.op \in {"UserAssignRoles", "SaveUser"}
            /\ j.target \in Users /\ j.want \subseteq Roles /\ j.seen \subseteq Roles
    /\ j.pc \in {"readPerms", "assignPerms", "retrieve"} =>
            /\ j.op = "UpdateRole"
            /\ j.target \in Roles /\ j.want \subseteq Perms /\ j.seen \subseteq Perms
    /\ j.pc \in {"createRole", "findRole", "deleteRole"} => j.want \subseteq Roles
    /\ j.pc = "deleteRole" => j.target \in Roles
    /\ j.pc = "updatePermission" => j.target \in Perms
    /\ j.op = "UserAssignRoles" =>
            j.pc \in {"readRoles", "assignRoles", "invalidate"} /\ j.target \in Users

JobsTyped ==
    /\ job \in [Admins -> Job]
    /\ \A a \in Admins : JobShape(job[a])
    /\ jobs \in 0..MaxJobs

CacheTyped ==
    /\ DOMAIN cache \subseteq Users
    /\ cache \in [DOMAIN cache -> [val : SUBSET Keys, left : 0..TTL]]

RequestsTyped ==
    /\ req \in [Requests -> Request]
    /\ \A q \in Requests : req[q].pc # "idle" => req[q].user \in Users

HistoryTyped ==
    /\ tainted \subseteq Requests
    /\ owed \in [Admins -> SUBSET Users]
    /\ excused \subseteq Users

TypeInv == TablesTypeOK /\ JobsTyped /\ CacheTyped /\ RequestsTyped /\ HistoryTyped

\* A new state of one call, typed and shaped, keeps all of them typed.
LEMMA StepTyped ==
    ASSUME JobsTyped, NEW a \in Admins, NEW new \in Job, JobShape(new), Step(a, new)
    PROVE  JobsTyped'
BY DEF JobsTyped, Step

LEMMA BeginTyped ==
    ASSUME JobsTyped, NEW a \in Admins, NEW h \in AllHandlers, NEW new \in Job,
           JobShape([new EXCEPT !.op = h]), Begin(a, h, new)
    PROVE  JobsTyped'
<1>1. jobs' \in 0..MaxJobs
  BY MaxJobsAssumption DEF JobsTyped, Begin
<1>2. [new EXCEPT !.op = h] \in Job
  BY DEF Job
<1> QED BY <1>1, <1>2 DEF JobsTyped, Begin

LEMMA IdleJobTyped == IdleJob \in Job /\ JobShape(IdleJob)
BY DEF IdleJob, Job, JobShape, JobSteps, NoRow, Row

LEMMA IdleRequestTyped == IdleRequest \in Request
BY DEF IdleRequest, Request

\* Bookkeeping keeps everything but the calls and the tables typed.
LEMMA BookkeepingTyped ==
    ASSUME CacheTyped, RequestsTyped, HistoryTyped, NEW a \in Admins, NEW scope \in SUBSET Users
    PROVE  /\ NoCacheEffect => CacheTyped' /\ RequestsTyped' /\ HistoryTyped'
           /\ Outdate(a, scope) => CacheTyped' /\ RequestsTyped' /\ HistoryTyped'
           /\ OutdateForGood(a, scope) => CacheTyped' /\ RequestsTyped' /\ HistoryTyped'
<1> USE DEF CacheTyped, RequestsTyped, HistoryTyped
<1>1. NoCacheEffect => CacheTyped' /\ RequestsTyped' /\ HistoryTyped'
  BY DEF NoCacheEffect
<1>2. Outdate(a, scope) => CacheTyped' /\ RequestsTyped' /\ HistoryTyped'
  BY DEF Outdate
<1>3. OutdateForGood(a, scope) => CacheTyped' /\ RequestsTyped' /\ HistoryTyped'
  BY DEF OutdateForGood
<1> QED BY <1>1, <1>2, <1>3

LEMMA CommittedTyped ==
    ASSUME JobsTyped, CacheTyped, RequestsTyped, HistoryTyped,
           NEW a \in Admins, NEW scope \in SUBSET Users, NEW new \in Job, JobShape(new),
           Committed(a, scope, new)
    PROVE  JobsTyped' /\ CacheTyped' /\ RequestsTyped' /\ HistoryTyped'
<1>1. CASE Step(a, new) /\ Outdate(a, scope)
  BY <1>1, StepTyped, BookkeepingTyped
<1>2. CASE Step(a, IdleJob) /\ OutdateForGood(a, scope)
  BY <1>2, StepTyped, BookkeepingTyped, IdleJobTyped
<1> QED BY <1>1, <1>2 DEF Committed

\* A loading request that moves on with typed results.
LEMMA AdvanceTyped ==
    ASSUME TypeInv, NEW q \in Requests, req[q].pc # "idle", NEW pc \in Loading,
           NEW ids \in SUBSET (Roles \cup Perms), NEW todo \in SUBSET Roles,
           NEW got \in SUBSET RowSet, Advance(q, pc, ids, todo, got)
    PROVE  TypeInv'
<1>1. TablesTypeOK' /\ CacheTyped' /\ HistoryTyped'
  BY TableOps DEF TypeInv, Advance, CacheTyped, HistoryTyped
<1>2. JobsTyped'
  BY DEF TypeInv, Advance, JobsTyped
<1>3. RequestsTyped'
  <2> DEFINE new == [pc |-> pc, user |-> req[q].user, ids |-> ids, todo |-> todo, got |-> got]
  <2>1. new \in Request /\ new.user \in Users
    BY DEF TypeInv, RequestsTyped, Request
  <2> QED BY <2>1 DEF TypeInv, Advance, RequestsTyped
<1> QED BY <1>1, <1>2, <1>3 DEF TypeInv

\* Rows read from the permission table are rows of the table's type.
LEMMA RowsTyped ==
    ASSUME TablesTypeOK
    PROVE  /\ \A ids : RowsOf(ids) \in SUBSET RowSet
           /\ \A got, rows \in SUBSET RowSet : Merge(got, rows) \in SUBSET RowSet
           /\ \A rows \in SUBSET RowSet : KeysOf(rows) \in SUBSET Keys
<1>1. \A ids : RowsOf(ids) \in SUBSET RowSet
  BY DEF TablesTypeOK, RowsOf, Row, RowSet
<1>2. \A got, rows \in SUBSET RowSet : Merge(got, rows) \in SUBSET RowSet
  BY DEF Merge
<1>3. \A rows \in SUBSET RowSet : KeysOf(rows) \in SUBSET Keys
  BY DEF KeysOf, RowSet
<1> QED BY <1>1, <1>2, <1>3

LEMMA InitTyped == Init => TypeInv
<1> SUFFICES ASSUME Init PROVE TypeInv
  OBVIOUS
<1> USE DEF Init
<1>1. JobsTyped
  BY IdleJobTyped, MaxJobsAssumption DEF JobsTyped
<1>2. CacheTyped
  BY DEF CacheTyped, EmptyMap
<1>3. RequestsTyped
  BY IdleRequestTyped DEF RequestsTyped, IdleRequest
<1>4. HistoryTyped
  BY DEF HistoryTyped
<1> QED BY <1>1, <1>2, <1>3, <1>4 DEF TypeInv

LEMMA StartLoadingTyped ==
    ASSUME RequestsTyped, HistoryTyped, NEW q \in Requests, NEW u \in Users, StartLoading(q, u)
    PROVE  RequestsTyped' /\ tainted' \subseteq Requests
<1> DEFINE new == [IdleRequest EXCEPT !.pc = "userRoles", !.user = u]
<1>1. new \in Request /\ new.user \in Users
  BY DEF IdleRequest, Request, Loading
<1>2. req' = [req EXCEPT ![q] = new]
  BY DEF StartLoading
<1>3. tainted' \subseteq Requests
  BY DEF StartLoading, HistoryTyped
<1> HIDE DEF new
<1> QED BY <1>1, <1>2, <1>3 DEF RequestsTyped

\* A request back at rest, with everything else but the cache's history as it was.
LEMMA RestTyped ==
    ASSUME RequestsTyped, NEW q \in Requests, req' = [req EXCEPT ![q] = IdleRequest]
    PROVE  RequestsTyped'
BY IdleRequestTyped DEF RequestsTyped, IdleRequest

LEMMA RequestTyped ==
    ASSUME TypeInv, NEW q \in Requests, RequestNext(q)
    PROVE  TypeInv'
<1> USE DEF TypeInv
<1>1. UNCHANGED <<tables, job, jobs>>
  BY DEF RequestNext, RequestStep, LookupMiss, LookupExpired, ReapExpired, ReadUserRoles,
         ReadRoles, ReadRolePerms, ReadPermRows, ReadTree, StoreEntry, LoadFails, Advance
<1>2. TablesTypeOK' /\ JobsTyped'
  BY <1>1, TableOps DEF JobsTyped
<1>3. ASSUME NEW u \in Users, LookupMiss(q, u)
      PROVE  TypeInv'
  BY <1>2, <1>3, StartLoadingTyped DEF LookupMiss, CacheTyped, HistoryTyped
<1>4. ASSUME NEW u \in Users, LookupExpired(q, u)
      PROVE  TypeInv'
  <2> DEFINE new == [IdleRequest EXCEPT !.pc = "reap", !.user = u]
  <2>1. new \in Request /\ new.user \in Users
    BY DEF IdleRequest, Request
  <2>2. req' = [req EXCEPT ![q] = new]
    BY <1>4 DEF LookupExpired
  <2> HIDE DEF new
  <2>3. RequestsTyped'
    BY <2>1, <2>2 DEF RequestsTyped
  <2> QED BY <1>2, <1>4, <2>3 DEF LookupExpired, CacheTyped, HistoryTyped
<1>5. CASE ReapExpired(q)
  <2>1. req[q].user \in Users
    BY <1>5 DEF ReapExpired, RequestsTyped
  <2>2. RequestsTyped' /\ tainted' \subseteq Requests
    BY <1>5, <2>1, StartLoadingTyped DEF ReapExpired
  <2>3. CacheTyped'
    BY <1>5, <2>1 DEF ReapExpired, CacheTyped, Without
  <2>4. HistoryTyped'
    BY <1>5, <2>2 DEF ReapExpired, ForgetAbsent, HistoryTyped
  <2> QED BY <1>2, <2>2, <2>3, <2>4
<1>6. CASE ReadUserRoles(q)
  <2>1. RoleIdsOf(req[q].user) \in SUBSET (Roles \cup Perms) /\ req[q].pc # "idle"
    BY <1>6 DEF RoleIdsOf, ReadUserRoles
  <2> QED BY <1>6, <2>1, AdvanceTyped DEF ReadUserRoles, Loading
<1>7. CASE ReadRoles(q)
  <2>1. req[q].ids \cap roles \in SUBSET Roles /\ req[q].pc # "idle"
    BY <1>7 DEF ReadRoles, TablesTypeOK
  <2> QED BY <1>7, <2>1, AdvanceTyped DEF ReadRoles, Loading
<1>8. ASSUME NEW r \in Roles, ReadRolePerms(q, r)
      PROVE  TypeInv'
  <2> DEFINE ids == PermIdsOf(r)
             todo == req[q].todo \ {r}
             got == req[q].got
             pc == IF ids = {} THEN AfterRole(todo, got) ELSE "permRows"
  <2>1. ids \in SUBSET (Roles \cup Perms) /\ todo \in SUBSET Roles /\ got \in SUBSET RowSet
    BY DEF PermIdsOf, RequestsTyped, Request
  <2>2. pc \in Loading /\ req[q].pc # "idle"
    BY <1>8 DEF AfterRole, Loading, ReadRolePerms
  <2>3. Advance(q, pc, ids, todo, got)
    BY <1>8 DEF ReadRolePerms
  <2> HIDE DEF ids, todo, got, pc
  <2> QED BY <2>1, <2>2, <2>3, AdvanceTyped
<1>9. CASE ReadPermRows(q)
  <2> DEFINE todo == req[q].todo
             got == Merge(req[q].got, RowsOf(req[q].ids))
             pc == AfterRole(todo, got)
  <2>1. todo \in SUBSET Roles /\ got \in SUBSET RowSet
    BY RowsTyped DEF RequestsTyped, Request
  <2>2. pc \in Loading /\ req[q].pc # "idle"
    BY <1>9 DEF AfterRole, Loading, ReadPermRows
  <2>3. Advance(q, pc, {}, todo, got)
    BY <1>9 DEF ReadPermRows
  <2> HIDE DEF todo, got, pc
  <2> QED BY <2>1, <2>2, <2>3, AdvanceTyped
<1>10. CASE ReadTree(q)
  <2> DEFINE got == Merge(req[q].got, RowsOf(TreeOf(IdsOf(req[q].got))))
  <2>1. got \in SUBSET RowSet
    BY RowsTyped DEF RequestsTyped, Request
  <2>2. Advance(q, "store", {}, {}, got) /\ req[q].pc # "idle"
    BY <1>10 DEF ReadTree
  <2> HIDE DEF got
  <2> QED BY <2>1, <2>2, AdvanceTyped DEF Loading
<1>11. CASE StoreEntry(q)
  <2>1. req[q].user \in Users /\ KeysOf(req[q].got) \in SUBSET Keys
    BY <1>11, RowsTyped DEF StoreEntry, RequestsTyped, Request
  <2>2. RequestsTyped'
    BY <1>11, RestTyped DEF StoreEntry
  <2>3. CacheTyped'
    <3> DEFINE new == Set(cache, req[q].user, KeysOf(req[q].got), TTL)
    <3>1. cache' = new
      BY <1>11 DEF StoreEntry
    <3>2. DOMAIN new \subseteq DOMAIN cache \cup {req[q].user}
          /\ new \in [DOMAIN new -> [val : SUBSET Keys, left : 0..TTL]]
      BY <2>1, CacheOps DEF CacheTyped
    <3> HIDE DEF new
    <3> QED BY <2>1, <3>1, <3>2 DEF CacheTyped
  <2>4. HistoryTyped'
    BY <1>11, <2>1 DEF StoreEntry, HistoryTyped
  <2> QED BY <1>2, <2>2, <2>3, <2>4
<1>12. CASE LoadFails(q)
  <2>1. RequestsTyped'
    BY <1>12, RestTyped DEF LoadFails
  <2> QED BY <1>2, <1>12, <2>1 DEF LoadFails, CacheTyped, HistoryTyped
<1> QED
  BY <1>3, <1>4, <1>5, <1>6, <1>7, <1>8, <1>9, <1>10, <1>11, <1>12 DEF RequestNext, RequestStep

\* An admin call starts: only the calls change.
LEMMA JobBeginTyped ==
    ASSUME TypeInv, NEW a \in Admins, JobBegin(a)
    PROVE  TypeInv'
<1> USE DEF TypeInv
<1> DEFINE Started == \E h \in AllHandlers : \E new \in Job :
                        JobShape([new EXCEPT !.op = h]) /\ Begin(a, h, new)
<1>1. Handlers \subseteq AllHandlers
  BY HandlersAssumption
<1>2. ASSUME NEW h \in Handlers, NEW u \in Users, NEW want \in SUBSET Roles,
             BeginAssignRoles(a, h, u, want)
      PROVE  Started
  <2> DEFINE new == [IdleJob EXCEPT !.pc = "readRoles", !.target = u, !.want = want]
  <2>1. new \in Job /\ JobShape([new EXCEPT !.op = h])
    BY <1>2 DEF BeginAssignRoles, IdleJob, Job, JobSteps, JobShape, NoRow, Row
  <2>2. Begin(a, h, new)
    BY <1>2 DEF BeginAssignRoles
  <2> HIDE DEF new
  <2> QED BY <1>1, <2>1, <2>2
<1>3. ASSUME NEW r \in Roles, NEW want \in SUBSET Perms, NEW given \in BOOLEAN,
             BeginUpdateRole(a, r, want, given)
      PROVE  Started
  <2> DEFINE new == [IdleJob EXCEPT !.pc = IF given THEN "readPerms" ELSE "retrieve",
                                    !.target = r, !.want = want]
  <2>1. new \in Job /\ JobShape([new EXCEPT !.op = "UpdateRole"])
    BY DEF IdleJob, Job, JobSteps, JobShape, NoRow, Row
  <2>2. Begin(a, "UpdateRole", new)
    BY <1>3 DEF BeginUpdateRole
  <2> HIDE DEF new
  <2> QED BY <2>1, <2>2 DEF AllHandlers
<1>4. ASSUME NEW ids \in SUBSET Roles, BeginCreateRole(a, ids)
      PROVE  Started
  <2> DEFINE new == [IdleJob EXCEPT !.pc = "createRole", !.want = ids]
  <2>1. new \in Job /\ JobShape([new EXCEPT !.op = "CreateRole"])
    BY DEF IdleJob, Job, JobSteps, JobShape, NoRow, Row
  <2>2. Begin(a, "CreateRole", new)
    BY <1>4 DEF BeginCreateRole
  <2> HIDE DEF new
  <2> QED BY <2>1, <2>2 DEF AllHandlers
<1>5. ASSUME NEW ids \in SUBSET Roles, BeginDeleteRole(a, ids)
      PROVE  Started
  <2> DEFINE new == [IdleJob EXCEPT !.pc = "findRole", !.want = ids]
  <2>1. new \in Job /\ JobShape([new EXCEPT !.op = "DeleteRole"])
    BY DEF IdleJob, Job, JobSteps, JobShape, NoRow, Row
  <2>2. Begin(a, "DeleteRole", new)
    BY <1>5 DEF BeginDeleteRole
  <2> HIDE DEF new
  <2> QED BY <2>1, <2>2 DEF AllHandlers
<1>6. ASSUME NEW h \in Handlers, BeginPermissions(a, h)
      PROVE  Started
  <2> DEFINE new == [IdleJob EXCEPT !.pc = "statement"]
  <2>1. new \in Job /\ JobShape([new EXCEPT !.op = h])
    BY <1>6 DEF BeginPermissions, IdleJob, Job, JobSteps, JobShape, NoRow, Row
  <2>2. Begin(a, h, new)
    BY <1>6 DEF BeginPermissions
  <2> HIDE DEF new
  <2> QED BY <1>1, <2>1, <2>2
<1>7. ASSUME NEW p \in Perms, NEW parent \in Perms \cup {None}, NEW given \in BOOLEAN,
             NEW key \in Keys \cup {None}, BeginUpdatePermission(a, p, parent, given, key)
      PROVE  Started
  <2> DEFINE row == [parent |-> IF given THEN parent ELSE perms[p].parent, key |-> key]
             new == [IdleJob EXCEPT !.pc = "updatePermission", !.target = p, !.row = row]
  <2>1. row \in Row
    BY <1>7 DEF BeginUpdatePermission, TablesTypeOK, Row
  <2>2. Begin(a, "UpdatePermission", new)
    BY <1>7 DEF BeginUpdatePermission
  <2> HIDE DEF row
  <2>3. new \in Job /\ JobShape([new EXCEPT !.op = "UpdatePermission"])
    BY <2>1 DEF IdleJob, Job, JobSteps, JobShape, NoRow
  <2> HIDE DEF new
  <2> QED BY <2>2, <2>3 DEF AllHandlers
<1>8. Started /\ UNCHANGED <<tables, cache, req, tainted, owed, excused>>
  <2>1. Started
    BY <1>2, <1>3, <1>4, <1>5, <1>6, <1>7 DEF JobBegin
  <2>2. UNCHANGED <<tables, cache, req, tainted, owed, excused>>
    BY DEF JobBegin, BeginAssignRoles, BeginUpdateRole, BeginCreateRole, BeginDeleteRole,
           BeginPermissions, BeginUpdatePermission, NoCacheEffect
  <2> QED BY <2>1, <2>2
<1>9. JobsTyped'
  BY <1>8, BeginTyped
<1> QED BY <1>8, <1>9, TableOps DEF CacheTyped, RequestsTyped, HistoryTyped

\* An admin call goes on: its own state, and through a commit the tables.
LEMMA JobStepTyped ==
    ASSUME TypeInv, NEW a \in Admins, JobStep(a)
    PROVE  TypeInv'
<1> DEFINE j == job[a]
<1> USE DEF TypeInv
<1>0. /\ j \in Job /\ JobShape(j)
      /\ \A scope \in SUBSET Users, new \in Job :
            /\ JobShape(new) /\ Step(a, new) => JobsTyped'
            /\ Outdate(a, scope) => CacheTyped' /\ RequestsTyped' /\ HistoryTyped'
            /\ JobShape(new) /\ Committed(a, scope, new)
                    => JobsTyped' /\ CacheTyped' /\ RequestsTyped' /\ HistoryTyped'
      /\ NoCacheEffect => CacheTyped' /\ RequestsTyped' /\ HistoryTyped'
      /\ Step(a, IdleJob) => JobsTyped'
      /\ UNCHANGED tables => TablesTypeOK'
  <2>1. j \in Job /\ JobShape(j)
    BY DEF JobsTyped
  <2>2. \A new \in Job : JobShape(new) /\ Step(a, new) => JobsTyped'
    BY StepTyped
  <2>3. \A scope \in SUBSET Users :
            Outdate(a, scope) => CacheTyped' /\ RequestsTyped' /\ HistoryTyped'
    BY BookkeepingTyped
  <2>4. \A scope \in SUBSET Users, new \in Job :
            JobShape(new) /\ Committed(a, scope, new)
                => JobsTyped' /\ CacheTyped' /\ RequestsTyped' /\ HistoryTyped'
    BY CommittedTyped
  <2> QED BY <2>1, <2>2, <2>3, <2>4, BookkeepingTyped, IdleJobTyped, TableOps
<1>1. CASE JobFails(a)
  BY <1>0, <1>1, IdleJobTyped DEF JobFails, CacheTyped, RequestsTyped, HistoryTyped
<1>2. CASE ReadCurrentRoles(a)
  <2> DEFINE new == [j EXCEPT !.pc = "assignRoles", !.seen = RoleIdsOf(j.target)]
  <2>1. new \in Job /\ JobShape(new)
    BY <1>0, <1>2 DEF ReadCurrentRoles, RoleIdsOf, Job, JobSteps, JobShape
  <2>2. Step(a, new) /\ NoCacheEffect /\ UNCHANGED tables
    BY <1>2 DEF ReadCurrentRoles
  <2> HIDE DEF new
  <2> QED BY <1>0, <2>1, <2>2
<1>3. CASE AssignUserRoles(a)
  <2>1. /\ j.target \in Users /\ j.want \subseteq Roles /\ j.seen \subseteq Roles
        /\ j.want \in SUBSET (Roles \cup Perms) /\ j.seen \in SUBSET (Roles \cup Perms)
    BY <1>0, <1>3 DEF AssignUserRoles, JobShape
  <2>2. TablesTypeOK'
    BY <1>3, <2>1, TableOps DEF AssignUserRoles
  <2>3. CASE Step(a, IdleJob) /\ OutdateForGood(a, {j.target})
    BY <1>0, <2>1, <2>2, <2>3, BookkeepingTyped
  <2>4. CASE j.op = "UserAssignRoles"
             /\ Committed(a, {j.target}, [j EXCEPT !.pc = "invalidate"])
    <3> DEFINE new == [j EXCEPT !.pc = "invalidate"]
    <3>1. new \in Job /\ JobShape(new)
      BY <1>0, <2>1 DEF Job, JobSteps, JobShape
    <3>2. Committed(a, {j.target}, new) /\ {j.target} \in SUBSET Users
      BY <2>1, <2>4
    <3> HIDE DEF new
    <3> QED BY <1>0, <2>2, <3>1, <3>2
  <2> QED BY <1>3, <2>3, <2>4 DEF AssignUserRoles
<1>4. CASE ReadCurrentPerms(a)
  <2> DEFINE new == [j EXCEPT !.pc = "assignPerms", !.seen = PermIdsOf(j.target)]
  <2>1. new \in Job /\ JobShape(new)
    BY <1>0, <1>4 DEF ReadCurrentPerms, PermIdsOf, Job, JobSteps, JobShape
  <2>2. Step(a, new) /\ NoCacheEffect /\ UNCHANGED tables
    BY <1>4 DEF ReadCurrentPerms
  <2> HIDE DEF new
  <2> QED BY <1>0, <2>1, <2>2
<1>5. CASE AssignRolePermissions(a)
  <2>1. /\ j.target \in Roles /\ j.want \subseteq Perms /\ j.seen \subseteq Perms
        /\ j.want \in SUBSET (Roles \cup Perms) /\ j.seen \in SUBSET (Roles \cup Perms)
    BY <1>0, <1>5 DEF AssignRolePermissions, JobShape
  <2>2. TablesTypeOK'
    BY <1>5, <2>1, TableOps DEF AssignRolePermissions
  <2> DEFINE new == [j EXCEPT !.pc = "retrieve"]
  <2>3. new \in Job /\ JobShape(new)
    BY <1>0, <1>5 DEF AssignRolePermissions, Job, JobSteps, JobShape
  <2>4. Committed(a, Users, new)
    BY <1>5 DEF AssignRolePermissions
  <2> HIDE DEF new
  <2> QED BY <1>0, <2>2, <2>3, <2>4
<1>6. CASE RetrieveRolePerms(a)
  <2> DEFINE new == [j EXCEPT !.pc = "invalidate"]
  <2>1. new \in Job /\ JobShape(new)
    BY <1>0, <1>6 DEF RetrieveRolePerms, Job, JobSteps, JobShape
  <2>2. Step(a, new) /\ NoCacheEffect /\ UNCHANGED tables
    BY <1>6 DEF RetrieveRolePerms
  <2> HIDE DEF new
  <2> QED BY <1>0, <2>1, <2>2
<1>7. ASSUME NEW r \in Roles, NEW ps \in SUBSET Perms, CreateRole(a, r, ps)
      PROVE  TypeInv'
  <2> DEFINE left == j.want \ {r}
             new == [j EXCEPT !.want = left,
                              !.pc = IF left = {} THEN "invalidate" ELSE "createRole"]
  <2>1. new \in Job /\ JobShape(new)
    BY <1>0, <1>7 DEF CreateRole, Job, JobSteps, JobShape
  <2>2. Committed(a, Users, new)
    BY <1>7 DEF CreateRole
  <2>3. TablesTypeOK'
    BY <1>7, TableOps DEF CreateRole
  <2> HIDE DEF new
  <2> QED BY <1>0, <2>1, <2>2, <2>3
<1>8. ASSUME NEW r \in Roles, FindRole(a, r)
      PROVE  TypeInv'
  <2> DEFINE new == [j EXCEPT !.pc = "deleteRole", !.target = r, !.want = @ \ {r}]
  <2>1. new \in Job /\ JobShape(new)
    BY <1>0, <1>8 DEF FindRole, Job, JobSteps, JobShape
  <2>2. Step(a, new) /\ NoCacheEffect /\ UNCHANGED tables
    BY <1>8 DEF FindRole
  <2> HIDE DEF new
  <2> QED BY <1>0, <2>1, <2>2
<1>9. ASSUME NEW r \in Roles, FindRoleFails(a, r)
      PROVE  TypeInv'
  <2> DEFINE new == [j EXCEPT !.want = @ \ {r}, !.failed = TRUE]
  <2>1. new \in Job /\ JobShape(new)
    BY <1>0, <1>9 DEF FindRoleFails, Job, JobSteps, JobShape
  <2>2. Step(a, new) /\ NoCacheEffect /\ UNCHANGED tables
    BY <1>9 DEF FindRoleFails
  <2> HIDE DEF new
  <2> QED BY <1>0, <2>1, <2>2
<1>10. ASSUME NEW acked \in BOOLEAN, DeleteRole(a, acked)
       PROVE  TypeInv'
  <2> DEFINE failed == j.failed \/ ~ acked
             new == [j EXCEPT !.pc = "findRole", !.failed = failed]
  <2>1. failed \in BOOLEAN
    BY Zenon
  <2>2. Step(a, new) /\ Outdate(a, Users)
    BY <1>10 DEF DeleteRole
  <2>3. TablesTypeOK'
    BY <1>0, <1>10, TableOps DEF DeleteRole, JobShape
  <2> HIDE DEF failed
  <2>4. new \in Job /\ JobShape(new)
    BY <1>0, <1>10, <2>1 DEF DeleteRole, Job, JobSteps, JobShape
  <2> HIDE DEF new
  <2> QED BY <1>0, <2>2, <2>3, <2>4
<1>11. CASE DeleteRoleFails(a)
  <2> DEFINE new == [j EXCEPT !.pc = "findRole", !.failed = TRUE]
  <2>1. new \in Job /\ JobShape(new)
    BY <1>0, <1>11 DEF DeleteRoleFails, Job, JobSteps, JobShape
  <2>2. Step(a, new) /\ NoCacheEffect /\ UNCHANGED tables
    BY <1>11 DEF DeleteRoleFails
  <2> HIDE DEF new
  <2> QED BY <1>0, <2>1, <2>2
<1>12. CASE EndDeleteRole(a)
  <2>1. UNCHANGED tables
    BY <1>12 DEF EndDeleteRole
  <2>2. CASE Step(a, IdleJob) /\ owed' = [owed EXCEPT ![a] = {}]
             /\ excused' = excused \cup owed[a] /\ UNCHANGED <<cache, req, tainted>>
    BY <1>0, <2>1, <2>2 DEF CacheTyped, RequestsTyped, HistoryTyped
  <2> DEFINE new == [j EXCEPT !.pc = "invalidate"]
  <2>3. CASE Step(a, new) /\ NoCacheEffect
    <3>1. new \in Job /\ JobShape(new)
      BY <1>0, <1>12 DEF EndDeleteRole, Job, JobSteps, JobShape
    <3> HIDE DEF new
    <3> QED BY <1>0, <2>1, <2>3, <3>1
  <2> QED BY <1>12, <2>2, <2>3 DEF EndDeleteRole
<1>13. ASSUME NEW ids \in SUBSET Perms, NEW new \in [ids -> Row], CreatePermission(a, new)
       PROVE  TypeInv'
  <2> DEFINE next == [j EXCEPT !.pc = "invalidate"]
  <2>1. next \in Job /\ JobShape(next)
    BY <1>0, <1>13 DEF CreatePermission, Job, JobSteps, JobShape
  <2>2. Committed(a, Users, next)
    BY <1>13 DEF CreatePermission
  <2>3. TablesTypeOK'
    BY <1>13, TableOps DEF CreatePermission
  <2> HIDE DEF next
  <2> QED BY <1>0, <2>1, <2>2, <2>3
<1>14. ASSUME NEW ids \in SUBSET Perms, DeletePermission(a, ids)
       PROVE  TypeInv'
  <2> DEFINE new == [j EXCEPT !.pc = "invalidate"]
  <2>1. new \in Job /\ JobShape(new)
    BY <1>0, <1>14 DEF DeletePermission, Job, JobSteps, JobShape
  <2>2. Committed(a, Users, new)
    BY <1>14 DEF DeletePermission
  <2>3. TablesTypeOK'
    BY <1>14, TableOps DEF DeletePermission
  <2> HIDE DEF new
  <2> QED BY <1>0, <2>1, <2>2, <2>3
<1>15. CASE UpdatePermission(a)
  <2> DEFINE new == [j EXCEPT !.pc = "invalidate"]
  <2>1. new \in Job /\ JobShape(new)
    BY <1>0, <1>15 DEF UpdatePermission, Job, JobSteps, JobShape
  <2>2. Committed(a, Users, new)
    BY <1>15 DEF UpdatePermission
  <2>3. j.target \in Perms /\ j.row \in Row
    BY <1>0, <1>15 DEF UpdatePermission, JobShape, Job
  <2>4. TablesTypeOK'
    BY <1>15, <2>3, TableOps DEF UpdatePermission
  <2> HIDE DEF new
  <2> QED BY <1>0, <2>1, <2>2, <2>4
<1>16. CASE Invalidate(a)
  <2>1. TablesTypeOK' /\ JobsTyped' /\ RequestsTyped'
    BY <1>0, <1>16 DEF Invalidate, RequestsTyped
  <2>2. CacheTyped'
    BY <1>16 DEF Invalidate, CacheTyped, Without, EmptyMap
  <2>3. HistoryTyped'
    BY <1>16 DEF Invalidate, HistoryTyped
  <2> QED BY <2>1, <2>2, <2>3
<1> QED
  BY <1>1, <1>2, <1>3, <1>4, <1>5, <1>6, <1>7, <1>8, <1>9, <1>10, <1>11, <1>12, <1>13,
     <1>14, <1>15, <1>16 DEF JobStep

LEMMA NextTyped == TypeInv /\ [Next]_vars => TypeInv'
<1> SUFFICES ASSUME TypeInv, [Next]_vars PROVE TypeInv'
  OBVIOUS
<1>1. CASE Tick
  <2>1. TablesTypeOK' /\ JobsTyped' /\ RequestsTyped' /\ HistoryTyped'
    BY <1>1, TableOps DEF Tick, TypeInv, JobsTyped, RequestsTyped, HistoryTyped
  <2>2. CacheTyped'
    BY <1>1, AgedTyped DEF Tick, TypeInv, CacheTyped
  <2> QED BY <2>1, <2>2 DEF TypeInv
<1>2. CASE UNCHANGED vars
  BY <1>2, TableOps DEF vars, tables, TypeInv, JobsTyped, CacheTyped, RequestsTyped, HistoryTyped
<1> QED BY <1>1, <1>2, RequestTyped, JobBeginTyped, JobStepTyped DEF Next

\* Whatever the calls do, every variable keeps its type.
THEOREM Typing == Spec => []TypeOK
<1>1. TypeInv => TypeOK
  BY DEF TypeInv, TypeOK, JobsTyped, CacheTyped, RequestsTyped, HistoryTyped
<1> QED BY <1>1, InitTyped, NextTyped, PTL DEF Spec

-----------------------------------------------------------------------------
(* Assignments: what a transaction makes of rows that are not the ones its *)
(* lists were computed from.                                               *)

LEMMA DiffAccounts ==
    ASSUME NEW before, NEW j, NEW after, after = DiffApplied(before, j.seen, j.want)
    PROVE  AccountsFor(j, before, after)
BY DEF DiffApplied, AccountsFor

\* A step of one call leaves every other call where it is.
LEMMA OthersWait ==
    ASSUME NEW a \in Admins, NEW b \in Admins, a # b, JobBegin(b) \/ JobStep(b),
           job \in [Admins -> Job]
    PROVE  job'[a] = job[a]
<1>1. ASSUME NEW new, Step(b, new) PROVE job'[a] = job[a]
  BY <1>1 DEF Step
<1>2. ASSUME NEW h, NEW new, Begin(b, h, new) PROVE job'[a] = job[a]
  BY <1>2 DEF Begin
<1>3. ASSUME NEW scope, NEW new, Committed(b, scope, new) PROVE job'[a] = job[a]
  BY <1>1, <1>3 DEF Committed
<1>4. CASE JobBegin(b)
  BY <1>2, <1>4 DEF JobBegin, BeginAssignRoles, BeginUpdateRole, BeginCreateRole, BeginDeleteRole,
     BeginPermissions, BeginUpdatePermission
<1>5. CASE JobStep(b)
  <2>1. CASE JobFails(b) \/ ReadCurrentRoles(b) \/ ReadCurrentPerms(b) \/ RetrieveRolePerms(b)
             \/ DeleteRoleFails(b) \/ EndDeleteRole(b) \/ Invalidate(b)
    BY <1>1, <2>1 DEF JobFails, ReadCurrentRoles, ReadCurrentPerms, RetrieveRolePerms,
       DeleteRoleFails, EndDeleteRole, Invalidate
  <2>2. CASE AssignUserRoles(b) \/ AssignRolePermissions(b) \/ UpdatePermission(b)
    BY <1>1, <1>3, <2>2 DEF AssignUserRoles, AssignRolePermissions, UpdatePermission
  <2>3. ASSUME NEW r, NEW ps, CreateRole(b, r, ps) \/ FindRole(b, r) \/ FindRoleFails(b, r)
        PROVE  job'[a] = job[a]
    BY <1>1, <1>3, <2>3 DEF CreateRole, FindRole, FindRoleFails
  <2>4. ASSUME NEW acked, DeleteRole(b, acked) PROVE job'[a] = job[a]
    BY <1>1, <2>4 DEF DeleteRole
  <2>5. ASSUME NEW ids, NEW new, CreatePermission(b, new) \/ DeletePermission(b, ids)
        PROVE  job'[a] = job[a]
    BY <1>3, <2>5 DEF CreatePermission, DeletePermission
  <2> QED BY <1>5, <2>1, <2>2, <2>3, <2>4, <2>5 DEF JobStep
<1> QED BY <1>4, <1>5

\* A call that stands before its transaction goes on by it, or fails.
LEMMA NextOfAssignment ==
    ASSUME TypeInv, [Next]_vars, NEW a \in Admins, job'[a] # job[a],
           job[a].pc \in {"assignRoles", "assignPerms"}
    PROVE  JobFails(a) \/ AssignUserRoles(a) \/ AssignRolePermissions(a)
<1>1. UNCHANGED job \/ \E b \in Admins : JobBegin(b) \/ JobStep(b)
  <2>1. CASE UNCHANGED vars
    BY <2>1 DEF vars
  <2>2. ASSUME NEW q \in Requests, RequestNext(q) PROVE UNCHANGED job
    BY <2>2 DEF RequestNext, RequestStep, LookupMiss, LookupExpired, ReapExpired, ReadUserRoles,
       ReadRoles, ReadRolePerms, ReadPermRows, ReadTree, StoreEntry, LoadFails, Advance
  <2>3. CASE Tick
    BY <2>3 DEF Tick
  <2> QED BY <2>1, <2>2, <2>3 DEF Next
<1>2. JobBegin(a) \/ JobStep(a)
  BY <1>1, OthersWait DEF TypeInv, JobsTyped
<1>3. ~ JobBegin(a)
  BY DEF JobBegin, BeginAssignRoles, BeginUpdateRole, BeginCreateRole, BeginDeleteRole,
     BeginPermissions, BeginUpdatePermission, Begin
<1> QED BY <1>2, <1>3 DEF JobStep, ReadCurrentRoles, ReadCurrentPerms, RetrieveRolePerms, CreateRole,
     FindRole, FindRoleFails, DeleteRole, DeleteRoleFails, EndDeleteRole, CreatePermission,
     DeletePermission, UpdatePermission, Invalidate

LEMMA RolesAccounted ==
    ASSUME TypeInv, [Next]_vars, NEW a \in Admins, NEW u \in Users,
           job[a].pc = "assignRoles", job[a].target = u,
           job'[a].pc = "invalidate" \/ (job'[a] # job[a] /\ userRoles' # userRoles)
    PROVE  AccountsFor(job[a], RoleIdsOf(u), RoleIdsOf(u)')
<1>1. AssignUserRoles(a)
  <2>1. JobFails(a) => UNCHANGED userRoles /\ job'[a].pc = "idle"
    BY DEF JobFails, Step, tables, IdleJob, TypeInv, JobsTyped
  <2>2. ~ AssignRolePermissions(a)
    BY DEF AssignRolePermissions
  <2> QED BY <2>1, <2>2, NextOfAssignment
<1>2. job[a].seen \subseteq Roles /\ job[a].want \subseteq Roles
  BY DEF TypeInv, JobsTyped, JobShape
<1>3. RoleIdsOf(u)' = DiffApplied(RoleIdsOf(u), job[a].seen, job[a].want)
  BY <1>1, <1>2 DEF AssignUserRoles, AssignUserRolesTx, RoleIdsOf, DiffApplied
<1> QED BY <1>3, DiffAccounts

LEMMA PermsAccounted ==
    ASSUME TypeInv, [Next]_vars, NEW a \in Admins, NEW r \in Roles,
           job[a].pc = "assignPerms", job[a].target = r,
           job'[a].pc = "retrieve" \/ (job'[a] # job[a] /\ rolePerms' # rolePerms)
    PROVE  AccountsFor(job[a], PermIdsOf(r), PermIdsOf(r)')
<1>1. AssignRolePermissions(a)
  <2>1. JobFails(a) => UNCHANGED rolePerms /\ job'[a].pc = "idle"
    BY DEF JobFails, Step, tables, IdleJob, TypeInv, JobsTyped
  <2>2. ~ AssignUserRoles(a)
    BY DEF AssignUserRoles
  <2> QED BY <2>1, <2>2, NextOfAssignment
<1>2. job[a].seen \subseteq Perms /\ job[a].want \subseteq Perms
  BY DEF TypeInv, JobsTyped, JobShape
<1>3. PermIdsOf(r)' = DiffApplied(PermIdsOf(r), job[a].seen, job[a].want)
  BY <1>1, <1>2 DEF AssignRolePermissions, AssignRolePermissionsTx, PermIdsOf, DiffApplied
<1> QED BY <1>3, DiffAccounts

\* Whatever a commit of an assignment leaves that was not asked for, or lacks that was, is
\* somebody else's work since the rows were read.
THEOREM AssignmentsAccountForRows == Spec => AssignmentAccountsForRows
<1>1. TypeInv /\ [Next]_vars =>
        [\A a \in Admins :
            /\ \A u \in Users :
                /\ job[a].pc = "assignRoles" /\ job[a].target = u
                /\ job'[a].pc = "invalidate" \/ (job'[a] # job[a] /\ userRoles' # userRoles)
                => AccountsFor(job[a], RoleIdsOf(u), RoleIdsOf(u)')
            /\ \A r \in Roles :
                /\ job[a].pc = "assignPerms" /\ job[a].target = r
                /\ job'[a].pc = "retrieve" \/ (job'[a] # job[a] /\ rolePerms' # rolePerms)
                => AccountsFor(job[a], PermIdsOf(r), PermIdsOf(r)')
          ]_vars
  BY RolesAccounted, PermsAccounted
<1> QED BY <1>1, InitTyped, NextTyped, PTL DEF Spec, AssignmentAccountsForRows

-----------------------------------------------------------------------------
(* The cache.                                                              *)


\* Between calls nothing is owed, and an assignment owes its own user's entry only.
OwedShape ==
    \A a \in Admins :
        /\ job[a].pc = "idle" => owed[a] = {}
        /\ job[a].op = "UserAssignRoles" => owed[a] \subseteq {job[a].target}

CacheInv == TypeInv /\ OwedShape /\ LoadedExact /\ CachedExact

-----------------------------------------------------------------------------
(* Facts about the queries.                                                *)

\* Rows are determined by their id, so merging two query results loses nothing.
LEMMA MergeIsUnion ==
    ASSUME NEW S, NEW T, NEW got, NEW rows, got \subseteq RowsOf(S), rows \subseteq RowsOf(T)
    PROVE  Merge(got, rows) = got \cup rows
<1>1. ASSUME NEW x \in rows, NEW y \in got, x.id = y.id
      PROVE  x = y
  BY <1>1 DEF RowsOf
<1> QED BY <1>1 DEF Merge, IdsOf

\* The forest below a set of ids: it starts with the ids that exist, and no other ids count.
LEMMA TreeFacts ==
    ASSUME NEW S
    PROVE  /\ TreeOf(S) \subseteq DOMAIN perms
           /\ S \cap DOMAIN perms \subseteq TreeOf(S)
           /\ S \cap DOMAIN perms = {} => TreeOf(S) = {}
           /\ TreeOf(S \cap DOMAIN perms) = TreeOf(S)
<1>1. TreeOf(S) \subseteq DOMAIN perms /\ S \cap DOMAIN perms \subseteq TreeOf(S)
  BY DEF TreeOf
<1>2. ASSUME S \cap DOMAIN perms = {} PROVE TreeOf(S) = {}
  <2>1. (S \cap DOMAIN perms) \cup ChildrenOf({}) \subseteq {}
    BY <1>2 DEF ChildrenOf
  <2> QED BY <2>1 DEF TreeOf
<1>3. TreeOf(S \cap DOMAIN perms) = TreeOf(S)
  <2>1. (S \cap DOMAIN perms) \cap DOMAIN perms = S \cap DOMAIN perms
    OBVIOUS
  <2> QED BY <2>1 DEF TreeOf
<1> QED BY <1>1, <1>2, <1>3

\* The rows found determine the ids they were found for.
LEMMA IdsOfRows ==
    ASSUME NEW S
    PROVE  /\ IdsOf(RowsOf(S)) = S \cap DOMAIN perms
           /\ RowsOf(S) = {} => S \cap DOMAIN perms = {}
           /\ S \cap DOMAIN perms = {} => RowsOf(S) = {}
           /\ \A T : S \cap DOMAIN perms \subseteq T => RowsOf(S) \subseteq RowsOf(T)
<1>1. IdsOf(RowsOf(S)) = S \cap DOMAIN perms
  <2>1. ASSUME NEW p \in S \cap DOMAIN perms PROVE p \in IdsOf(RowsOf(S))
    <3>1. [id |-> p, key |-> perms[p].key] \in RowsOf(S)
      BY DEF RowsOf
    <3> QED BY <3>1 DEF IdsOf
  <2>2. ASSUME NEW p \in IdsOf(RowsOf(S)) PROVE p \in S \cap DOMAIN perms
    BY DEF IdsOf, RowsOf
  <2> QED BY <2>1, <2>2
<1>2. RowsOf(S) = {} => S \cap DOMAIN perms = {}
  BY DEF RowsOf
<1>3. S \cap DOMAIN perms = {} => RowsOf(S) = {}
  BY DEF RowsOf
<1>4. \A T : S \cap DOMAIN perms \subseteq T => RowsOf(S) \subseteq RowsOf(T)
  BY DEF RowsOf
<1> QED BY <1>1, <1>2, <1>3, <1>4

\* A user without permissions of his own is entitled to nothing.
LEMMA NothingGranted ==
    ASSUME NEW u, RowsOf(DirectPerms(u)) = {}
    PROVE  KeysOf({}) = Effective(u)
<1>1. TreeOf(DirectPerms(u)) = {}
  BY TreeFacts, IdsOfRows
<1>2. RowsOf({}) = {}
  BY DEF RowsOf
<1> QED BY <1>1, <1>2 DEF Effective

\* One role more is one query result more.
LEMMA GrantedByFacts ==
    ASSUME NEW R, NEW r
    PROVE  /\ GrantedBy({}) = {}
           /\ GrantedBy(R \cup {r}) = GrantedBy(R) \cup RowsOf(PermIdsOf(r))
           /\ \A u : GrantedBy(RoleIdsOf(u) \cap roles) = RowsOf(DirectPerms(u))
<1>1. GrantedBy({}) = {}
  BY DEF GrantedBy, RowsOf
<1>2. GrantedBy(R \cup {r}) = GrantedBy(R) \cup RowsOf(PermIdsOf(r))
  <2>1. UNION {PermIdsOf(x) : x \in R \cup {r}}
            = (UNION {PermIdsOf(x) : x \in R}) \cup PermIdsOf(r)
    OBVIOUS
  <2>2. \A S, T : RowsOf(S \cup T) = RowsOf(S) \cup RowsOf(T)
    BY DEF RowsOf
  <2> QED BY <2>1, <2>2 DEF GrantedBy
<1>3. \A u : GrantedBy(RoleIdsOf(u) \cap roles) = RowsOf(DirectPerms(u))
  BY DEF GrantedBy, DirectPerms
<1> QED BY <1>1, <1>2, <1>3

-----------------------------------------------------------------------------
(* What does not concern a user leaves alone what is true of him.          *)

LEMMA EffectiveFrame ==
    ASSUME NEW u, RoleIdsOf(u)' = RoleIdsOf(u), UNCHANGED <<roles, rolePerms, perms>>
    PROVE  DirectPerms(u)' = DirectPerms(u) /\ Effective(u)' = Effective(u)
<1>1. \A S : RowsOf(S)' = RowsOf(S)
  BY DEF RowsOf
<1>2. \A S : TreeOf(S)' = TreeOf(S)
  BY DEF TreeOf, ChildrenOf
<1>3. DirectPerms(u)' = DirectPerms(u)
  BY DEF DirectPerms, PermIdsOf
<1> QED BY <1>1, <1>2, <1>3 DEF Effective

LEMMA AccurateFrame ==
    ASSUME NEW x, RoleIdsOf(x.user)' = RoleIdsOf(x.user), UNCHANGED <<roles, rolePerms, perms>>
    PROVE  Accurate(x) => Accurate(x)'
<1>1. \A S : RowsOf(S)' = RowsOf(S)
  BY DEF RowsOf
<1>2. \A R : GrantedBy(R)' = GrantedBy(R)
  BY DEF GrantedBy, PermIdsOf, RowsOf
<1> QED BY <1>1, <1>2, EffectiveFrame DEF Accurate

LEMMA TablesFrame ==
    ASSUME UNCHANGED tables
    PROVE  /\ \A x : Accurate(x) => Accurate(x)'
           /\ \A u : Effective(u)' = Effective(u)
<1>1. UNCHANGED <<roles, rolePerms, perms>> /\ \A u : RoleIdsOf(u)' = RoleIdsOf(u)
  BY DEF tables, RoleIdsOf
<1> QED BY <1>1, AccurateFrame, EffectiveFrame

\* A request that has not read anything yet cannot be wrong.
LEMMA NotReadYet ==
    ASSUME NEW x, x.pc \in {"idle", "reap", "userRoles"}
    PROVE  Accurate(x) /\ Accurate(x)'
BY DEF Accurate

-----------------------------------------------------------------------------
(* Requests.                                                               *)

\* One request moves, exactly as before or newly exact; the rest is frame.
LEMMA OneRequestMoves ==
    ASSUME CacheInv, NEW q \in Requests, NEW new, UNCHANGED <<tables, job>>,
           req' = [req EXCEPT ![q] = new], tainted' \ {q} = tainted \ {q},
           q \notin tainted' => Accurate(new)
    PROVE  LoadedExact'
<1>1. ASSUME NEW p \in Requests, p \notin tainted'
      PROVE  \A x \in {req'[p]} : Accurate(x)'
  <2>1. CASE p = q
    <3>1. req'[p] = new /\ Accurate(new)'
      BY <1>1, <2>1, TablesFrame DEF CacheInv, TypeInv, RequestsTyped
    <3> QED BY <3>1
  <2>2. CASE p # q
    <3>1. req'[p] = req[p] /\ p \notin tainted
      BY <1>1, <2>2 DEF CacheInv, TypeInv, RequestsTyped
    <3>2. \A x \in {req[p]} : Accurate(x)
      BY <3>1 DEF CacheInv, LoadedExact
    <3> QED BY <3>1, <3>2, TablesFrame
  <2> QED BY <2>1, <2>2
<1> QED BY <1>1 DEF LoadedExact

\* While tables, entries and debts stay, so does what is said of them.
LEMMA EntriesFrame ==
    ASSUME CacheInv, UNCHANGED <<tables, cache, job, owed, excused>>
    PROVE  OwedShape' /\ CachedExact'
BY TablesFrame DEF CacheInv, OwedShape, CachedExact

LEMMA AdvanceExact ==
    ASSUME CacheInv, NEW q \in Requests, NEW pc, NEW ids, NEW todo, NEW got,
           Advance(q, pc, ids, todo, got),
           q \notin tainted => Accurate([pc |-> pc, user |-> req[q].user,
                                         ids |-> ids, todo |-> todo, got |-> got])
    PROVE  OwedShape' /\ LoadedExact' /\ CachedExact'
BY OneRequestMoves, EntriesFrame DEF Advance

LEMMA StoreExact ==
    ASSUME CacheInv, NEW q \in Requests, StoreEntry(q)
    PROVE  OwedShape' /\ LoadedExact' /\ CachedExact'
<1> DEFINE u == req[q].user
           new == Set(cache, u, KeysOf(req[q].got), TTL)
<1>1. TTL \in Nat /\ TTL > 0
  BY TTLAssumption
<1>2. /\ new = Cleanup(With(cache, u, Entry(KeysOf(req[q].got), TTL)))
      /\ cache' = new
  BY <1>1 DEF Set, SetWithTTL, StoreEntry
<1>3. /\ new[u].val = KeysOf(req[q].got)
      /\ \A v \in DOMAIN new \ {u} : v \in DOMAIN cache /\ new[v] = cache[v]
  <2> DEFINE w == With(cache, u, Entry(KeysOf(req[q].got), TTL))
  <2>1. /\ u \in DOMAIN w /\ w[u] = Entry(KeysOf(req[q].got), TTL)
        /\ \A v \in DOMAIN w \ {u} : v \in DOMAIN cache /\ w[v] = cache[v]
    BY DEF With
  <2>2. u \in LiveKeys(w)
    BY <1>1, <2>1 DEF LiveKeys, Expired, Entry
  <2>3. Cleanup(w) = [k \in LiveKeys(w) |-> w[k]] /\ LiveKeys(w) \subseteq DOMAIN w
    BY DEF Cleanup, LiveKeys
  <2>4. Entry(KeysOf(req[q].got), TTL).val = KeysOf(req[q].got)
    BY DEF Entry
  <2>5. new = Cleanup(w)
    BY <1>2
  <2> HIDE DEF w, new
  <2>6. DOMAIN new \subseteq DOMAIN w /\ \A v \in DOMAIN new : new[v] = w[v]
    BY <2>3, <2>5
  <2>7. u \in DOMAIN new
    BY <2>2, <2>3, <2>5
  <2> QED BY <2>1, <2>4, <2>6, <2>7
<1> HIDE DEF new
<1>4. LoadedExact'
  <2>1. Accurate(IdleRequest)
    BY NotReadYet DEF IdleRequest
  <2> QED BY <2>1, OneRequestMoves DEF StoreEntry
<1>5. OwedShape'
  BY DEF StoreEntry, CacheInv, TypeInv, HistoryTyped, OwedShape
<1>6. ASSUME NEW v \in DOMAIN cache'
      PROVE  \/ cache'[v].val = Effective(v)'
             \/ \E a \in Admins : job'[a].pc # "idle" /\ v \in owed'[a]
             \/ v \in excused'
  <2>1. Effective(v)' = Effective(v) /\ UNCHANGED job
    BY TablesFrame DEF StoreEntry
  <2>2. CASE v = u /\ q \in tainted
    BY <1>6, <2>2 DEF StoreEntry
  <2>3. CASE v = u /\ q \notin tainted
    <3>1. Accurate(req[q]) /\ req[q].pc = "store"
      BY <2>3 DEF StoreEntry, CacheInv, LoadedExact
    <3>2. KeysOf(req[q].got) = Effective(u)
      BY <3>1 DEF Accurate
    <3> QED BY <1>2, <1>3, <2>1, <2>3, <3>2
  <2>4. CASE v # u
    <3>1. v \in DOMAIN cache /\ cache'[v] = cache[v]
      BY <1>2, <1>3, <1>6, <2>4
    <3>2. \/ cache[v].val = Effective(v)
          \/ \E a \in Admins : job[a].pc # "idle" /\ v \in owed[a]
          \/ v \in excused
      BY <3>1 DEF CacheInv, CachedExact
    <3>3. ASSUME NEW a \in Admins, v \in owed[a]
          PROVE  v \in owed'[a]
      BY <1>6, <2>4, <3>3 DEF StoreEntry
    <3>4. v \in excused => v \in excused'
      BY <1>6, <2>4 DEF StoreEntry
    <3> QED BY <2>1, <3>1, <3>2, <3>3, <3>4
  <2> QED BY <2>2, <2>3, <2>4
<1> QED BY <1>4, <1>5, <1>6 DEF CachedExact

LEMMA ReapExact ==
    ASSUME CacheInv, NEW q \in Requests, ReapExpired(q)
    PROVE  OwedShape' /\ LoadedExact' /\ CachedExact'
<1> DEFINE new == [IdleRequest EXCEPT !.pc = "userRoles", !.user = req[q].user]
<1>1. new.pc = "userRoles" /\ req' = [req EXCEPT ![q] = new]
  BY DEF IdleRequest, ReapExpired, StartLoading
<1> HIDE DEF new
<1>2. LoadedExact'
  <2>1. Accurate(new)
    BY <1>1, NotReadYet
  <2> QED BY <1>1, <2>1, OneRequestMoves DEF ReapExpired, StartLoading
<1>3. OwedShape'
  BY DEF ReapExpired, ForgetAbsent, CacheInv, TypeInv, HistoryTyped, OwedShape
<1>4. DOMAIN cache' \subseteq DOMAIN cache /\ \A v \in DOMAIN cache' : cache'[v] = cache[v]
  BY DEF ReapExpired, Without
<1>5. \A u : Effective(u)' = Effective(u)
  BY TablesFrame DEF ReapExpired
<1>6. CachedExact'
  BY <1>4, <1>5 DEF ReapExpired, ForgetAbsent, CacheInv, CachedExact
<1> QED BY <1>2, <1>3, <1>6

LEMMA RequestExact ==
    ASSUME CacheInv, NEW q \in Requests, RequestNext(q)
    PROVE  OwedShape' /\ LoadedExact' /\ CachedExact'
<1> DEFINE u == req[q].user
           mine == RoleIdsOf(u) \cap roles
<1>0. q \notin tainted => Accurate(req[q])
  BY DEF CacheInv, LoadedExact
<1>1. ASSUME NEW v \in Users, LookupMiss(q, v)
      PROVE  OwedShape' /\ LoadedExact' /\ CachedExact'
  <2> DEFINE new == [IdleRequest EXCEPT !.pc = "userRoles", !.user = v]
  <2>1. new.pc = "userRoles" /\ req' = [req EXCEPT ![q] = new]
    BY <1>1 DEF IdleRequest, LookupMiss, StartLoading
  <2> HIDE DEF new
  <2>2. Accurate(new)
    BY <2>1, NotReadYet
  <2> QED BY <1>1, <2>1, <2>2, OneRequestMoves, EntriesFrame DEF LookupMiss, StartLoading
<1>2. ASSUME NEW v \in Users, LookupExpired(q, v)
      PROVE  OwedShape' /\ LoadedExact' /\ CachedExact'
  <2> DEFINE new == [IdleRequest EXCEPT !.pc = "reap", !.user = v]
  <2>1. new.pc = "reap" /\ req' = [req EXCEPT ![q] = new]
    BY <1>2 DEF IdleRequest, LookupExpired
  <2> HIDE DEF new
  <2>2. Accurate(new)
    BY <2>1, NotReadYet
  <2> QED BY <1>2, <2>1, <2>2, OneRequestMoves, EntriesFrame DEF LookupExpired
<1>3. CASE ReadUserRoles(q)
  <2> DEFINE ids == RoleIdsOf(u)
             new == [pc |-> IF ids = {} THEN "store" ELSE "roles", user |-> u,
                     ids |-> ids, todo |-> {}, got |-> {}]
  <2>1. ids = {} => DirectPerms(u) = {}
    BY DEF DirectPerms
  <2>2. ids = {} => KeysOf({}) = Effective(u)
    BY <2>1, IdsOfRows, NothingGranted
  <2>3. Accurate(new)
    BY <2>2 DEF Accurate
  <2> QED BY <1>3, <2>3, AdvanceExact DEF ReadUserRoles
<1>4. CASE ReadRoles(q)
  <2> DEFINE found == req[q].ids \cap roles
             new == [pc |-> IF found = {} THEN "store" ELSE "rolePerms", user |-> u,
                     ids |-> {}, todo |-> found, got |-> {}]
  <2>1. q \notin tainted => found = mine
    BY <1>0, <1>4 DEF ReadRoles, Accurate
  <2>2. mine = {} => KeysOf({}) = Effective(u)
    <3>1. mine = {} => DirectPerms(u) = {}
      BY DEF DirectPerms
    <3> QED BY <3>1, IdsOfRows, NothingGranted
  <2>3. GrantedBy(mine \ mine) = {}
    BY GrantedByFacts
  <2>4. q \notin tainted => Accurate(new)
    BY <2>1, <2>2, <2>3 DEF Accurate
  <2> QED BY <1>4, <2>4, AdvanceExact DEF ReadRoles
<1>5. ASSUME NEW r \in Roles, ReadRolePerms(q, r)
      PROVE  OwedShape' /\ LoadedExact' /\ CachedExact'
  <2> DEFINE ids == PermIdsOf(r)
             todo == req[q].todo \ {r}
             got == req[q].got
             pc == IF ids = {} THEN AfterRole(todo, got) ELSE "permRows"
             new == [pc |-> pc, user |-> u, ids |-> ids, todo |-> todo, got |-> got]
  <2>1. ASSUME q \notin tainted PROVE Accurate(new)
    <3>1. todo \subseteq mine /\ got = GrantedBy(mine \ req[q].todo) /\ r \in mine
      BY <1>0, <1>5, <2>1 DEF ReadRolePerms, Accurate
    <3>2. mine \ todo = (mine \ req[q].todo) \cup {r}
      BY <1>5, <3>1 DEF ReadRolePerms
    <3>3. GrantedBy(mine \ todo) = got \cup RowsOf(ids)
      BY <3>1, <3>2, GrantedByFacts
    <3>4. RowsOf({}) = {} /\ mine \ {} = mine
      BY DEF RowsOf
    <3>5. todo = {} => GrantedBy(mine \ todo) = RowsOf(DirectPerms(u))
      BY <3>4, GrantedByFacts
    <3> HIDE DEF mine, ids, todo, got
    <3>6. CASE ids # {}
      BY <3>1, <3>3, <3>6 DEF Accurate, mine
    <3>7. CASE ids = {}
      <4>1. GrantedBy(mine \ todo) = got
        BY <3>3, <3>4, <3>7
      <4>2. todo = {} /\ got = {} => KeysOf(got) = Effective(u)
        BY <3>5, <4>1, NothingGranted
      <4> QED BY <3>1, <3>5, <3>7, <4>1, <4>2 DEF Accurate, AfterRole, mine
    <3> QED BY <3>6, <3>7
  <2>2. Advance(q, pc, ids, todo, got)
    BY <1>5 DEF ReadRolePerms
  <2> HIDE DEF pc, ids, todo, got
  <2> QED BY <2>1, <2>2, AdvanceExact
<1>6. CASE ReadPermRows(q)
  <2> DEFINE todo == req[q].todo
             got == Merge(req[q].got, RowsOf(req[q].ids))
             pc == AfterRole(todo, got)
             new == [pc |-> pc, user |-> u, ids |-> {}, todo |-> todo, got |-> got]
  <2>1. ASSUME q \notin tainted PROVE Accurate(new)
    <3>1. todo \subseteq mine
          /\ req[q].got \cup RowsOf(req[q].ids) = GrantedBy(mine \ todo)
      BY <1>0, <1>6, <2>1 DEF ReadPermRows, Accurate
    <3>2. got = GrantedBy(mine \ todo)
      <4> DEFINE S == UNION {PermIdsOf(r) : r \in mine \ todo}
      <4>1. req[q].got \subseteq RowsOf(S)
        BY <3>1 DEF GrantedBy
      <4> HIDE DEF S
      <4>2. \A g, rows : g \subseteq RowsOf(S) /\ rows \subseteq RowsOf(req[q].ids)
                            => Merge(g, rows) = g \cup rows
        BY MergeIsUnion
      <4>3. got = req[q].got \cup RowsOf(req[q].ids)
        BY <4>1, <4>2
      <4> QED BY <3>1, <4>3
    <3>3. todo = {} => GrantedBy(mine \ todo) = RowsOf(DirectPerms(u))
      <4>1. mine \ {} = mine
        OBVIOUS
      <4> QED BY <4>1, GrantedByFacts
    <3> HIDE DEF mine, todo, got
    <3>4. todo = {} /\ got = {} => KeysOf(got) = Effective(u)
      BY <3>2, <3>3, NothingGranted
    <3> QED BY <3>1, <3>2, <3>3, <3>4 DEF Accurate, AfterRole, mine
  <2>2. Advance(q, pc, {}, todo, got)
    BY <1>6 DEF ReadPermRows
  <2> HIDE DEF pc, todo, got
  <2> QED BY <2>1, <2>2, AdvanceExact
<1>7. CASE ReadTree(q)
  <2> DEFINE got == Merge(req[q].got, RowsOf(TreeOf(IdsOf(req[q].got))))
             new == [pc |-> "store", user |-> u, ids |-> {}, todo |-> {}, got |-> got]
  <2>1. ASSUME q \notin tainted PROVE Accurate(new)
    <3>1. req[q].got = RowsOf(DirectPerms(u))
      BY <1>0, <1>7, <2>1 DEF ReadTree, Accurate
    <3>2. TreeOf(IdsOf(req[q].got)) = TreeOf(DirectPerms(u))
      BY <3>1, IdsOfRows, TreeFacts
    <3>3. RowsOf(DirectPerms(u)) \subseteq RowsOf(TreeOf(DirectPerms(u)))
      <4>1. DirectPerms(u) \cap DOMAIN perms \subseteq TreeOf(DirectPerms(u))
        BY TreeFacts
      <4> QED BY <4>1, IdsOfRows
    <3>4. Merge(RowsOf(DirectPerms(u)), RowsOf(TreeOf(DirectPerms(u))))
            = RowsOf(DirectPerms(u)) \cup RowsOf(TreeOf(DirectPerms(u)))
      BY MergeIsUnion
    <3>5. got = RowsOf(TreeOf(DirectPerms(u)))
      BY <3>1, <3>2, <3>3, <3>4
    <3> HIDE DEF got
    <3> QED BY <3>5 DEF Accurate, Effective
  <2>2. Advance(q, "store", {}, {}, got)
    BY <1>7 DEF ReadTree
  <2> HIDE DEF got
  <2> QED BY <2>1, <2>2, AdvanceExact
<1>8. CASE LoadFails(q)
  <2>1. Accurate(IdleRequest)
    BY NotReadYet DEF IdleRequest
  <2> QED BY <1>8, <2>1, OneRequestMoves, EntriesFrame DEF LoadFails
<1> QED
  BY <1>1, <1>2, <1>3, <1>4, <1>5, <1>6, <1>7, <1>8, ReapExact, StoreExact
     DEF RequestNext, RequestStep

-----------------------------------------------------------------------------
(* Admin calls.                                                            *)

\* The users outside the scope of a change notice nothing of it.
Unnoticed(scope) ==
    \A v \in Users \ scope :
        /\ Effective(v)' = Effective(v)
        /\ \A x : x.user = v /\ Accurate(x) => Accurate(x)'

\* Where a call of admin a may be next without breaking the bookkeeping.
Owes(new, debt) ==
    /\ new.pc # "idle"
    /\ new.op = "UserAssignRoles" => debt \subseteq {new.target}

\* A step that touches neither tables nor cache.
LEMMA QuietStep ==
    ASSUME CacheInv, NEW a \in Admins, NEW new, job' = [job EXCEPT ![a] = new],
           Owes(new, owed[a]), NoCacheEffect, UNCHANGED tables
    PROVE  OwedShape' /\ LoadedExact' /\ CachedExact'
<1>1. job'[a] = new /\ \A b \in Admins \ {a} : job'[b] = job[b]
  BY DEF CacheInv, TypeInv, JobsTyped
<1>2. OwedShape'
  BY <1>1 DEF NoCacheEffect, CacheInv, OwedShape, Owes
<1>3. LoadedExact'
  BY TablesFrame DEF NoCacheEffect, CacheInv, LoadedExact
<1>4. CachedExact'
  BY <1>1, TablesFrame DEF NoCacheEffect, CacheInv, CachedExact, Owes
<1> QED BY <1>2, <1>3, <1>4

\* A call that fails forgives what it owed.
LEMMA EarlyReturn ==
    ASSUME CacheInv, NEW a \in Admins, Step(a, IdleJob), owed' = [owed EXCEPT ![a] = {}],
           excused' = excused \cup owed[a], UNCHANGED <<tables, cache, req, tainted>>
    PROVE  OwedShape' /\ LoadedExact' /\ CachedExact'
<1>1. /\ job'[a] = IdleJob /\ owed'[a] = {}
      /\ \A b \in Admins \ {a} : job'[b] = job[b] /\ owed'[b] = owed[b]
  BY DEF CacheInv, TypeInv, JobsTyped, HistoryTyped, Step
<1>2. OwedShape'
  BY <1>1 DEF CacheInv, OwedShape
<1>3. LoadedExact'
  BY TablesFrame DEF CacheInv, LoadedExact
<1>4. CachedExact'
  BY <1>1, TablesFrame DEF CacheInv, CachedExact
<1> QED BY <1>2, <1>3, <1>4

\* A commit taints the requests in its scope; the others stay accurate.
LEMMA LoadedAfterCommit ==
    ASSUME CacheInv, NEW scope \in SUBSET Users, Unnoticed(scope), UNCHANGED req,
           tainted' = tainted \cup {q \in Requests : req[q].pc \in Loading /\ req[q].user \in scope}
    PROVE  LoadedExact'
<1>1. ASSUME NEW q \in Requests, q \notin tainted'
      PROVE  \A x \in {req'[q]} : Accurate(x)'
  <2>1. PICK x : x = req[q]
    OBVIOUS
  <2>2. Accurate(x) /\ x.pc \in {"idle", "reap"} \cup Loading
        /\ (x.pc # "idle" => x.user \in Users)
    BY <1>1, <2>1 DEF CacheInv, LoadedExact, TypeInv, RequestsTyped, Request
  <2>3. CASE x.pc \in {"idle", "reap"}
    BY <2>1, <2>3, NotReadYet
  <2>4. CASE x.pc \in Loading /\ x.pc # "idle"
    <3>1. x.user \in Users \ scope
      BY <1>1, <2>1, <2>2, <2>4
    <3>2. Accurate(x)'
      BY <2>2, <3>1 DEF Unnoticed
    <3> QED BY <2>1, <3>2
  <2> QED BY <2>2, <2>3, <2>4 DEF Loading
<1> QED BY <1>1 DEF LoadedExact

\* A commit of a call that goes on owes every entry it may have outdated.
LEMMA OutdateExact ==
    ASSUME CacheInv, NEW a \in Admins, NEW scope \in SUBSET Users, Unnoticed(scope), NEW new,
           Step(a, new), Owes(new, owed[a] \cup scope), Outdate(a, scope)
    PROVE  OwedShape' /\ LoadedExact' /\ CachedExact'
<1>1. /\ job'[a] = new /\ owed'[a] = owed[a] \cup (scope \cap DOMAIN cache)
      /\ \A b \in Admins \ {a} : job'[b] = job[b] /\ owed'[b] = owed[b]
  BY DEF CacheInv, TypeInv, JobsTyped, HistoryTyped, Step, Outdate
<1>2. OwedShape'
  BY <1>1 DEF CacheInv, OwedShape, Owes
<1>3. LoadedExact'
  BY LoadedAfterCommit DEF Outdate
<1>4. ASSUME NEW v \in DOMAIN cache'
      PROVE  \/ cache'[v].val = Effective(v)'
             \/ \E b \in Admins : job'[b].pc # "idle" /\ v \in owed'[b]
             \/ v \in excused'
  <2>1. cache' = cache /\ excused' = excused /\ v \in DOMAIN cache /\ v \in Users
    BY <1>4 DEF Outdate, CacheInv, TypeInv, CacheTyped
  <2>2. CASE v \in scope
    BY <1>1, <2>1, <2>2 DEF Owes
  <2>3. CASE v \notin scope
    <3>1. Effective(v)' = Effective(v)
      BY <2>1, <2>3 DEF Unnoticed
    <3> QED BY <1>1, <2>1, <3>1 DEF CacheInv, CachedExact, Owes
  <2> QED BY <2>2, <2>3
<1> QED BY <1>2, <1>3, <1>4 DEF CachedExact

\* A commit after which nothing is invalidated leaves entries that are excused.
LEMMA OutdateForGoodExact ==
    ASSUME CacheInv, NEW a \in Admins, NEW scope \in SUBSET Users, Unnoticed(scope),
           Step(a, IdleJob), OutdateForGood(a, scope)
    PROVE  OwedShape' /\ LoadedExact' /\ CachedExact'
<1>1. /\ job'[a] = IdleJob /\ owed'[a] = {}
      /\ \A b \in Admins \ {a} : job'[b] = job[b] /\ owed'[b] = owed[b]
  BY DEF CacheInv, TypeInv, JobsTyped, HistoryTyped, Step, OutdateForGood
<1>2. OwedShape'
  BY <1>1 DEF CacheInv, OwedShape
<1>3. LoadedExact'
  BY LoadedAfterCommit DEF OutdateForGood
<1>4. ASSUME NEW v \in DOMAIN cache'
      PROVE  \/ cache'[v].val = Effective(v)'
             \/ \E b \in Admins : job'[b].pc # "idle" /\ v \in owed'[b]
             \/ v \in excused'
  <2>1. /\ cache' = cache /\ v \in DOMAIN cache /\ v \in Users
        /\ excused' = excused \cup owed[a] \cup (scope \cap DOMAIN cache)
    BY <1>4 DEF OutdateForGood, CacheInv, TypeInv, CacheTyped
  <2>2. CASE v \in scope
    BY <2>1, <2>2
  <2>3. CASE v \notin scope
    <3>1. Effective(v)' = Effective(v)
      BY <2>1, <2>3 DEF Unnoticed
    <3> QED BY <1>1, <2>1, <3>1 DEF CacheInv, CachedExact
  <2> QED BY <2>2, <2>3
<1> QED BY <1>2, <1>3, <1>4 DEF CachedExact

LEMMA CommittedExact ==
    ASSUME CacheInv, NEW a \in Admins, NEW scope \in SUBSET Users, Unnoticed(scope), NEW new,
           Committed(a, scope, new), Owes(new, owed[a] \cup scope)
    PROVE  OwedShape' /\ LoadedExact' /\ CachedExact'
BY OutdateExact, OutdateForGoodExact DEF Committed

\* Nobody is outside the scope of a change that concerns all users.
LEMMA AllNotice == Unnoticed(Users)
BY DEF Unnoticed

\* An assignment of roles concerns its user only.
LEMMA AssignmentUnnoticed ==
    ASSUME NEW u \in Users, NEW seen, NEW want, AssignUserRolesTx(u, seen, want)
    PROVE  Unnoticed({u})
<1>1. ASSUME NEW v \in Users \ {u} PROVE RoleIdsOf(v)' = RoleIdsOf(v)
  BY DEF AssignUserRolesTx, RoleIdsOf
<1>2. UNCHANGED <<roles, rolePerms, perms>>
  BY DEF AssignUserRolesTx
<1> QED BY <1>1, <1>2, AccurateFrame, EffectiveFrame DEF Unnoticed

LEMMA JobBeginExact ==
    ASSUME CacheInv, NEW a \in Admins, JobBegin(a)
    PROVE  OwedShape' /\ LoadedExact' /\ CachedExact'
<1>1. job[a].pc = "idle" /\ NoCacheEffect /\ UNCHANGED tables
  BY DEF JobBegin, BeginAssignRoles, BeginUpdateRole, BeginCreateRole, BeginDeleteRole,
         BeginPermissions, BeginUpdatePermission, Begin
<1>2. owed[a] = {}
  BY <1>1 DEF CacheInv, OwedShape
<1>3. \E new : job' = [job EXCEPT ![a] = new] /\ new.pc # "idle"
  <2>1. ASSUME NEW h \in Handlers, NEW u \in Users, NEW want \in SUBSET Roles,
               BeginAssignRoles(a, h, u, want)
        PROVE  job'[a].pc # "idle"
    BY <2>1 DEF BeginAssignRoles, Begin, IdleJob, CacheInv, TypeInv, JobsTyped
  <2>2. ASSUME NEW r \in Roles, NEW want \in SUBSET Perms, NEW given \in BOOLEAN,
               BeginUpdateRole(a, r, want, given)
        PROVE  job'[a].pc # "idle"
    BY <2>2 DEF BeginUpdateRole, Begin, IdleJob, CacheInv, TypeInv, JobsTyped
  <2>3. ASSUME NEW ids \in SUBSET Roles, BeginCreateRole(a, ids) \/ BeginDeleteRole(a, ids)
        PROVE  job'[a].pc # "idle"
    BY <2>3 DEF BeginCreateRole, BeginDeleteRole, Begin, IdleJob, CacheInv, TypeInv, JobsTyped
  <2>4. ASSUME NEW h \in Handlers, BeginPermissions(a, h)
        PROVE  job'[a].pc # "idle"
    BY <2>4 DEF BeginPermissions, Begin, IdleJob, CacheInv, TypeInv, JobsTyped
  <2>5. ASSUME NEW p \in Perms, NEW parent \in Perms \cup {None}, NEW given \in BOOLEAN,
               NEW key \in Keys \cup {None}, BeginUpdatePermission(a, p, parent, given, key)
        PROVE  job'[a].pc # "idle"
    BY <2>5 DEF BeginUpdatePermission, Begin, IdleJob, CacheInv, TypeInv, JobsTyped
  <2>6. job'[a].pc # "idle"
    BY <2>1, <2>2, <2>3, <2>4, <2>5 DEF JobBegin
  <2>7. \E new : job' = [job EXCEPT ![a] = new]
    BY DEF JobBegin, BeginAssignRoles, BeginUpdateRole, BeginCreateRole, BeginDeleteRole,
           BeginPermissions, BeginUpdatePermission, Begin
  <2> QED BY <2>6, <2>7 DEF CacheInv, TypeInv, JobsTyped
<1> QED BY <1>1, <1>2, <1>3, QuietStep DEF Owes

\* The call drops what it owes, and answers.
LEMMA InvalidateExact ==
    ASSUME CacheInv, NEW a \in Admins, Invalidate(a)
    PROVE  OwedShape' /\ LoadedExact' /\ CachedExact'
<1>1. /\ job'[a] = IdleJob /\ owed'[a] = {}
      /\ \A b \in Admins \ {a} : job'[b] = job[b] /\ owed'[b] = owed[b] \cap DOMAIN cache'
  BY DEF CacheInv, TypeInv, JobsTyped, HistoryTyped, Step, Invalidate
<1>2. OwedShape'
  <2>1. IdleJob.op = "none"
    BY DEF IdleJob
  <2> QED BY <1>1, <2>1 DEF CacheInv, OwedShape
<1>3. LoadedExact'
  BY TablesFrame DEF Invalidate, CacheInv, LoadedExact
<1>4. /\ DOMAIN cache' \subseteq DOMAIN cache
      /\ \A v \in DOMAIN cache' : cache'[v] = cache[v] /\ v \notin owed[a]
  BY DEF Invalidate, Without, EmptyMap, CacheInv, OwedShape
<1>5. excused' = excused \cap DOMAIN cache' /\ UNCHANGED tables
  BY DEF Invalidate
<1>6. CachedExact'
  BY <1>1, <1>4, <1>5, TablesFrame DEF CacheInv, CachedExact
<1> QED BY <1>2, <1>3, <1>6

LEMMA JobStepExact ==
    ASSUME CacheInv, NEW a \in Admins, JobStep(a)
    PROVE  OwedShape' /\ LoadedExact' /\ CachedExact'
<1> DEFINE j == job[a]
           Done == OwedShape' /\ LoadedExact' /\ CachedExact'
           Quiet(new) == Step(a, new) /\ NoCacheEffect /\ UNCHANGED tables
<1>0. /\ \A new : Quiet(new) /\ Owes(new, owed[a]) => Done
      /\ \A new : Committed(a, Users, new) /\ Owes(new, owed[a] \cup Users) => Done
      /\ j.op = "UserAssignRoles" =>
            owed[a] \subseteq {j.target} /\ j.pc \in {"readRoles", "assignRoles", "invalidate"}
      /\ j \in Job
  <2>1. \A new : Quiet(new) /\ Owes(new, owed[a]) => Done
    BY QuietStep DEF Step
  <2>2. \A new : Committed(a, Users, new) /\ Owes(new, owed[a] \cup Users) => Done
    BY CommittedExact, AllNotice
  <2>3. j.op = "UserAssignRoles" =>
            owed[a] \subseteq {j.target} /\ j.pc \in {"readRoles", "assignRoles", "invalidate"}
    BY DEF CacheInv, OwedShape, TypeInv, JobsTyped, JobShape
  <2>4. j \in Job
    BY DEF CacheInv, TypeInv, JobsTyped
  <2> QED BY <2>1, <2>2, <2>3, <2>4
<1> SUFFICES Done
  OBVIOUS
<1> HIDE DEF Done
<1>1. CASE JobFails(a)
  BY <1>1, EarlyReturn DEF JobFails, Done
<1>2. CASE ReadCurrentRoles(a)
  <2> DEFINE new == [j EXCEPT !.pc = "assignRoles", !.seen = RoleIdsOf(j.target)]
  <2>1. Quiet(new) /\ Owes(new, owed[a])
    BY <1>0, <1>2 DEF ReadCurrentRoles, Owes, Job
  <2> HIDE DEF new, Quiet
  <2> QED BY <1>0, <2>1
<1>3. CASE AssignUserRoles(a)
  <2>1. j.target \in Users /\ Unnoticed({j.target})
    <3>1. j.target \in Users
      BY <1>3 DEF AssignUserRoles, CacheInv, TypeInv, JobsTyped, JobShape
    <3> QED BY <1>3, <3>1, AssignmentUnnoticed DEF AssignUserRoles
  <2>2. CASE Step(a, IdleJob) /\ OutdateForGood(a, {j.target})
    BY <2>1, <2>2, OutdateForGoodExact DEF Done
  <2>3. CASE j.op = "UserAssignRoles"
             /\ Committed(a, {j.target}, [j EXCEPT !.pc = "invalidate"])
    <3> DEFINE new == [j EXCEPT !.pc = "invalidate"]
    <3>1. Owes(new, owed[a] \cup {j.target})
      BY <1>0, <2>3 DEF Owes, Job
    <3>2. Committed(a, {j.target}, new)
      BY <2>3
    <3> HIDE DEF new
    <3> QED BY <2>1, <3>1, <3>2, CommittedExact DEF Done
  <2> QED BY <1>3, <2>2, <2>3 DEF AssignUserRoles
<1>4. CASE ReadCurrentPerms(a)
  <2> DEFINE new == [j EXCEPT !.pc = "assignPerms", !.seen = PermIdsOf(j.target)]
  <2>1. Quiet(new) /\ Owes(new, owed[a])
    BY <1>0, <1>4 DEF ReadCurrentPerms, Owes, Job
  <2> HIDE DEF new, Quiet
  <2> QED BY <1>0, <2>1
<1>5. CASE AssignRolePermissions(a)
  <2> DEFINE new == [j EXCEPT !.pc = "retrieve"]
  <2>1. Committed(a, Users, new) /\ Owes(new, owed[a] \cup Users)
    BY <1>0, <1>5 DEF AssignRolePermissions, Owes, Job
  <2> HIDE DEF new
  <2> QED BY <1>0, <2>1
<1>6. CASE RetrieveRolePerms(a)
  <2> DEFINE new == [j EXCEPT !.pc = "invalidate"]
  <2>1. Quiet(new) /\ Owes(new, owed[a])
    BY <1>0, <1>6 DEF RetrieveRolePerms, Owes, Job
  <2> HIDE DEF new, Quiet
  <2> QED BY <1>0, <2>1
<1>7. ASSUME NEW r \in Roles, NEW ps \in SUBSET Perms, CreateRole(a, r, ps)
      PROVE  Done
  <2> DEFINE left == j.want \ {r}
             new == [j EXCEPT !.want = left,
                              !.pc = IF left = {} THEN "invalidate" ELSE "createRole"]
  <2>1. Committed(a, Users, new)
    BY <1>7 DEF CreateRole
  <2>2. Owes(new, owed[a] \cup Users)
    BY <1>0, <1>7 DEF CreateRole, Owes, Job
  <2> HIDE DEF new
  <2> QED BY <1>0, <2>1, <2>2
<1>8. ASSUME NEW r \in Roles, FindRole(a, r)
      PROVE  Done
  <2> DEFINE new == [j EXCEPT !.pc = "deleteRole", !.target = r, !.want = @ \ {r}]
  <2>1. Quiet(new) /\ Owes(new, owed[a])
    BY <1>0, <1>8 DEF FindRole, Owes, Job
  <2> HIDE DEF new, Quiet
  <2> QED BY <1>0, <2>1
<1>9. ASSUME NEW r \in Roles, FindRoleFails(a, r)
      PROVE  Done
  <2> DEFINE new == [j EXCEPT !.want = @ \ {r}, !.failed = TRUE]
  <2>1. Quiet(new) /\ Owes(new, owed[a])
    BY <1>0, <1>9 DEF FindRoleFails, Owes, Job
  <2> HIDE DEF new, Quiet
  <2> QED BY <1>0, <2>1
<1>10. ASSUME NEW acked \in BOOLEAN, DeleteRole(a, acked)
       PROVE  Done
  <2> DEFINE failed == j.failed \/ ~ acked
             new == [j EXCEPT !.pc = "findRole", !.failed = failed]
  <2>1. Step(a, new) /\ Outdate(a, Users)
    BY <1>10 DEF DeleteRole
  <2> HIDE DEF failed
  <2>2. Owes(new, owed[a] \cup Users)
    BY <1>0, <1>10 DEF DeleteRole, Owes, Job
  <2> HIDE DEF new
  <2> QED BY <2>1, <2>2, OutdateExact, AllNotice DEF Done
<1>11. CASE DeleteRoleFails(a)
  <2> DEFINE new == [j EXCEPT !.pc = "findRole", !.failed = TRUE]
  <2>1. Quiet(new) /\ Owes(new, owed[a])
    BY <1>0, <1>11 DEF DeleteRoleFails, Owes, Job
  <2> HIDE DEF new, Quiet
  <2> QED BY <1>0, <2>1
<1>12. CASE EndDeleteRole(a)
  <2>1. UNCHANGED tables
    BY <1>12 DEF EndDeleteRole
  <2>2. CASE Step(a, IdleJob) /\ owed' = [owed EXCEPT ![a] = {}]
             /\ excused' = excused \cup owed[a] /\ UNCHANGED <<cache, req, tainted>>
    BY <2>1, <2>2, EarlyReturn DEF Done
  <2> DEFINE new == [j EXCEPT !.pc = "invalidate"]
  <2>3. CASE Step(a, new) /\ NoCacheEffect
    <3>1. Quiet(new) /\ Owes(new, owed[a])
      BY <1>0, <1>12, <2>1, <2>3 DEF EndDeleteRole, Owes, Job
    <3> HIDE DEF new, Quiet
    <3> QED BY <1>0, <3>1
  <2> QED BY <1>12, <2>2, <2>3 DEF EndDeleteRole
<1>13. ASSUME NEW ids \in SUBSET Perms, NEW new \in [ids -> Row], CreatePermission(a, new)
       PROVE  Done
  <2> DEFINE next == [j EXCEPT !.pc = "invalidate"]
  <2>1. Committed(a, Users, next) /\ Owes(next, owed[a] \cup Users)
    BY <1>0, <1>13 DEF CreatePermission, Owes, Job
  <2> HIDE DEF next
  <2> QED BY <1>0, <2>1
<1>14. ASSUME NEW ids \in SUBSET Perms, DeletePermission(a, ids)
       PROVE  Done
  <2> DEFINE new == [j EXCEPT !.pc = "invalidate"]
  <2>1. Committed(a, Users, new) /\ Owes(new, owed[a] \cup Users)
    BY <1>0, <1>14 DEF DeletePermission, Owes, Job
  <2> HIDE DEF new
  <2> QED BY <1>0, <2>1
<1>15. CASE UpdatePermission(a)
  <2> DEFINE new == [j EXCEPT !.pc = "invalidate"]
  <2>1. Committed(a, Users, new) /\ Owes(new, owed[a] \cup Users)
    BY <1>0, <1>15 DEF UpdatePermission, Owes, Job
  <2> HIDE DEF new
  <2> QED BY <1>0, <2>1
<1>16. CASE Invalidate(a)
  BY <1>16, InvalidateExact DEF Done
<1> QED
  BY <1>1, <1>2, <1>3, <1>4, <1>5, <1>6, <1>7, <1>8, <1>9, <1>10, <1>11, <1>12, <1>13,
     <1>14, <1>15, <1>16 DEF JobStep

-----------------------------------------------------------------------------
LEMMA TickExact ==
    ASSUME CacheInv, Tick
    PROVE  OwedShape' /\ LoadedExact' /\ CachedExact'
<1>1. DOMAIN cache' = DOMAIN cache /\ \A u \in DOMAIN cache : cache'[u].val = cache[u].val
  BY DEF Tick, Aged, Entry
<1>2. OwedShape' /\ LoadedExact'
  BY TablesFrame DEF Tick, CacheInv, OwedShape, LoadedExact
<1>3. CachedExact'
  BY <1>1, TablesFrame DEF Tick, CacheInv, CachedExact
<1> QED BY <1>2, <1>3

LEMMA CacheInvInit == Init => CacheInv
<1> SUFFICES ASSUME Init PROVE CacheInv
  OBVIOUS
<1>1. OwedShape
  BY DEF Init, OwedShape
<1>2. LoadedExact
  BY NotReadYet DEF Init, LoadedExact, IdleRequest
<1>3. CachedExact
  BY DEF Init, CachedExact, EmptyMap
<1> QED BY <1>1, <1>2, <1>3, InitTyped DEF CacheInv

LEMMA CacheInvStep == CacheInv /\ [Next]_vars => CacheInv'
<1> SUFFICES ASSUME CacheInv, [Next]_vars PROVE CacheInv'
  OBVIOUS
<1>1. TypeInv'
  BY NextTyped DEF CacheInv
<1>2. CASE UNCHANGED vars
  <2>1. UNCHANGED tables
    BY <1>2 DEF vars, tables
  <2> QED
    BY <1>1, <1>2, <2>1, TablesFrame DEF vars, CacheInv, OwedShape, LoadedExact, CachedExact
<1>3. CASE Next
  BY <1>1, <1>3, RequestExact, JobBeginExact, JobStepExact, TickExact DEF Next, CacheInv
<1> QED BY <1>2, <1>3

\* A cached entry never says anything the tables do not, outside the known gaps.
THEOREM CacheIsExact == Spec => []CachedExact
<1>1. CacheInv => CachedExact
  BY DEF CacheInv
<1> QED BY <1>1, CacheInvInit, CacheInvStep, PTL DEF Spec

\* The separate queries of an untainted request add up to one snapshot.
THEOREM LoadsAreSnapshots == Spec => []LoadedExact
<1>1. CacheInv => LoadedExact
  BY DEF CacheInv
<1> QED BY <1>1, CacheInvInit, CacheInvStep, PTL DEF Spec
=============================================================================
