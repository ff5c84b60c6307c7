# go_admin in TLA+

Models, model checks and proofs of
[go_admin](../src/README.md), a Go back office service: HTTP handlers over a SQL
database, role based access control with a per-user permission cache, JWT sessions with a
revocation list, a redis lock, system settings, scheduled tasks, rate limiting.

Everything here was translated from the Go code. `PROJECT.json` maps every definition to
the lines it stands for; comments in the modules name the methods.

## 1. The system

One process (several may run side by side) serves HTTP requests, one goroutine each. State
lives in four places: MySQL tables, in-process maps guarded by mutexes, redis, and the
tokens clients hold. Nothing spans two of them atomically, and most of what is hard here
follows from that.

| Part | State | Operations | Talks to |
|---|---|---|---|
| Permission checker and cache (`iam/service/permission_checker.go`, `iam/cache`) | user -> granted method:path keys, with a TTL of an hour | `HasPermission`, `InvalidateUser`, `InvalidateAll` | queries the four RBAC tables; reads and writes a `store.Memory` |
| Roles, permissions, assignment (`iam/handler`, `iam/service`, `iam/repository`) | `user_role`, `role`, `role_permission`, `permission` | create, update, delete, assign; each handler commits, then invalidates | repository, transactions, the cache |
| Users (`modules/user`) | `user` | create, update, delete, login and its time | role assigner of iam, in a second transaction |
| Repository (`pkg/repository`) | none but the builder of a chain | conditions, groups, find, page, count, delete | xorm |
| In-memory store (`pkg/store`) | map with expiring entries under an RWMutex | `Get`, `Has`, `Set*`, `Delete`, `Clear`, `Len` | used by the cache and the revocation list |
| Sessions (`iam/service/auth_service.go`, `pkg/jwtauth`, `platform/middleware/jwt.go`) | none but the tokens | login, refresh, logout, the middleware | revocation list, permission checker |
| Revocation stores (`iam/tokenstore`) | jti -> until when | `Revoke`, `IsRevoked`; memory and redis drivers | `store.Memory`, redis |
| Redis lock (`pkg/redis/lock.go`) | one key with a TTL | `TryLock`, `Lock`, `Refresh`, `Unlock`, `WithLock` | redis |
| System settings (`modules/systemsetting`) | `system_setting` | CRUD, `GetValue`, `Set` | repository |
| Scheduled tasks (`pkg/cron`) | name -> job and paused flag | add, remove, pause, resume, list, stop, load | gocron |
| Process lifecycle (`platform/app`, `bootstrap/run.go`) | hooks, server, error channel | init, run, shutdown | everything |
| Rate limiting, circuit breaking (`platform/middleware/sentinel`) | a file, its copy, a resource map, rules in the library; a bucket per IP; a bucket per IP and path in redis | admit or refuse a request, clean up, reload, refresh rules | the library, redis |
| Router (`platform/router`, `app/setup_routes.go`) | the mounted routes, a compiled chain each | mount by tag or name; run the steps of a chain | middlewares, handlers |
| Other middleware, API answers (`platform/middleware`, `pkg/api`) | `http_requests_total` | CORS, metrics, recovery, access log, trace; code to status | the request on its way in and out |
| HTTP client (`pkg/httpclient`) | none | request with retries and backoff | remote services |
| Configuration, database set-up, crypto, logging, reflection, code generation | start-up state or none | | |

### What is hard, and what would make each part correct

- *Permission cache.* A miss issues up to 3 + 2n queries for n roles with no transaction
  around them; an admin call reads the current rows, commits, and only then invalidates; it
  skips the invalidation whenever a later step fails. Correct means: an entry never says
  more or less than the tables outside of a nameable window, that window closes at the TTL,
  and the separate queries add up to a state the tables were in.
- *Assignment.* The lists to insert and delete are computed from rows read before the
  transaction. Two assignments that overlap must not leave rows nobody asked for.
- *In-memory store.* `Get` drops an expired key under a second lock. Correct means: it is a
  map with expiring entries to every interleaving of callers.
- *Sessions.* A token is checked in three steps (signature and time, revocation list,
  permission), a logout in two, the list forgets an entry when it believes the token dead, and
  processes restart. Correct means: a logout that was confirmed holds.
- *Redis lock.* The lock is a lease: a reply can be lost and the command repeated, or
  executed long after its caller gave up. Correct means: whoever works within its lease is
  alone, an unlock takes away nobody else's lock, waiting ends, orphans go.
- *Settings.* Uniqueness of keys is checked by a query before the write; reads treat "no row"
  as success.
- *Tasks.* The registry and gocron are two structures updated one after the other.
- *Lifecycle.* Signals, server errors and hooks that fail race each other.
- *Users.* An update reads a row and writes it back; roles follow in a second transaction;
  a batch goes on after a failure. Correct means: what a request asked for stands until the
  next request, a user has roles, a deletion that succeeded was one.
- *Queries.* How a condition joins the ones before it is state of the builder; conditions can
  vanish. Correct means: a chain selects what it says, a page and its total fit, nothing is
  deleted for want of a condition.
- *Limiters.* Two goroutines replace file, map and rules one after the other under requests;
  a cleaner races with first use. Correct means: a path has the limit its configuration gives
  it, one client has one bucket, nobody waits for a lock for ever.
- *The chain.* Each middleware opens something on the way in that it must close on the way
  out, also after a panic or an answer given early.
- *Client.* Retries repeat what may have happened.

The full list, line by line, is under `hazards` in `PROJECT.json`.

## 2. Modules

| Module | Models | Kind |
|---|---|---|
| `MemoryMap` | the map and the critical sections of `store.Memory` as functions | operators |
| `RbacTables` | the four RBAC tables, the queries over them and the transactions that change them | operators, variables |
| `PermissionChecker` | `HasPermission` against eight admin handlers | specification |
| `TtlMap` | what a map with expiring entries promises | abstract specification |
| `MemoryStore` | `store.Memory` under concurrent callers; refines `TtlMap` | specification |
| `RevocationList` | what a list of revoked tokens promises | abstract specification |
| `AuthSession` | tokens, middleware, logout, both revocation drivers, restarts; refines `RevocationList` | specification |
| `RedisLock` | the lock, the redis server and the network between them | specification |
| `SystemSettings` | the settings service over its table, statement by statement | specification |
| `Users` | the user service, the role assignment and the login over their tables, statement by statement | specification |
| `Conditions` | what becomes of a condition and of a struct with tags | operators |
| `QueryBuilder` | a chain of conditions with its groups, then one method of the repository; extends `Conditions` | specification |
| `Routes` | which routes the registrar mounts, from names and tags | operators |
| `SentinelRules` | file, copy, map and rules with the goroutines that pass them on | operators, variables |
| `RateLimiters` | the bucket per client with its cleaner, the script in redis | operators, variables |
| `RequestChain` | a request through the middlewares and its route; extends the three above | specification |
| `HttpClient` | one call of the client with its retries | operators |
| `TaskManager` | registry, scheduler and running tasks | operators, variables |
| `Process` | start, tasks, requests, signal, exit hooks and server shutdown; extends the two above | specification |
| `MC*` | initial tables, symmetry sets | for TLC |
| `*Proofs` | theorems | for TLAPS |

`PermissionChecker` and `AuthSession` build on `MemoryMap`, so the cache and the in-memory
revocation list behave like the store of `MemoryStore`, two-lock `Get` included. `AuthSession`
leaves the outcome of `HasPermission` open; `PermissionChecker` says what it can be.

**Time.** No module has absolute time. An entry, token or lease carries what it has left and
`Tick` takes one away everywhere at once. An entry in memory with nothing left stays in the
map, expired, until something removes it, as in the code; a redis key is gone.

### PermissionChecker

| Code | Model |
|---|---|
| the four tables | `userRoles`, `roles`, `rolePerms`, `perms`; `retired` keeps ids of deleted rows from being handed out again (auto-increment) |
| `InMemoryCache` | `cache`, a `MemoryMap` |
| a call of `HasPermission` | `req[q]`: which query is next, and what the earlier ones returned |
| its queries | `ReadUserRoles`, `ReadRoles`, per role `ReadRolePerms` and `ReadPermRows`, then `ReadTree`, `Store` |
| a call of an admin handler | `job[a]`: handler, target, requested ids, rows read so far |
| one transaction or statement | one step; it commits, fails, or commits without the caller learning of it |
| `InvalidateUser`, `InvalidateAll` | `Invalidate` |

`tainted`, `owed` and `excused` are history: no guard reads them. They say which loads
overlapped a commit, which entries an admin call has outdated but not yet dropped, and which
were outdated or loaded with no invalidation to come. `CachedExact` says that these are all
the ways an entry can be wrong, so the interesting part is what is *not* excused: a second
concurrent call that commits between the first one's commit and its invalidation, an entry
loaded after a commit and dropped by someone else's invalidation, an expired entry reaped by a
request that lost a race.

### AuthSession

`token` is what was issued, `revoked[n]` the list in process n, `revoked[None]` the one in
redis. `ParseToken`, the visit to the list and `CheckPermission` are the middleware in its
order; the middleware does not look at the token's type, so neither does `ParseToken`. Logout
parses the token, computes what is left of it (`TimeUntil`) and writes the entry (`Revoke`).
Refresh tokens are not used up and the list is not consulted for them, as in the code. The
memory driver forgets its list with the process: a `loggedOut` pair lives as long as the list
that carries it, and says nothing of other nodes. That a logout does not reach the other nodes
with that driver is documented (`config.go:79`: memory is for one machine).

### RedisLock

Server steps (`Serve`, `ServeLate`) and client steps are separate. A timed out command may
have been executed or not, is resent at most `Resends` times, and may still be executed after
its caller has moved on (`late`). `lease[c]` is what c was last granted. It is measured from
the moment redis executes the command, which is the best a caller could hope for; the code
keeps no clock of its own and does not know.

### SystemSettings

| Code | Model |
|---|---|
| `system_setting` | `rows`; a value is known by the types it converts to (`ParsesAs`), `retired` holds the ids of deleted rows |
| a call of `Create`, `Update`, `DeleteBatch`, `Set`, `GetValue` | `call[c]`: its request and which statement is next |
| `checkKeyUnique`, `validateValue` | `CheckUnique`, `Valid` |
| `Repository.Update` | `Write`: only columns of the request that are not zero |
| a statement that fails, or is applied with its answer lost | `Fails`; `acked` of `Insert`, `Update`, `Delete` |

No call opens a transaction, so what it has read may be outdated when it writes. The unique
index of the table turns a taken key away.

### Users

| Code | Model |
|---|---|
| `user`, `user_role` | `users`, `userRoles`; `retired` holds the ids of deleted rows |
| a call of `CreateUser`, `UpdateUser`, `AssignRoles`, `DeleteUser`, `Login` | `call[c]`: its request, what it has read, which statement is next |
| `copier.Copy` over the row, then `Repository.Update` | `Overlay`, then `NonZero` |
| `AssignRoles` | `FindUser`, `ReadRoles`, `Assign`: the differences to what was read, in one transaction |
| a statement that fails, or is applied with its answer lost | `Fails`; `acked` |

`asked` and `undone` are history, and so is the `base` of a call. `asked` follows the requests
and not the statements: it is what a row should hold if nobody wrote back what they had read,
and which call asked for it, since two calls may ask for the same value.
`LastRequestStands` says that a column differs from it only while it is in `undone`, that is,
when a call that had read the row before the last request wrote it back. `RbacTables` has an
assignment too: there it is one of the things that outdate a cache entry, here it is what a
creation depends on.

### Conditions and QueryBuilder

A condition is the set of rows it selects, `None` when the code drops it or the SQL builder
does: `In` and `NotIn` of no values are not valid conditions (`Blank`). A condition has a kind,
since a field that is a pointer is handed on as the pointer: the database driver follows it, the
printing of a LIKE pattern does not (`Pattern`). `levels` are the
builders that are open: `AndGroup` and `OrGroup` give their function a builder of its own and
look at the result when it returns. A method then reads `levels[1]`, or makes its conditions
from a struct, and runs one or two statements (`query`) while others write to `table`.
`Meaning` is the reference: it looks at the list of calls as a whole and knows nothing of
`nextJoin`. `Meets` is the reference for a struct: which rows match the fields as they are meant. It finds
out by itself which fields count and what they ask, and shares with the code only the column of
a tag (`ColumnOf`) and the comparison (`Matches`).

### Routes, SentinelRules, RateLimiters and RequestChain

| Code | Model |
|---|---|
| the order of `app.Use` in `Run` and of `use` in the groups | the order of `req[r].pc`: guard, in, auth, handler, and `Unwind` for the way back |
| `matchResource`, `api.Entry`, the deferred `Exit` | `Match` under the read lock, `Enter` without it, `Unwind` |
| `IPRateLimiterMiddleware` | `LookUp` and `Create`, one per lock; the update of `lastSeen` is a goroutine (`touches`, `Touch`) |
| its cleaner goroutine | `Clean`, `Expired`, `Kept` |
| the Lua script | `RunScript`, `ScriptAllows`; `Refused` says what of its reply arrives |
| `NewConfigManager`, `reloadConfig` and the watcher | `InitSentinel`, `reloadConfig` |
| `loadRules` and its ticker | `BeginRefresh`, `ReplaceMap`, `LoadFlowRules`, `LoadBreakers`; `Locked` is the write lock |
| `resolveRoute`, `inferFromName`, `mount` | the operators of these names |
| `compileStep`, `compileCtxReq`, `writeOutputs` | `StepDone`, `Handle`; a request that does not bind is `misfit` |
| the JWT middleware | `Authenticate`: who the caller is (`Credentials`) is given, `AuthSession` says how it comes about |
| `Response.HTTPStatus` | `HTTPStatus`, from the codes the handlers return |

A setup is a limiter and what each request may be: `Run` mounts Sentinel; the other two
limiters are in the package, tested and mounted by nobody, and take Sentinel's place in the
model. What Sentinel's library refuses is left open: a resource with a rule may be refused.
`loaded`, `admitted`, `dropped` and the fields `due`, `excused`, `limited`, `authenticated`,
`handled` of a request are history.

### TaskManager, HttpClient and Process

| Code | Model |
|---|---|
| `tm.tasks`, the entries of the scheduler, `job.disabled` | `tasks`, `entries`, `disabled`; a job is its entry id |
| `RemoveTask` | `Forget` under the lock, then `Remove`; between the two the entry can fire and the name can be taken again |
| `PauseTask`, `ResumeTask` | `LookUp` under the lock, then `SetDisabled` without it |
| a goroutine the scheduler starts | `run[g]`; `Enter` reads the flag once, then the body runs |
| `healthCheck` | the body: a call `health[g]` of this very process, `Do` and `waitBackoff` until it has returned |
| `Run`, `awaitShutdown`, `GracefulShutdown` | `main`, from `Notify` to one of the ends |
| `App.Run` and the init hook | `serve`: load the configured tasks, start the scheduler, register the exit hook, listen |
| `exitFuncs`, `executeFuns` | `exitFuncs`, and in `hooks` what is left to run; the first failure drops the rest |

`RegisterExit` appends to a slice that the main goroutine may read at the same moment: a data
race, so `Signal` sees the old list, the new one, or a mixture that crashes. Only a signal
during start-up can meet it. The window of three seconds is opened before the hooks run, hence
`WindowOver` may come while a hook is still busy. `ready` and `served` are history. An init
hook cannot fail as the code stands (`LoadTasks` returns nil), so the panic of `App.Run` is
left out.

A failed name lookup is a `net.OpError` of operation `dial`, so it is retried, although the
comment of `IsRetriableError` (`httpclient.go:43`) says that lookups are not.

## 3. Runs

| Run | Instance | Shows |
|---|---|---|
| `perm_cache` | 1 user, 2 roles, 2 permissions, 1 request, 2 admin calls at once out of all 8 handlers, TTL 2, fair | `TypeOK`; `CachedExact`, `LoadedExact`; `AssignmentAccountsForRows`, for the roles of a user and the permissions of a role; `CacheConverges`: whatever went wrong, entries agree with the tables once these rest |
| `perm_cache_save_user` | only `PUT /user` | **violation** of `ChangesAreVisible` |
| `memory_store` | 2 threads, 2 keys, 2 values, three kinds of TTL | refinement of a `TtlMap` whose lookups may lose an entry |
| `auth_session` | 2 nodes, 2 token pairs, 1 request, 2 logouts, lifetimes 1 and 2, both drivers | `LogoutHolds`; refinement of `RevocationList`, a set with atomic lookups |
| `redis_lock` | 2 calls, TTL 2, 1 retry, 1 resend, fair | `LeaseHonoured`, `MutualExclusion`, `LockReturns`, `OrphansExpire` |
| `settings` | 1 installed core row, 2 ids, 2 types, 3 values, 2 calls | `StoredValuesConvert`, `BatchDeletesAll`, `CoreSettingsStay` |
| `process` | 3 configured tasks of one name (skipped, loaded, duplicate), 1 caller, 1 goroutine for tasks, 1 retry, 1 request, fair | `NoGhosts`, `OrderlyExit`, `InFlightServed`, `ShutdownEnds` |
| `queries` | 3 rows, one with a NULL, 4 conditions, 8 fields of every kind, 6 structs, up to 4 calls on the builders | `ChainsMeanWhatTheySay`, `AnswersMatchRequests`, `TotalsFitPages`, `OneRowOrNone` |
| `users` | 1 installed user, 2 ids, 2 names, 2 passwords, 2 roles, 2 calls | `LastRequestStands`, `UsersHaveRoles`, `RolesBelongToUsers`, `DeletedUsersAreGone` |
| `users_password` | the same | **violation** of `PasswordsStayUntilChanged` |
| `distributed_limiter` | the setups of `request_chain`, 2 requests | **violation** of `DenialsStand` |
| `request_chain` | 4 setups: Sentinel with 1 request, each of the others with 2 that race, one more with 1 request of every kind; 2 files, rate, burst and expiry 1, 2 ticks, fair | `AnswersAccountedFor`, `OnlyAdmittedReachHandlers`, `PathsKeepTheirLimits`, `BurstHonoured`, `LimitersCanExpire`, `RulesFollowFile`, `RequestsEnd` |

`TypeOK` (`LockTypeOK` of the lock) is checked in one passing run of every specification but
`QueryBuilder` and `AuthSession`, where the references and the refinement say more.

### What the violations show

1. **PUT and POST /user do not invalidate** (`user_handler.go:98`). Roles changed through the
   user handlers reach the permission checker only when the entry expires, although the
   README promises active invalidation and `POST /user/assign/roles`, which ends in the same
   service call, does invalidate.
2. **An update without a password can undo one** (`user_service.go:110`). The comment says
   that an empty password leaves the hash alone. It leaves the hash alone that was read, and
   writes it: a password changed in between is gone, and both calls report success.
3. **The distributed limiter refuses nobody** (`limiter.go:257`). Its script answers Lua's `false`
   for a denial, which redis turns into a nil reply and the client into an error, and the branch
   for errors lets requests pass. The check for a denial behind it, with its log line "Request
   blocked by distributed rate limiter", is never reached with one.

### What else the code does

The models follow the code where it departs from what one might expect, and the properties
say so. Each of these is visible in the named definition.

- `Get` of the store deletes a key under a second lock, and with it a value written in between
  (`memory.go:43`). The store is therefore a map whose lookups may lose an entry
  (`TtlMap` with `Lossy`), not a strict one.
- A logged-out token that expires between being parsed and being looked up passes
  (`jwt.go:78`); `LogoutHolds` admits exactly this.
- A setting that does not exist is a nil dereference (`system_setting_service.go:213`):
  `getByKey` wraps the error of a query that succeeded without a row, a wrapped nil is nil, and
  `GetValue` and `Set` go on with the nil row. No handler calls them yet.
- A graceful exit runs the hooks, one of which closes the redis client, before it shuts the
  server down (`app.go:51`). Requests still to be checked are answered 401 in between;
  `InFlightServed` holds without that hook only.
- `op=startswith` of two list requests (`dto/role.go:47`, `dto/permission.go:53`) is an operator
  the builder does not know: the filter is dropped and the list is unrestricted
  (`conditionToCond`). A struct whose fields are all zero has no condition either, for `Find`
  as well, which then reports several rows.
- A failure of `InitSentinel` is logged and the server starts (`infra.go:17`); every request but
  `OPTIONS` then panics in the outermost middleware (`Dereference`), where only the server's own
  recovery answers: such requests are neither counted nor logged.
- No caller reports errors to Sentinel, so breakers by error ratio never open; which rules refuse is
  left to the library in the model.
- A LIKE condition on a field that is a pointer looks for the print of the address
  (`query.go:106`), and a list without members restricts nothing (`query.go:107`). No struct of
  the repository has such fields; `AnswersMatchRequests` does not ask for completeness in the
  first case, and takes the second as it is.
- A resource renamed in the file escapes its limit for requests that have looked the old name
  up and not entered yet; a failed loading leaves the new map beside the old rules until the
  next one (`excused` in `PathsKeepTheirLimits`).
- An editor that truncates the file before it writes leaves a moment in which a read finds an
  empty configuration, which parses: for one period nothing is limited. It is one more of the
  `Files` a reader may find; the run leaves it out because it differs from a file without rules
  in nothing.
- A request that panics has no line in the access log (`LogOut`); the probes have none either.
- `PUT /user` cannot set a status of 0, which is a zero value, and its answer shows the row as
  it would be if it could.
- The registrar tells routes apart by method and path without the group (`mount`).

### Bounds, and why they are enough

- *One user, one key.* Nothing in the checker relates two users except `InvalidateAll` and the
  handlers that affect everyone; a second user doubles the tables without a new interaction.
  Two roles and two permissions make the loops over roles run twice, let rows of one role be
  read before and of another after a commit, give an assignment something to add and
  something to remove, and make a parent and a child.
- *Two admin calls at once, of any handlers*, show every overlap of a pair; `MaxJobs` also
  bounds the total to two.
- *One request*, which looks up again and again. Two at once would take the run beyond reach
  with all handlers; what they could do to each other, such as one that deletes as expired what
  the other has just stored, is covered by the proofs: `CacheIsExact` and `LoadsAreSnapshots`
  hold for any number of requests and calls.
- *TTL 2*: an entry that is fresh, halfway, then expired and still there.
- *Four token ids*: a login and a refresh, so a pair can be logged out while another lives.
  Lifetimes of 1 and 2 ticks: a token is fresh or expired when its time left is worked out and
  when it is written, the entry of a late write outlives it, and a refresh token is still good
  when its access token is not.
- *Two lock calls, one retry, one resend*: one to hold, one to wait; a retry that counts, a
  resend that meets its own earlier success. `LockExcludes` holds for any number.
- *One core setting, one other id, two calls*: enough for two partial updates of one row, a
  rename next to a deletion, a batch that fails halfway. The theorems hold for any number.
- *One caller and three configured tasks of one name*: the caller removes what was loaded while
  the third entry of the configuration is about to add the name again; one goroutine can still
  run the removed job. *One retry* makes the loop of the client turn once and give up. *One
  request* can be turned away, cut off or awaited; requests do not meet each other.
- *Four calls on the builders*: a condition, `Or()`, a group with a condition, in any order, or
  a group within a group. The four conditions are one that selects two rows, one that a NULL
  drops, one by a set, and one that counts for nothing. The structs set scalars, pointers to zero and to
  a value, lists without and with members, a field with an unknown operator, LIKE on a text and
  on a pointer. Others may write each row once.
- *One user to update and an id to create another, two calls*: enough for an update across
  another, an assignment across a deletion, a login across both, a name taken in between. Two
  names, two passwords and two roles (one of them without a row) are a change and its opposite.
- *One request next to Sentinel's two goroutines*: requests do not meet there except in the bag
  of entries, where they add up. Two files rename a resource, add and remove a flow rule, and
  change the default. *Two requests at the buckets*: both find none, or one finds what the
  other made or the cleaner drops. *Two ticks*: a bucket expires, or refills. *One request of
  every kind* for what does not depend on others: answers, labels and logs.
- Symmetry is used only in runs without liveness, over nodes, token ids and
  calls, none of which the specifications tell apart.
- Deadlock checking is off where it would say nothing: the service may well be idle.

### Fairness

- `PermissionChecker`: `Tick`, each request's own steps and each admin call's own steps are
  weakly fair. Goroutines are scheduled, a statement ends with an answer or an error. The
  *start* of a request or call is not fair: nobody has to come.
- `RedisLock`: `Tick` and what a call does by itself. A command is answered or times out
  (the client has read timeouts), and the retry timer fires. Nothing obliges fn to return,
  the caller to cancel, or a late command to be executed.
- `Process`: the main goroutine, the goroutines of tasks (an exchange ends or times out after
  five seconds, a backoff timer fires) and the clock that closes the window. Not fair: signals,
  the serving goroutine, requests. A handler may never answer; the window covers that, while
  nothing covers a task that does not return.
- `RequestChain`: a request that has arrived goes on, since its goroutine does and handlers
  return. `Match` is strongly fair: a Go RWMutex lets waiting readers in when a writer
  releases it. The two tickers of Sentinel fire again and again, and neither reading the file
  nor loading the rules fails for ever. Requests need not come, the file need not be written,
  time need not pass for a bucket to expire.

## 4. Proofs

`tlapm` checks every leaf. Theorems hold for all values of the constants that satisfy the
named assumptions of the module: TTLs are positive naturals, `None` and the like are not
members of the other sets, a burst and a rate are naturals, a setup sends requests of the kinds
there are. `QueryBuilder` assumes that columns hold values of a bounded size, so that tables are
finite, that a tag names a column of its table and has at most one operator, and that lists come
with `in` or `notin`; no struct of the repository departs from that; how many rows, fields, words and calls there are is open. Two
components that do not meet share a proof module where that needs no more than their names to differ
(`ExpiryProofs`: the store and the lock).

| Theorem | Statement |
|---|---|
| `PermissionProofs!Typing` | `Spec => []TypeOK` |
| `PermissionProofs!AssignmentsAccountForRows` | `Spec => AssignmentAccountsForRows` |
| `PermissionProofs!CacheIsExact` | `Spec => []CachedExact` |
| `PermissionProofs!LoadsAreSnapshots` | `Spec => []LoadedExact` |
| `ExpiryProofs!StoreTyping` | `Spec => []TypeOK` |
| `ExpiryProofs!StoreImplementsLossyMap` | `Spec => ImplementsLossyMap` |
| `AuthSessionProofs!SessionTyping` | `Spec => []TypeOK` |
| `AuthSessionProofs!LogoutIsFinal` | `Spec => []LogoutHolds` |
| `AuthSessionProofs!DriversImplementList` | `Spec => ImplementsRevocationList` |
| `ExpiryProofs!LockTyping` | `LockSpec => []LockTypeOK` |
| `ExpiryProofs!LeasesAreHonoured` | `LockSpec => []LeaseHonoured` |
| `ExpiryProofs!LockExcludes` | `LockSpec => []MutualExclusion` |
| `SystemSettingsProofs!SettingsTyping` | `Spec => []TypeOK` |
| `SystemSettingsProofs!ValuesConvert` | `Spec => []StoredValuesConvert` |
| `SystemSettingsProofs!BatchesDelete` | `Spec => []BatchDeletesAll` |
| `SystemSettingsProofs!CoreSettingsAreKept` | `Spec => []CoreSettingsStay` |
| `ProcessProofs!ProcessTyping` | `Spec => []TypeOK` |
| `ProcessProofs!SchedulerFollowsRegistry` | `Spec => []NoGhosts` |
| `ProcessProofs!ExitsAreOrderly` | `Spec => []OrderlyExit` |
| `ProcessProofs!RequestsInFlightAreServed` | `Spec => []InFlightServed` |
| `UsersProofs!UsersTyping` | `Spec => []TypeOK` |
| `UsersProofs!RequestsStand` | `Spec => []LastRequestStands` |
| `UsersProofs!CreatedUsersHaveRoles` | `Spec => []UsersHaveRoles` |
| `UsersProofs!RolesAreOfUsers` | `Spec => []RolesBelongToUsers` |
| `UsersProofs!DeletionsAreFinal` | `Spec => []DeletedUsersAreGone` |
| `RequestChainProofs!Typed` | `Spec => []TypeOK` |
| `RequestChainProofs!AccountsAgree` | `Spec => []AnswersAccountedFor` |
| `RequestChainProofs!NoWayAround` | `Spec => []OnlyAdmittedReachHandlers` |
| `RequestChainProofs!LimitsKept` | `Spec => []PathsKeepTheirLimits` |
| `RequestChainProofs!BurstBound` | `Spec => []BurstHonoured` |
| `RequestChainProofs!BucketsHaveTimes` | `Spec => []LimitersCanExpire` |
| `QueryBuilderProofs!ChainsKeepTheirMeaning` | `Spec => []ChainsMeanWhatTheySay` |
| `QueryBuilderProofs!AnswersMeetRequests` | `Spec => []AnswersMatchRequests` |
| `QueryBuilderProofs!PagesAndTotals` | `Spec => []TotalsFitPages` |
| `QueryBuilderProofs!SingleRowsAndDeletions` | `Spec => []OneRowOrNone` |

**Permission cache.** `CachedExact` alone is not inductive: what `Store` writes is right only
if what the request gathered is. `LoadedExact` supplies that, one clause per query, and it is
preserved because every commit marks the requests it concerns as tainted. Together with the
types they are inductive. The one step that needs thought is a commit: it changes what the
tables grant to exactly the users in its scope, so each table transaction has a lemma that it
leaves `Effective(u)` alone for everybody else. `AssignmentsAccountForRows` is about single
steps: a call that stands before its transaction leaves that place by its own commit or by a
failure, whatever others do, and the difference it applies meets the definition.

**Store.** The refinement maps `m` to its live entries. Expired entries are invisible, so
`GetExpired` stutters, cleaning up on a write is invisible, and `Reap` is a `NotFound` that may
lose an entry. Lemmas say how `LiveKeys` commutes with each map operation.

**Sessions.** `SessionInv` adds to the types: lists hold access tokens only (`AccessTokens`);
while a logout is known, its token has an entry that lives as long as it does, or has expired
(`Covers`); a logout on its way has read a lifetime at least as long as what the token has
left (`Leaving`); an admitted request that began after a logout has an expired token
(`Passing`). `Leaving` carries the argument: the lifetime is read before the write, and time
that passes in between makes the entry outlive the token, never the other way around.
The refinement of `RevocationList` takes the live entries for the set. A lookup takes effect when it
finds or does not find a live entry, so the second lock of a lookup that found an expired
one comes after its answer, and what it deletes is of a token that has expired since (`Passing`).
Time takes an entry out of the set only with its token (`Covers`), which the set allows. A
restart under the redis driver loses an empty list.

**Lock.** `LockInv` adds to the types: a key that is held has time left and a free one has
none (`KeyIsLease`); a call between its grant and its unlock holds the key as long as its
lease lasts (`LeaseKept`); an unlock that nobody waits for belongs to a call that is over
(`LateUnlocks`), for otherwise a late unlock could strike its own caller.

**Settings.** `SettingsInv` adds what a call knows at each statement: a write follows a
validation of the very type and value it writes (`Validated`), and a request names what its
operation needs (`Formed`), so a row never takes a type without a value that converts: an
update that sets only the type is accepted only if the empty value converts, which is the case
for texts alone, and a text takes any old value. A batch keeps the ids it has yet to visit or
has failed (`Batch`), and ids are not handed out again, so success means absence for good.
A core row is found deletable only after a rename that stays visible in a finished call
(`CoreInv`). What does not hold, and is not claimed, is that a core setting can never go: a
call may rename it and another one delete it.

**Process.** For the tasks, `NoGhosts` needs that a job has one name and that a job about to be
removed has none (`OneName`), otherwise `Remove` would take away the entry of a registered
task. For the exit, `ExitInv` says that once the hook of the tasks is off the list after a
signal that came late enough, and no hook has failed, the scheduler is stopped and idle
(`Quiet`); nothing starts it again because loading is over. For the requests, `ServedInv` says that
without the hook of the revocation list on the list nobody ever closes its client, so a request
that was in flight at the signal is still on its way or done; a drained exit leaves none on its
way.

**Users.** `UsersInv` has four parts. The tables: ids are of users or retired, never both. The
calls: which fields an operation has set at each of its statements, and that the ids a batch is
done with are retired. The requests: whoever set a column has made its last write (`Settled`),
so a call that read a row and finds the same setting at its write knows that nobody has set the
column in between, and writes back what stands (`Fresh`). This is why `asked` names the call: by
the value alone, a column set to something else and back could not be told from one left alone.
The roles: the id a creation was given belongs to it alone and to no installed user, and until
its assignment nobody but a call about just these roles gives it any (`Unassigned`), so the
assignment has something to add.

**Request chain.** `ChainInv` has five parts. `PassageInv` says, in `Passage(q)`, what the record
of a request looks like at each stage: what has been answered, entered, authenticated and
handled by then; from the last stages `OnlyAdmittedReachHandlers` follows without looking back. A
step of one request changes a few fields of one record (`Same`, `Turn`), so most steps keep the other
four parts by one lemma. `LimitsInv` says that the rules in force are those of one
configuration, `loaded`, and the map that of the one being loaded, unless the last loading has
failed; a request that has looked its name up and is not `excused` therefore enters with what that
configuration says of its path. `BucketsInv` ties a bucket to the request that made it: it is
of that request's client, and a bucket in the map has a time, because the creation notes one and the
cleaner drops both. `CountInv` bounds what a client gets past its buckets. Neither the number of
buckets nor the sum of their tokens can be added up by induction here, so it counts a set instead:
`Spent` has, for each bucket that was ever made, one element for each token it may have given
away. A request that passes adds an element, a tick adds the rate to each bucket, and a race that
made a second bucket would show as a bucket that is neither in the map nor dropped.
`AccountsInv` says that the two bags count sets of requests; one more or one less in a set is one
more or one less in its bag, panics included, since `Unwind` is the same way for them.

**Queries.** `ChainsMeanWhatTheySay` compares the loop of `toBuilderCond` with a meaning by the
calls, for chains of any length. The loops are recursive functions, and the lemmas `Counted`, `Loop`
and `LoopOnce` give each of them by its last step. A call then appends one node to the chain and one
call to its history: `CondAppend` says what one more node does to the condition,
`MeaningJoins` and `MeaningKeeps` what one more call does to the meaning, and `Means(b)`, the
invariant of an open builder, adds that `nextJoin` is "or" exactly when the last call was `Or()`.
Closing a group puts the meaning of the inner builder into the outer one as one part. For the methods
of the repository, `CondMeets` says that the filters of a struct select only
rows that meet it, and all of them unless LIKE was given a pointer: each field in order contributes
its own restriction or none; an unknown operator and an empty list contribute none. `QueryInv` says what is known while a method runs: `Removed`, that a row is gone
by others' hands or because the condition selected it, and `Paged`, that a page was taken of a table
that differs from today's by what others wrote. The total is counted of today's, and the size of
a page changes by no more than the table does, hence `TotalsFitPages`.

Every invariant and action property of the runs has a theorem. Left to TLC are the liveness
properties `CacheConverges`, `LockReturns`, `OrphansExpire`, `ShutdownEnds`,
`RulesFollowFile` and `RequestsEnd`: reasoning under fairness, with `ENABLED`, is out of the prover's
reach.

## 5. What is left out

- *Matching of paths against cached keys* (`matchPath`), names, status columns, formatting.
  Grants are compared as sets of keys.
- *Signatures, hashes, claims other than type, id and expiry.*
- *Clock skew* between nodes and redis, and loss of redis data: one clock, one durable server.
- *Isolation below a transaction.* A transaction is atomic; the code's own read-then-write
  gaps across transactions are modelled.
- *SQL beyond conditions*: ORDER BY (pages are any rows of their size), row locks, quoting, raw
  statements.
- *What Sentinel's library decides*: thresholds, windows and breaker states. A rule may refuse.
- *Headers, log lines, masking, span attributes, OpenTelemetry counters, messages.*
- *Binding and validation of parameters*: a request fits its handler or does not.
- *Configuration and database set-up* happen once, before anything runs beside them, and a
  failure ends the process. *Crypto* is library calls; *code generation* is not part of the
  running system.

## 6. Plan

Done: the permission cache with its eight handlers, sessions and revocation, the store and its
refinement, the revocation list as a set, the redis lock, settings, users, tasks and process
life, queries, limiters and the request chain, each with proofs of all its invariants.

Left, in this order:

1. What the liveness properties rest on and a step can break: while a call of the lock is on its
   way its attempts grow, while a reload is under way it holds the lock.
2. `matchPath` with its wildcards and the decoding of parameters, as operators compared with a
   reference over bounded inputs.
