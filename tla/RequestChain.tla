---------------------------- MODULE RequestChain ----------------------------
(***************************************************************************)
(* The path of a request: CORS, the limiter, metrics, recovery, the access *)
(* log and the trace context, then the steps compiled for its route, and   *)
(* back through the same middlewares in reverse.                           *)
(*                                                                         *)
(* guard is the limiter that is mounted: "sentinel", as Run does, or one   *)
(* of the two others of the package, "ip" and "cluster", in its place.     *)
(***************************************************************************)
EXTENDS Routes, SentinelRules, RateLimiters, Bags

CONSTANTS
    Setups,         \* a limiter, and for each request that is made what it may be; a bound
    Enable          \* PermissionConfig.Enable

ASSUME TimeAssumption == MaxTime \in Nat

VARIABLES
    setup,          \* one of Setups, as long as the process lives
    req,
    entries,        \* the library: requests inside a resource, as a bag
    total,          \* http_requests_total, as a bag of labels
    loaded,         \* history: the configuration the flow rules in force come from
    admitted        \* history: how many requests of a client its bucket let pass

chainVars == <<setup, req, entries, total, loaded, admitted>>
vars == <<sentinelVars, limiterVars, chainVars>>

guard == setup.guard

-----------------------------------------------------------------------------
(* Answers.                                                                *)

\* The ranges, for the codes that have no status of their own.
ByRange(code) ==
    CASE code \in 200000 .. 299999 -> 400
      [] code >= 300000 -> 500
      [] OTHER -> 200

HTTPStatus(code) ==
    CASE code \in {200003, 200007, 200008} -> 401
      [] code = 200004 -> 403
      [] code = 200002 -> 404
      [] code = 200005 -> 409
      [] code = 300004 -> 429
      [] OTHER -> ByRange(code)

ParamError == 200001
Unauthorized == 200003
Forbidden == 200004
InternalError == 300001
RateLimit == 300004

\* What a handler may do, and the code of the response it returns.  It may also return nil,
\* which leaves the status as it is, or an error that is not a response.
Returns ==
    [success |-> 100000, nocontent |-> 100001, missing |-> 200002, conflict |-> 200005,
     internal |-> 300001, database |-> 300002, business |-> 310000]

Does == DOMAIN Returns \cup {"nil", "error", "panic", "misfit"}

Credentials == {"rejected", "unchecked", "denied", "permitted"}

ASSUME SetupsAssumption ==
    \A s \in Setups :
        /\ s.guard \in {"sentinel", "ip", "cluster"}
        /\ DOMAIN s.sends \subseteq Requests
        /\ \A r \in DOMAIN s.sends : \A x \in s.sends[r] :
            x.ip \in Clients /\ x.who \in Credentials /\ x.does \in Does

Unsent == [method |-> None, group |-> None, path |-> <<>>, ip |-> None,
           who |-> "rejected", does |-> "nil"]

NewRequest ==
    [pc |-> "new", sent |-> Unsent, start |-> 0,
     resource |-> None, due |-> FALSE, excused |-> FALSE, limited |-> FALSE,
     bucket |-> None, inside |-> FALSE, passed |-> FALSE, authenticated |-> FALSE, handled |-> FALSE,
     panicked |-> FALSE, status |-> 200, logged |-> None]

Stages ==
    {"new", "guard", "create", "bucket", "matched", "in", "auth", "handler",
     "unwind", "done"}

TypeOK ==
    /\ setup \in Setups
    /\ sentinel \in {"none", "up", "nil"}
    /\ refresh.pc \in {"idle", "read", "flow", "breakers"}
    /\ now \in 0 .. MaxTime
    /\ \A b \in DOMAIN tokens : tokens[b] \in 0 .. Burst
    /\ \A r \in Requests :
        /\ req[r].pc \in Stages
        /\ req[r].sent # Unsent => req[r].sent \in setup.sends[r]
        /\ req[r].status \in {200, 204, 400, 401, 403, 404, 409, 429, 500}
    /\ IsABag(entries) /\ IsABag(total)

Init ==
    /\ SentinelInit /\ LimitersInit
    /\ setup \in Setups
    /\ req = [r \in Requests |-> NewRequest]
    /\ entries = EmptyBag /\ total = EmptyBag
    /\ loaded = EmptyFile
    /\ admitted = [x \in Clients |-> 0]

FullPath(x) == <<x.group>> \o x.path

Move(r, q) == req' = [req EXCEPT ![r] = q]

Local(r, q) ==
    /\ Move(r, q)
    /\ UNCHANGED <<sentinelVars, limiterVars, setup, entries, total, loaded, admitted>>

\* api.Abort.
Aborted(q, code) == [q EXCEPT !.status = HTTPStatus(code), !.pc = "unwind"]

-----------------------------------------------------------------------------
(* CORS and the limiter.  The server listens once the init hooks have run, *)
(* whether InitSentinel succeeded or not.                                  *)

Arrive(r) ==
    /\ req[r].pc = "new" /\ r \in DOMAIN setup.sends
    /\ guard = "sentinel" => sentinel # "none"
    /\ \E x \in setup.sends[r] :
        LET q == [req[r] EXCEPT !.sent = x, !.start = now]
        IN  Local(r, IF x.method = "OPTIONS" THEN [q EXCEPT !.status = 204, !.pc = "done"]
                     ELSE [q EXCEPT !.pc = "guard"])

\* Without an instance matchResource dereferences nil, outside the middleware that
\* recovers: only the server's own recovery answers.
Dereference(r) ==
    /\ guard = "sentinel" /\ sentinel = "nil" /\ req[r].pc = "guard"
    /\ Local(r, [req[r] EXCEPT !.panicked = TRUE, !.status = 500, !.pc = "done"])

\* Mutant of MayRead: the map is read without its lock.
MayReadAnyway == TRUE

MayRead == ~ Locked

\* matchResource, under the read lock.
Match(r) ==
    /\ guard = "sentinel" /\ sentinel = "up" /\ req[r].pc = "guard"
    /\ MayRead
    /\ Local(r, [req[r] EXCEPT !.resource = matchResource(resourceMap, FullPath(req[r].sent)),
                               !.due = Limits(loaded, FullPath(req[r].sent)),
                               !.excused = refresh.failed,
                               !.pc = "matched"])

\* Entry: the library refuses what a flow rule or an open breaker of the resource refuses.
Enter(r, refuses) ==
    /\ req[r].pc = "matched"
    /\ refuses => req[r].resource \in flowRules \cup breakers
    /\ LET q == [req[r] EXCEPT !.limited = req[r].resource \in flowRules]
       IN  IF refuses
           THEN /\ Move(r, [q EXCEPT !.status = HTTPStatus(RateLimit), !.pc = "done"])
                /\ UNCHANGED entries
           ELSE /\ Move(r, [q EXCEPT !.inside = TRUE, !.passed = TRUE, !.pc = "in"])
                /\ entries' = entries (+) SetToBag({q.resource})
    /\ UNCHANGED <<sentinelVars, limiterVars, setup, total, loaded, admitted>>

\* The limiter of a client address: looked up under the read lock,
LookUp(r) ==
    /\ guard = "ip" /\ req[r].pc = "guard"
    /\ LET ip == req[r].sent.ip
       IN  IF ip \in DOMAIN limiterMap
           THEN /\ FoundLimiter(ip, req[r].start)
                /\ Move(r, [req[r] EXCEPT !.bucket = limiterMap[ip], !.pc = "bucket"])
           ELSE /\ UNCHANGED limiterVars
                /\ Move(r, [req[r] EXCEPT !.pc = "create"])
    /\ UNCHANGED <<sentinelVars, setup, entries, total, loaded, admitted>>

\* made under the write lock when there was none,
Create(r) ==
    /\ req[r].pc = "create"
    /\ CreateLimiter(r, req[r].sent.ip, req[r].start)
    /\ Move(r, [req[r] EXCEPT !.bucket = limiterMap'[req[r].sent.ip], !.pc = "bucket"])
    /\ UNCHANGED <<sentinelVars, setup, entries, total, loaded, admitted>>

\* and asked outside the lock.
Allow(r) ==
    /\ req[r].pc = "bucket"
    /\ TakeToken(req[r].bucket)
    /\ IF Allowed(req[r].bucket)
       THEN /\ Move(r, [req[r] EXCEPT !.passed = TRUE, !.pc = "in"])
            /\ admitted' = [admitted EXCEPT ![req[r].sent.ip] = @ + 1]
       ELSE /\ Move(r, [req[r] EXCEPT !.status = 429, !.pc = "done"])
            /\ UNCHANGED admitted
    /\ UNCHANGED <<sentinelVars, setup, entries, total, loaded>>

\* The reply of the script: an error lets the request pass, and Lua's false arrives as one,
\* the error of a nil reply; 0 does not arrive.
Refused(reply) == reply = "0"

\* The script has run, or has not and the client gets an error: that of a cluster, too, that
\* refuses the second key because the script does not declare it.
Ask(r, reached) ==
    /\ guard = "cluster" /\ req[r].pc = "guard"
    /\ LET key == <<req[r].sent.ip, FullPath(req[r].sent)>>
           reply == IF reached /\ ScriptAllows(key) THEN "1" ELSE "error"
       IN  /\ IF reached THEN RunScript(key) ELSE UNCHANGED limiterVars
           /\ Move(r, IF Refused(reply) THEN [req[r] EXCEPT !.status = 429, !.pc = "done"]
                      ELSE [req[r] EXCEPT !.passed = TRUE, !.pc = "in"])
    /\ UNCHANGED <<sentinelVars, setup, entries, total, loaded, admitted>>

-----------------------------------------------------------------------------
(* The route: its compiled steps run one after the other until one of them *)
(* has answered.                                                           *)

Route(r) ==
    /\ req[r].pc = "in"
    /\ LET x == req[r].sent
       IN  Local(r, IF Matching(x) = {} THEN [req[r] EXCEPT !.status = 404, !.pc = "unwind"]
                    ELSE [req[r] EXCEPT !.pc = IF x.group = "protected" THEN "auth"
                                               ELSE "handler"])

\* Mutant of StepDone: the chain goes on after a step that has aborted.
StepDoneAnyway(q) == [q EXCEPT !.pc = "handler"]

\* compileStep: after a middleware the chain goes on unless it has aborted.
StepDone(q) == IF q.pc = "unwind" THEN q ELSE [q EXCEPT !.pc = "handler"]

\* The JWT middleware, as far as it decides whether the handler runs: the token, and unless
\* the path is excluded the permission.
Refusals == [rejected |-> Unauthorized, unchecked |-> InternalError, denied |-> Forbidden]

Authenticate(r) ==
    /\ req[r].pc = "auth"
    /\ LET x == req[r].sent
           q == [req[r] EXCEPT !.authenticated = x.who # "rejected"]
           refused == \/ x.who = "rejected"
                      \/ x.who \in DOMAIN Refusals /\ Enable /\ ~ isExcludedPath(x)
       IN  Local(r, StepDone(IF refused THEN Aborted(q, Refusals[x.who]) ELSE q))

\* compileCtxOnly and compileCtxReq: what does not bind is answered without the handler.
Handle(r) ==
    /\ req[r].pc = "handler"
    /\ LET does == req[r].sent.does
           q == [req[r] EXCEPT !.handled = does # "misfit", !.pc = "unwind"]
       IN  Local(r,
             CASE does \in DOMAIN Returns -> [q EXCEPT !.status = HTTPStatus(Returns[does])]
               [] does = "misfit" -> [q EXCEPT !.status = HTTPStatus(ParamError)]
               [] does = "error" -> [q EXCEPT !.status = 500]
               [] does = "panic" -> [q EXCEPT !.panicked = TRUE]
               [] does = "nil" -> q)

-----------------------------------------------------------------------------
(* The way back.                                                           *)

Probes == {<<<<"health">>>>, <<<<"metrics">>>>}

\* The access log goes by the path as it was sent, and is not written on a panic.
LogOut(q) ==
    IF q.panicked \/ (q.sent.group = "root" /\ q.sent.path \in Probes) THEN q
    ELSE [q EXCEPT !.logged = q.status]

RecoverOut(q) == IF q.panicked THEN [q EXCEPT !.status = HTTPStatus(InternalError)] ELSE q

\* The label is the template of the route that was found.
Label(q) ==
    <<q.sent.method, IF Matching(q.sent) = {} THEN <<"unmatched">> ELSE FullPath(q.sent), q.status>>

Probed(q) == Matching(q.sent) # {} /\ q.sent.group = "root" /\ q.sent.path \in Probes

\* Mutant of Counted: the metrics inside the recovery; a panic leaves them out.
CountedInside(q) == IF q.panicked \/ Probed(q) THEN {} ELSE {Label(q)}

\* The metrics go by the template, and leave the probes out.
Counted(q) == IF Probed(q) THEN {} ELSE {Label(q)}

\* Log, recovery, metrics and the deferred Exit of the limiter, innermost first.
Unwind(r) ==
    /\ req[r].pc = "unwind"
    /\ LET q == RecoverOut(LogOut(req[r]))
       IN  /\ Move(r, [q EXCEPT !.inside = FALSE, !.pc = "done"])
           /\ total' = total (+) SetToBag(Counted(q))
           /\ entries' = IF q.inside THEN entries (-) SetToBag({q.resource}) ELSE entries
    /\ UNCHANGED <<sentinelVars, limiterVars, setup, loaded, admitted>>

-----------------------------------------------------------------------------
\* A request between Match and Enter has read a map that is replaced with its rules.
Excuse ==
    req' = [r \in Requests |->
             IF req[r].pc = "matched" THEN [req[r] EXCEPT !.excused = TRUE] ELSE req[r]]

SentinelStep ==
    /\ guard = "sentinel"
    /\ \/ /\ \/ \E contents \in Files : WriteFile(contents)
             \/ InitSentinel(FALSE) \/ reloadConfig \/ BeginRefresh \/ ReplaceMap
             \/ LoadFlowRules(FALSE) \/ \E ok \in BOOLEAN : LoadBreakers(ok)
          /\ UNCHANGED <<loaded, req>>
       \/ InitSentinel(TRUE) /\ loaded' = file /\ UNCHANGED req
       \/ LoadFlowRules(TRUE) /\ loaded' = refresh.cfg /\ Excuse
    /\ UNCHANGED <<limiterVars, setup, entries, total, admitted>>

LimiterStep ==
    /\ guard # "sentinel"
    /\ LimitersNext
    /\ UNCHANGED <<sentinelVars, chainVars>>

\* What a request that has arrived does next.
Progress(r) ==
    \/ Dereference(r) \/ Match(r) \/ \E refuses \in BOOLEAN : Enter(r, refuses)
    \/ LookUp(r) \/ Create(r) \/ Allow(r) \/ \E reached \in BOOLEAN : Ask(r, reached)
    \/ Route(r) \/ Authenticate(r) \/ Handle(r) \/ Unwind(r)

Next == SentinelStep \/ LimiterStep \/ \E r \in Requests : Arrive(r) \/ Progress(r)

\* The goroutine of a request goes on, handlers return, and the read lock is given to a
\* reader once a writer has released it.
Fairness ==
    /\ SentinelFairness
    /\ \A r \in Requests : WF_req(Progress(r)) /\ SF_req(Match(r))

Spec == Init /\ [][Next]_vars /\ Fairness

-----------------------------------------------------------------------------
(* Properties.                                                             *)

Done(q) == q.pc = "done"

Copies(x, bag) == IF BagIn(x, bag) THEN bag[x] ELSE 0

\* Each way out of the chain settles what the way in opened: Sentinel's entries are those
\* of the requests in flight; what the limiter let pass is counted once, under the status
\* that was sent, also after a panic; and the access log has that status, except after a
\* panic and for the two probe paths.
AnswersAccountedFor ==
    /\ \A x \in DOMAIN entries \cup {req[r].resource : r \in Requests} :
        Copies(x, entries) = Cardinality({r \in Requests : req[r].inside /\ req[r].resource = x})
    /\ LET ended == {r \in Requests : Done(req[r]) /\ req[r].passed /\ ~ Probed(req[r])}
       IN  \A x \in DOMAIN total \cup {Label(req[r]) : r \in ended} :
            Copies(x, total) = Cardinality({r \in ended : Label(req[r]) = x})
    /\ \A r \in Requests : LET q == req[r] IN
        Done(q) /\ q.passed /\ q.sent.path \notin Probes =>
            q.logged = IF q.panicked THEN None ELSE q.status

\* A handler runs only for a request that the limiter let pass and that a route is mounted
\* for, and behind the JWT middleware only for a caller with a valid token and the
\* permission for it; a request no handler has seen is never answered with success.
OnlyAdmittedReachHandlers ==
    \A r \in Requests : LET q == req[r] IN
        /\ q.handled =>
            /\ q.passed /\ Matching(q.sent) # {}
            /\ q.sent.group = "protected" =>
                /\ q.authenticated
                /\ Enable /\ ~ isExcludedPath(q.sent) => q.sent.who = "permitted"
        /\ Done(q) /\ ~ q.handled => q.status >= 400 \/ q.sent.method = "OPTIONS"

\* A path is limited exactly when the configuration in force limits it, whatever resource
\* name it goes by, unless the rules were replaced between the lookup of the name and the
\* entry, or the last loading of the rules had failed.
PathsKeepTheirLimits ==
    \A r \in Requests :
        req[r].resource # None /\ req[r].pc # "matched" /\ ~ req[r].excused =>
            req[r].limited = req[r].due

\* However many requests of a client race for its first bucket, one bucket is made.  Each
\* bucket lets the burst and the rate pass, one that the cleaner has dropped too as long as
\* requests hold it, and a client has had no more of them than were dropped and the one in
\* the map.  No client is refused before its burst is spent.
BurstHonoured ==
    /\ \A ip \in Clients : admitted[ip] <= (Burst + Rate * now) * (1 + dropped[ip])
    /\ \A r \in Requests :
        req[r].status = 429 /\ guard = "ip" => admitted[req[r].sent.ip] >= Burst

\* limiter.go:279, "check whether the request is allowed", with its log line "Request blocked
\* by distributed rate limiter": a request that the script denies is refused.
DenialsStand ==
    [][\A r \in Requests :
        Ask(r, TRUE) /\ ~ ScriptAllows(<<req[r].sent.ip, FullPath(req[r].sent)>>) =>
            req'[r].status = 429]_vars

\* Every request that arrives is answered: the lock that protects the map is released
\* whatever becomes of the rules.
RequestsEnd == \A r \in Requests : req[r].pc # "new" ~> Done(req[r])
=============================================================================
