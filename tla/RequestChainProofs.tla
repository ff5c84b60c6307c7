------------------------- MODULE RequestChainProofs -------------------------
(* Theorems about RequestChain, for any routes, files, requests, clients   *)
(* and limits.                                                             *)
EXTENDS RequestChain, FiniteSetTheorems, TLAPS

Fields ==
    {"pc", "sent", "start", "resource", "due", "excused", "limited", "bucket", "inside", "passed",
     "authenticated", "handled", "panicked", "status", "logged"}

Flags == {"due", "excused", "limited", "inside", "passed", "authenticated", "handled", "panicked"}

Statuses == {200, 204, 400, 401, 403, 404, 409, 429, 500}

\* Before the limiter has decided, and after it let the request pass.
Early == {"guard", "create", "bucket", "matched"}
Within == {"in", "auth", "handler", "unwind"}

Permitted(q) ==
    q.sent.group = "protected" =>
        /\ q.authenticated
        /\ Enable /\ ~ isExcludedPath(q.sent) => q.sent.who = "permitted"

\* What the record of a request says at each stage: Passage is about one record and nothing
\* else, so a step preserves it if it leads from such a record to such a record.
Passage(q) ==
    /\ q.pc \in Stages
    /\ q.status \in Statuses
    /\ \A f \in Flags : q[f] \in BOOLEAN
    /\ q.pc = "new" => q = NewRequest
    /\ q.pc \in Early =>
        ~ q.passed /\ ~ q.inside /\ ~ q.handled /\ ~ q.panicked /\ q.status = 200 /\ q.logged = None
    /\ q.pc \in Within => q.passed /\ q.logged = None
    /\ q.pc \in {"in", "auth", "handler"} => ~ q.handled /\ ~ q.panicked /\ q.status = 200
    /\ q.pc \in {"auth", "handler"} => Matching(q.sent) # {}
    /\ q.pc = "handler" => Permitted(q)
    /\ q.handled => q.passed /\ Matching(q.sent) # {} /\ Permitted(q)
    /\ q.inside => q.pc \in Within
    /\ q.status = 429 => q.pc = "done" /\ ~ q.passed
    /\ q.pc = "unwind" /\ ~ q.handled => q.status >= 400 /\ ~ q.panicked
    /\ Done(q) /\ ~ q.handled => q.status >= 400 \/ q.sent.method = "OPTIONS"
    /\ Done(q) /\ q.passed /\ q.sent.path \notin Probes =>
        q.logged = IF q.panicked THEN None ELSE q.status

\* The record of a request, changed in these fields at most.
Same(q, p, fields) == DOMAIN p = Fields /\ \A f \in Fields \ fields : p[f] = q[f]

\* A step changes these fields of one request at most, and no other request.
Turn(r, fields) ==
    /\ Same(req[r], req'[r], fields)
    /\ \A s \in Requests \ {r} : req'[s] = req[s]

Shape == DOMAIN req = Requests /\ \A r \in Requests : DOMAIN req[r] = Fields

\* What has been sent, and which limiter holds the request.
Sender(r) ==
    /\ req[r].pc # "new" => r \in DOMAIN setup.sends /\ req[r].sent \in setup.sends[r]
    /\ req[r].pc = "matched" => guard = "sentinel" /\ sentinel = "up"
    /\ req[r].pc \in {"create", "bucket"} => guard = "ip"

PassageInv ==
    /\ setup \in Setups
    /\ Shape
    /\ \A r \in Requests : Passage(req[r]) /\ Sender(r)

-----------------------------------------------------------------------------
(* Sentinel's rules.                                                       *)

\* The rules in force are those of one configuration; the map is that of the one being
\* loaded, and unless the last loading has failed that of the rules.
RulesInv ==
    /\ sentinel \in {"none", "up", "nil"}
    /\ DOMAIN refresh = {"pc", "cfg", "failed"}
    /\ refresh.pc \in {"idle", "read", "flow", "breakers"}
    /\ refresh.failed \in BOOLEAN
    /\ flowRules = ToFlowRules(loaded)
    /\ refresh.pc = "flow" => resourceMap = ResourceMap(refresh.cfg)
    /\ refresh.pc = "breakers" => resourceMap = ResourceMap(loaded)
    /\ ~ Locked /\ ~ refresh.failed => resourceMap = ResourceMap(loaded)

\* What a request has been told about its resource.
Told(q, rules) ==
    /\ q.pc \in {"new", "guard", "create", "bucket"} => q.resource = None
    /\ q.pc = "matched" /\ ~ q.excused => q.due = (q.resource \in rules)
    /\ q.resource # None /\ q.pc # "matched" /\ ~ q.excused => q.limited = q.due

LimitsInv == RulesInv /\ \A r \in Requests : Told(req[r], ToFlowRules(loaded))

-----------------------------------------------------------------------------
(* The buckets of a client.                                                *)

Most == Burst + Rate * now

\* A bucket goes by the request that made it, so it is of that request's client.
BucketsOf(ip) == {b \in DOMAIN tokens : req[b].sent.ip = ip}

\* What a set of buckets may have let pass, as a set of so many elements: of each bucket,
\* what all time has given to it and it does not have.
Spent(buckets, most, held) == {x \in buckets \X (1 .. most) : x[2] <= most - held[x[1]]}

BucketsInv ==
    /\ now \in 0 .. MaxTime
    /\ DOMAIN limiterMap \subseteq DOMAIN lastSeen \cap Clients
    /\ \A ip \in DOMAIN limiterMap : limiterMap[ip] \in BucketsOf(ip)
    /\ DOMAIN tokens \subseteq Requests
    /\ \A b \in DOMAIN tokens :
        /\ tokens[b] \in 0 .. Burst
        /\ req[b].pc \notin {"new", "guard", "create"}
        /\ req[b].sent.ip \in Clients
        /\ admitted[req[b].sent.ip] >= Burst - tokens[b]
    /\ \A r \in Requests : req[r].pc = "bucket" => req[r].bucket \in BucketsOf(req[r].sent.ip)
    /\ \A r \in Requests : req[r].status = 429 /\ guard # "sentinel" =>
        guard = "ip" /\ req[r].sent.ip \in Clients /\ admitted[req[r].sent.ip] >= Burst

\* One bucket more than the cleaner has dropped, if there is one now.
Live(ip) == IF ip \in DOMAIN limiterMap THEN 1 ELSE 0

CountInv ==
    /\ dropped \in [Clients -> Nat] /\ admitted \in [Clients -> Nat]
    /\ \A ip \in Clients :
        /\ IsFiniteSet(BucketsOf(ip))
        /\ Cardinality(BucketsOf(ip)) <= dropped[ip] + Live(ip)
        /\ admitted[ip] <= Cardinality(Spent(BucketsOf(ip), Most, tokens))

-----------------------------------------------------------------------------
(* The accounts.                                                           *)

Started == {r \in Requests : req[r].pc # "new"}
Inside(x) == {r \in Requests : req[r].inside /\ req[r].resource = x}
Ended == {r \in Requests : Done(req[r]) /\ req[r].passed /\ ~ Probed(req[r])}
EndedAs(x) == {r \in Ended : Label(req[r]) = x}

\* The two bags count the requests they are about.
AccountsInv ==
    /\ IsABag(entries) /\ IsABag(total)
    /\ IsFiniteSet(Started)
    /\ \A x : Copies(x, entries) = Cardinality(Inside(x))
    /\ \A x : Copies(x, total) = Cardinality(EndedAs(x))

ChainInv == PassageInv /\ LimitsInv /\ BucketsInv /\ CountInv /\ AccountsInv

-----------------------------------------------------------------------------
(* Answers.                                                                *)

LEMMA StatusOf ==
    /\ HTTPStatus(ParamError) = 400
    /\ HTTPStatus(Unauthorized) = 401
    /\ HTTPStatus(Forbidden) = 403
    /\ HTTPStatus(InternalError) = 500
    /\ HTTPStatus(RateLimit) = 429
    /\ \A does \in DOMAIN Returns : HTTPStatus(Returns[does]) \in {200, 404, 409, 500}
<1>1. HTTPStatus(100000) = 200 /\ HTTPStatus(100001) = 200
  BY SMT DEF HTTPStatus, ByRange
<1>2. HTTPStatus(300001) = 500 /\ HTTPStatus(300002) = 500 /\ HTTPStatus(310000) = 500
  BY SMT DEF HTTPStatus, ByRange
<1>3. HTTPStatus(200002) = 404 /\ HTTPStatus(200005) = 409 /\ HTTPStatus(200001) = 400
  BY SMT DEF HTTPStatus, ByRange
<1>4. HTTPStatus(200003) = 401 /\ HTTPStatus(200004) = 403 /\ HTTPStatus(300004) = 429
  BY SMT DEF HTTPStatus, ByRange
<1>5. ASSUME NEW does \in DOMAIN Returns
      PROVE  HTTPStatus(Returns[does]) \in {200, 404, 409, 500}
  BY <1>1, <1>2, <1>3, SMT DEF Returns
<1> QED
  BY <1>2, <1>3, <1>4, <1>5, SMT DEF ParamError, Unauthorized, Forbidden, InternalError, RateLimit

LEMMA NewPassage == DOMAIN NewRequest = Fields /\ Passage(NewRequest)
  BY DEF NewRequest, Fields, Passage, Stages, Statuses, Flags, Early, Within, Done, Permitted

\* CORS: a preflight is answered at once.
LEMMA ArrivePassage ==
    ASSUME NEW x, NEW t
    PROVE  LET q == [NewRequest EXCEPT !.sent = x, !.start = t]
           IN  /\ x.method = "OPTIONS" => Passage([q EXCEPT !.status = 204, !.pc = "done"])
               /\ Passage([q EXCEPT !.pc = "guard"])
  BY DEF NewRequest, Passage, Stages, Statuses, Flags, Early, Within, Done, Permitted

\* The limiters: the request is held, turned away or let in.
LEMMA HeldPassage ==
    ASSUME NEW q, NEW p, Passage(q), q.pc \in Early,
           Same(q, p, {"pc", "bucket"}), p.pc \in Early
    PROVE  Passage(p)
  BY DEF Same, Fields, Passage, Stages, Statuses, Flags, Early, Within, Done, Permitted

LEMMA MatchedPassage ==
    ASSUME NEW q, NEW p, Passage(q), q.pc \in Early,
           Same(q, p, {"pc", "resource", "due", "excused"}),
           p.pc = "matched", p.due \in BOOLEAN, p.excused \in BOOLEAN
    PROVE  Passage(p)
  BY DEF Same, Fields, Passage, Stages, Statuses, Flags, Early, Within, Done, Permitted

LEMMA TurnedAwayPassage ==
    ASSUME NEW q, NEW p, Passage(q), q.pc \in Early,
           Same(q, p, {"pc", "status", "limited", "panicked"}),
           p.pc = "done", p.status \in {429, 500}, p.limited \in BOOLEAN, p.panicked \in BOOLEAN
    PROVE  Passage(p)
  BY DEF Same, Fields, Passage, Stages, Statuses, Flags, Early, Within, Done, Permitted

LEMMA LetInPassage ==
    ASSUME NEW q, NEW p, Passage(q), q.pc \in Early,
           Same(q, p, {"pc", "passed", "inside", "limited"}),
           p.pc = "in", p.passed = TRUE, p.inside \in BOOLEAN, p.limited \in BOOLEAN
    PROVE  Passage(p)
<1>1. /\ p.sent = q.sent /\ p.resource = q.resource /\ p.due = q.due /\ p.excused = q.excused
      /\ p.authenticated = q.authenticated /\ p.handled = q.handled /\ p.panicked = q.panicked /\ p.status = q.status
      /\ p.logged = q.logged
  BY DEF Same, Fields
<1>2. \A f \in Flags : p[f] \in BOOLEAN
  <2>1. \A f \in Flags : q[f] \in BOOLEAN
    BY DEF Passage
  <2> QED
    BY <2>1 DEF Same, Flags, Fields
<1>3. Permitted(p) = Permitted(q)
  BY <1>1 DEF Permitted
<1> QED
  BY <1>1, <1>2, <1>3 DEF Passage, Stages, Statuses, Early, Within, Done

\* The steps of the route.
LEMMA RoutedPassage ==
    ASSUME NEW q, NEW p, Passage(q), q.pc = "in",
           Same(q, p, {"pc"}), Matching(q.sent) # {},
           p.pc = IF q.sent.group = "protected" THEN "auth" ELSE "handler"
    PROVE  Passage(p)
  BY DEF Same, Fields, Passage, Stages, Statuses, Flags, Early, Within, Done, Permitted

LEMMA RefusedPassage ==
    ASSUME NEW q, NEW p, Passage(q), q.pc \in {"in", "auth"},
           Same(q, p, {"pc", "status", "authenticated"}), p.pc = "unwind",
           p.status \in {401, 403, 404, 500}, p.authenticated \in BOOLEAN
    PROVE  Passage(p)
  BY DEF Same, Fields, Passage, Stages, Statuses, Flags, Early, Within, Done, Permitted

LEMMA PermittedPassage ==
    ASSUME NEW q, NEW p, Passage(q), q.pc = "auth",
           Same(q, p, {"pc", "authenticated"}), p.pc = "handler",
           p.authenticated \in BOOLEAN, Permitted(p)
    PROVE  Passage(p)
  BY DEF Same, Fields, Passage, Stages, Statuses, Flags, Early, Within, Done, Permitted

LEMMA HandledPassage ==
    ASSUME NEW q, NEW p, Passage(q), q.pc = "handler",
           Same(q, p, {"pc", "status", "handled", "panicked"}), p.pc = "unwind",
           p.status \in {200, 400, 404, 409, 500}, p.handled \in BOOLEAN, p.panicked \in BOOLEAN,
           ~ p.handled => p.status = 400 /\ ~ p.panicked
    PROVE  Passage(p)
  BY DEF Same, Fields, Passage, Stages, Statuses, Flags, Early, Within, Done, Permitted

\* The way back: the log before the recovery, so a panic is not in it.
LEMMA UnwoundPassage ==
    ASSUME NEW q, NEW p, Passage(q), q.pc = "unwind",
           Same(q, p, {"pc", "status", "inside", "logged"}), p.pc = "done",
           p.inside = FALSE, p.status = IF q.panicked THEN 500 ELSE q.status,
           p.logged = q.logged \/ (~ q.panicked /\ p.logged = q.status),
           q.panicked \/ q.sent.path \in Probes \/ p.logged = q.status
    PROVE  Passage(p)
<1>1. /\ p.sent = q.sent /\ p.resource = q.resource /\ p.due = q.due /\ p.excused = q.excused
      /\ p.limited = q.limited /\ p.passed = q.passed /\ p.authenticated = q.authenticated /\ p.handled = q.handled
      /\ p.panicked = q.panicked
  BY DEF Same, Fields
<1>2. \A f \in Flags : p[f] \in BOOLEAN
  <2>1. \A f \in Flags : q[f] \in BOOLEAN
    BY DEF Passage
  <2>2. p.inside \in BOOLEAN
    OBVIOUS
  <2> QED
    BY <2>1, <2>2, <1>1 DEF Flags
<1>3. Permitted(p) = Permitted(q)
  BY <1>1 DEF Permitted
<1> QED
  BY <1>1, <1>2, <1>3 DEF Passage, Stages, Statuses, Early, Within, Done

LEMMA ExcusedPassage ==
    ASSUME NEW q, NEW p, Passage(q), q.pc = "matched",
           Same(q, p, {"excused"}), p.excused = TRUE
    PROVE  Passage(p)
<1>1. /\ p.pc = q.pc /\ p.sent = q.sent /\ p.resource = q.resource /\ p.due = q.due
      /\ p.limited = q.limited /\ p.inside = q.inside /\ p.passed = q.passed /\ p.authenticated = q.authenticated
      /\ p.handled = q.handled /\ p.panicked = q.panicked /\ p.status = q.status /\ p.logged = q.logged
  BY DEF Same, Fields
<1>2. \A f \in Flags : p[f] \in BOOLEAN
  <2>1. \A f \in Flags : q[f] \in BOOLEAN
    BY DEF Passage
  <2> QED
    BY <2>1 DEF Same, Flags, Fields
<1>3. Permitted(p) = Permitted(q)
  BY <1>1 DEF Permitted
<1> QED
  BY <1>1, <1>2, <1>3 DEF Passage, Stages, Statuses, Early, Within, Done

-----------------------------------------------------------------------------
(* A step of a request.                                                    *)

LEMMA MoveOne ==
    ASSUME Shape, NEW r \in Requests, NEW q, DOMAIN q = Fields, Move(r, q)
    PROVE  Shape' /\ req'[r] = q /\ \A s \in Requests \ {r} : req'[s] = req[s]
  BY DEF Shape, Move

LEMMA MovePassage ==
    ASSUME PassageInv, NEW r \in Requests, NEW q, NEW fields, Same(req[r], q, fields),
           "sent" \notin fields, Move(r, q), setup' = setup, sentinel' = sentinel,
           Passage(q), req[r].pc # "new",
           q.pc = "matched" => guard = "sentinel" /\ sentinel = "up",
           q.pc \in {"create", "bucket"} => guard = "ip"
    PROVE  PassageInv' /\ Turn(r, fields)
<1>0. DOMAIN q = Fields /\ q.sent = req[r].sent
  BY DEF Same, Fields
<1>1. Shape' /\ req'[r] = q /\ \A s \in Requests \ {r} : req'[s] = req[s]
  BY <1>0, MoveOne DEF PassageInv
<1>2. PassageInv'
  BY <1>0, <1>1 DEF PassageInv, Sender, guard
<1> QED
  BY <1>1, <1>2 DEF Turn

LEMMA TurnMore ==
    ASSUME NEW r, NEW f, NEW g, Turn(r, f), f \subseteq g
    PROVE  Turn(r, g)
  BY DEF Turn, Same

\* A request arrives.
LEMMA ArriveStep ==
    ASSUME PassageInv, NEW r \in Requests, Arrive(r)
    PROVE  /\ PassageInv' /\ Turn(r, {"pc", "sent", "start", "status"})
           /\ req'[r].pc \in {"done", "guard"} /\ req'[r].status \in {200, 204}
<1>1. PICK x \in setup.sends[r] :
        LET q == [req[r] EXCEPT !.sent = x, !.start = now]
        IN  Local(r, IF x.method = "OPTIONS" THEN [q EXCEPT !.status = 204, !.pc = "done"]
                     ELSE [q EXCEPT !.pc = "guard"])
  BY DEF Arrive
<1> DEFINE a == [NewRequest EXCEPT !.sent = x, !.start = now]
           q == IF x.method = "OPTIONS" THEN [a EXCEPT !.status = 204, !.pc = "done"]
                ELSE [a EXCEPT !.pc = "guard"]
<1>2. req[r] = NewRequest /\ r \in DOMAIN setup.sends
  BY DEF PassageInv, Passage, Arrive
<1>3. Move(r, q) /\ UNCHANGED <<setup, sentinel>>
  BY <1>1, <1>2 DEF Local, sentinelVars
<1>4. DOMAIN q = Fields /\ q.sent = x /\ q.pc \in {"done", "guard"} /\ q.status \in {200, 204}
  BY NewPassage DEF Fields, NewRequest
<1>5. Passage(q)
  BY ArrivePassage
<1>a. Same(NewRequest, q, {"pc", "sent", "start", "status"})
  BY NewPassage DEF Same, Fields
<1> HIDE DEF q
<1>6. Shape' /\ req'[r] = q /\ \A s \in Requests \ {r} : req'[s] = req[s]
  BY <1>3, <1>4, MoveOne DEF PassageInv
<1>7. PassageInv'
  BY <1>2, <1>3, <1>4, <1>5, <1>6 DEF PassageInv, Sender, guard
<1> QED
  BY <1>2, <1>4, <1>6, <1>7, <1>a DEF Turn

\* Sentinel: the request is dereferenced in vain, matched, refused or let in.
SentinelFields ==
    {"pc", "status", "panicked", "resource", "due", "excused", "limited", "inside", "passed"}

LEMMA SentinelSteps ==
    ASSUME PassageInv, RulesInv, NEW r \in Requests,
           Dereference(r) \/ Match(r) \/ \E refuses \in BOOLEAN : Enter(r, refuses)
    PROVE  PassageInv' /\ Turn(r, SentinelFields)
<1> DEFINE q == req[r]
<1>q. DOMAIN q = Fields /\ Passage(q) /\ Sender(r)
  BY DEF PassageInv, Shape
<1>e. {"guard", "matched", "create", "bucket"} = Early /\ "new" \notin Early
  BY DEF Early
<1>f. /\ {"pc", "status", "limited", "panicked"} \subseteq SentinelFields
      /\ {"pc", "resource", "due", "excused"} \subseteq SentinelFields
      /\ {"pc", "passed", "inside", "limited"} \subseteq SentinelFields
      /\ "sent" \notin SentinelFields
  BY DEF SentinelFields
<1>1. CASE Dereference(r)
  <2> DEFINE p == [q EXCEPT !.panicked = TRUE, !.status = 500, !.pc = "done"]
  <2>1. Move(r, p) /\ UNCHANGED <<setup, sentinel>> /\ q.pc = "guard"
    BY <1>1 DEF Dereference, Local, sentinelVars
  <2>2. Same(q, p, {"pc", "status", "limited", "panicked"})
    BY <1>q DEF Same, Fields
  <2>3. p.pc = "done" /\ p.status = 500 /\ p.panicked = TRUE /\ p.limited \in BOOLEAN
    BY <1>q DEF Fields, Passage, Flags
  <2> HIDE DEF p
  <2>4. Passage(p)
    BY <1>q, <1>e, <2>1, <2>2, <2>3, TurnedAwayPassage
  <2> QED
    BY <2>1, <2>2, <2>3, <2>4, <1>q, <1>e, MovePassage, TurnMore, <1>f DEF Sender
<1>2. CASE Match(r)
  <2> DEFINE due == Limits(loaded, FullPath(q.sent))
             p == [q EXCEPT !.resource = matchResource(resourceMap, FullPath(q.sent)),
                            !.due = due, !.excused = refresh.failed, !.pc = "matched"]
  <2>1. Move(r, p) /\ UNCHANGED <<setup, sentinel>> /\ q.pc = "guard"
        /\ guard = "sentinel" /\ sentinel = "up"
    BY <1>2 DEF Match, Local, sentinelVars
  <2>2. Same(q, p, {"pc", "resource", "due", "excused"})
    BY <1>q DEF Same, Fields
  <2>3. p.pc = "matched" /\ p.due \in BOOLEAN /\ p.excused \in BOOLEAN
    BY <1>q DEF Fields, RulesInv, Limits
  <2> HIDE DEF p
  <2>4. Passage(p)
    BY <1>q, <1>e, <2>1, <2>2, <2>3, MatchedPassage
  <2> QED
    BY <2>1, <2>2, <2>3, <2>4, <1>q, <1>e, MovePassage, TurnMore, <1>f DEF Sender
<1>3. ASSUME NEW refuses \in BOOLEAN, Enter(r, refuses)
      PROVE  PassageInv' /\ Turn(r, SentinelFields)
  <2> DEFINE a == [q EXCEPT !.limited = q.resource \in flowRules]
             p == IF refuses THEN [a EXCEPT !.status = 429, !.pc = "done"]
                  ELSE [a EXCEPT !.inside = TRUE, !.passed = TRUE, !.pc = "in"]
  <2>1. Move(r, p) /\ UNCHANGED <<setup, sentinel>> /\ q.pc = "matched"
    BY <1>3, StatusOf DEF Enter, sentinelVars
  <2>2. IF refuses THEN Same(q, p, {"pc", "status", "limited", "panicked"})
        ELSE Same(q, p, {"pc", "passed", "inside", "limited"})
    BY <1>q DEF Same, Fields
  <2>3. p.limited \in BOOLEAN /\ IF refuses THEN p.pc = "done" /\ p.status = 429
                                ELSE p.pc = "in" /\ p.inside = TRUE /\ p.passed = TRUE
    BY <1>q DEF Fields
  <2>4. p.panicked = q.panicked /\ q.panicked \in BOOLEAN
    BY <1>q DEF Fields, Passage, Flags
  <2> HIDE DEF p
  <2>5. Passage(p)
    BY <1>q, <1>e, <2>1, <2>2, <2>3, <2>4, TurnedAwayPassage, LetInPassage
  <2> QED
    BY <2>1, <2>2, <2>3, <2>5, MovePassage, TurnMore, <1>f
<1> QED
  BY <1>1, <1>2, <1>3

\* The other limiters: the request is held, refused or let in.
BucketFields == {"pc", "bucket", "status", "passed"}

LEMMA BucketSteps ==
    ASSUME PassageInv, NEW r \in Requests,
           LookUp(r) \/ Create(r) \/ Allow(r) \/ \E reached \in BOOLEAN : Ask(r, reached)
    PROVE  PassageInv' /\ Turn(r, BucketFields)
<1> DEFINE q == req[r]
<1>q. DOMAIN q = Fields /\ Passage(q) /\ Sender(r)
  BY DEF PassageInv, Shape
<1>e. {"guard", "matched", "create", "bucket"} = Early /\ "new" \notin Early
  BY DEF Early
<1>f. /\ {"pc", "bucket"} \subseteq BucketFields
      /\ {"pc", "passed"} \subseteq BucketFields /\ {"pc", "status"} \subseteq BucketFields
  BY DEF BucketFields
<1>1. CASE LookUp(r)
  <2> DEFINE p == IF q.sent.ip \in DOMAIN limiterMap
                  THEN [q EXCEPT !.bucket = limiterMap[q.sent.ip], !.pc = "bucket"]
                  ELSE [q EXCEPT !.pc = "create"]
  <2>1. Move(r, p) /\ UNCHANGED <<setup, sentinel>> /\ q.pc = "guard" /\ guard = "ip"
    BY <1>1 DEF LookUp, sentinelVars
  <2>2. Same(q, p, {"pc", "bucket"})
    BY <1>q DEF Same, Fields
  <2>3. p.pc \in {"bucket", "create"}
    BY <1>q DEF Fields
  <2> HIDE DEF p
  <2>4. Passage(p)
    BY <1>q, <1>e, <2>1, <2>2, <2>3, HeldPassage
  <2> QED
    BY <2>1, <2>2, <2>3, <2>4, <1>q, <1>e, MovePassage, TurnMore, <1>f DEF Sender
<1>2. CASE Create(r)
  <2> DEFINE b == limiterMap'[q.sent.ip]
             p == [q EXCEPT !.bucket = b, !.pc = "bucket"]
  <2>1. Move(r, p) /\ UNCHANGED <<setup, sentinel>> /\ q.pc = "create" /\ guard = "ip"
    BY <1>q, <1>2 DEF Create, sentinelVars, Sender
  <2>2. Same(q, p, {"pc", "bucket"})
    BY <1>q DEF Same, Fields
  <2>3. p.pc = "bucket"
    BY <1>q DEF Fields
  <2> HIDE DEF p
  <2>4. Passage(p)
    BY <1>q, <1>e, <2>1, <2>2, <2>3, HeldPassage
  <2> QED
    BY <2>1, <2>2, <2>3, <2>4, <1>q, <1>e, MovePassage, TurnMore, <1>f DEF Sender
<1>3. CASE Allow(r)
  <2> DEFINE p == IF Allowed(q.bucket) THEN [q EXCEPT !.passed = TRUE, !.pc = "in"]
                  ELSE [q EXCEPT !.status = 429, !.pc = "done"]
  <2>1. Move(r, p) /\ UNCHANGED <<setup, sentinel>> /\ q.pc = "bucket"
    BY <1>3 DEF Allow, sentinelVars
  <2>2. IF Allowed(q.bucket) THEN Same(q, p, {"pc", "passed"}) ELSE Same(q, p, {"pc", "status"})
    BY <1>q DEF Same, Fields
  <2>a. IF Allowed(q.bucket) THEN Same(q, p, {"pc", "passed", "inside", "limited"})
        ELSE Same(q, p, {"pc", "status", "limited", "panicked"})
    BY <1>q DEF Same, Fields
  <2>3. IF Allowed(q.bucket) THEN p.pc = "in" /\ p.passed = TRUE ELSE p.pc = "done" /\ p.status = 429
    BY <1>q DEF Fields
  <2>4. /\ p.panicked = q.panicked /\ q.panicked \in BOOLEAN
        /\ p.inside = q.inside /\ q.inside \in BOOLEAN
        /\ p.limited = q.limited /\ q.limited \in BOOLEAN
    BY <1>q DEF Fields, Passage, Flags
  <2> HIDE DEF p
  <2>5. Passage(p)
    BY <1>q, <1>e, <2>1, <2>a, <2>3, <2>4, TurnedAwayPassage, LetInPassage
  <2> QED
    BY <2>1, <2>2, <2>3, <2>5, MovePassage, TurnMore, <1>f
<1>4. ASSUME NEW reached \in BOOLEAN, Ask(r, reached)
      PROVE  PassageInv' /\ Turn(r, BucketFields)
  <2>0. PICK passes \in BOOLEAN :
            Move(r, IF passes THEN [q EXCEPT !.passed = TRUE, !.pc = "in"]
                    ELSE [q EXCEPT !.status = 429, !.pc = "done"])
    BY <1>4 DEF Ask, Refused
  <2> DEFINE p == IF passes THEN [q EXCEPT !.passed = TRUE, !.pc = "in"]
                  ELSE [q EXCEPT !.status = 429, !.pc = "done"]
  <2>1. Move(r, p) /\ UNCHANGED <<setup, sentinel>> /\ q.pc = "guard"
    BY <1>4, <2>0 DEF Ask, sentinelVars
  <2>2. IF passes THEN Same(q, p, {"pc", "passed"}) ELSE Same(q, p, {"pc", "status"})
    BY <1>q DEF Same, Fields
  <2>a. IF passes THEN Same(q, p, {"pc", "passed", "inside", "limited"})
        ELSE Same(q, p, {"pc", "status", "limited", "panicked"})
    BY <1>q DEF Same, Fields
  <2>3. IF passes THEN p.pc = "in" /\ p.passed = TRUE ELSE p.pc = "done" /\ p.status = 429
    BY <1>q DEF Fields
  <2>4. /\ p.panicked = q.panicked /\ q.panicked \in BOOLEAN
        /\ p.inside = q.inside /\ q.inside \in BOOLEAN
        /\ p.limited = q.limited /\ q.limited \in BOOLEAN
    BY <1>q DEF Fields, Passage, Flags
  <2> HIDE DEF p
  <2>5. Passage(p)
    BY <1>q, <1>e, <2>1, <2>a, <2>3, <2>4, TurnedAwayPassage, LetInPassage
  <2> QED
    BY <2>1, <2>2, <2>3, <2>5, MovePassage, TurnMore, <1>f
<1> QED
  BY <1>1, <1>2, <1>3, <1>4

\* The request goes through its route.
RouteFields ==
    {"pc", "status", "authenticated", "handled", "panicked", "inside", "logged"}

LEMMA RouteSteps ==
    ASSUME PassageInv, NEW r \in Requests,
           Route(r) \/ Authenticate(r) \/ Handle(r) \/ Unwind(r)
    PROVE  PassageInv' /\ Turn(r, RouteFields)
<1> DEFINE q == req[r]
<1>q. DOMAIN q = Fields /\ Passage(q) /\ Sender(r) /\ (q.authenticated \in BOOLEAN)
  BY DEF PassageInv, Shape, Passage, Flags
<1>f. /\ {"pc"} \subseteq RouteFields
      /\ {"pc", "authenticated"} \subseteq RouteFields
      /\ {"pc", "status", "authenticated"} \subseteq RouteFields
      /\ {"pc", "status", "handled", "panicked"} \subseteq RouteFields
      /\ {"pc", "status", "inside", "logged"} \subseteq RouteFields
  BY DEF RouteFields
<1>1. CASE Route(r)
  <2> DEFINE p == IF Matching(q.sent) = {} THEN [q EXCEPT !.status = 404, !.pc = "unwind"]
                  ELSE [q EXCEPT !.pc = IF q.sent.group = "protected" THEN "auth"
                                        ELSE "handler"]
  <2>1. Move(r, p) /\ UNCHANGED <<setup, sentinel>> /\ q.pc = "in"
    BY <1>1 DEF Route, Local, sentinelVars
  <2>2. CASE Matching(q.sent) = {}
    <3>1. Same(q, p, {"pc", "status", "authenticated"})
      BY <1>q, <2>2 DEF Same, Fields
    <3>2. p.pc = "unwind" /\ p.status = 404 /\ p.authenticated \in BOOLEAN
      BY <1>q, <2>2 DEF Fields
    <3> HIDE DEF p
    <3>3. Passage(p)
      BY <1>q, <2>1, <3>1, <3>2, RefusedPassage
    <3> QED
      BY <2>1, <3>1, <3>2, <3>3, MovePassage, TurnMore, <1>f
  <2>3. CASE Matching(q.sent) # {}
    <3>1. Same(q, p, {"pc"})
      BY <1>q, <2>3 DEF Same, Fields
    <3>2. p.pc = IF q.sent.group = "protected" THEN "auth" ELSE "handler"
      BY <1>q, <2>3 DEF Fields
    <3> HIDE DEF p
    <3>3. Passage(p)
      BY <1>q, <2>1, <2>3, <3>1, <3>2, RoutedPassage
    <3> QED
      BY <2>1, <3>1, <3>2, <3>3, MovePassage, TurnMore, <1>f
  <2> QED
    BY <2>2, <2>3
<1>2. CASE Authenticate(r)
  <2> DEFINE valid == q.sent.who # "rejected"
             a == [q EXCEPT !.authenticated = valid]
             refused == \/ q.sent.who = "rejected"
                        \/ q.sent.who \in DOMAIN Refusals /\ Enable /\ ~ isExcludedPath(q.sent)
             status == HTTPStatus(Refusals[q.sent.who])
             p == IF refused THEN [a EXCEPT !.status = status, !.pc = "unwind"]
                  ELSE [a EXCEPT !.pc = "handler"]
  <2>1. q.pc = "auth" /\ UNCHANGED <<setup, sentinel>>
        /\ Move(r, StepDone(IF refused THEN Aborted(a, Refusals[q.sent.who]) ELSE a))
    BY <1>2 DEF Authenticate, Local, sentinelVars
  <2>2. StepDone(IF refused THEN Aborted(a, Refusals[q.sent.who]) ELSE a) = p
    BY <1>q, <2>1 DEF StepDone, Aborted, Fields
  <2>3. Move(r, p)
    BY <2>1, <2>2
  <2>4. q.sent.who \in Credentials
    BY <1>q, <2>1, SetupsAssumption DEF Sender, PassageInv
  <2>5. CASE refused
    <3>1. HTTPStatus(Unauthorized) = 401 /\ HTTPStatus(InternalError) = 500
          /\ HTTPStatus(Forbidden) = 403
      BY StatusOf
    <3>2. q.sent.who \in {"rejected", "unchecked", "denied"}
      BY <2>5 DEF Refusals
    <3>3. status \in {401, 403, 500}
      BY <3>1, <3>2 DEF Refusals
    <3> HIDE DEF status, valid, refused
    <3>4. Same(q, p, {"pc", "status", "authenticated"})
      BY <1>q, <2>5 DEF Same, Fields
    <3>5. p.pc = "unwind" /\ p.status = status /\ p.authenticated = valid
      BY <1>q, <2>5 DEF Fields
    <3>6. valid \in BOOLEAN
      BY DEF valid
    <3> HIDE DEF p
    <3>7. Passage(p)
      BY <1>q, <2>1, <3>3, <3>4, <3>5, <3>6, RefusedPassage
    <3> QED
      BY <2>1, <2>3, <3>4, <3>5, <3>7, MovePassage, TurnMore, <1>f
  <2>6. CASE ~ refused
    <3>1. Same(q, p, {"pc", "authenticated"})
      BY <1>q, <2>6 DEF Same, Fields
    <3>2. p.pc = "handler" /\ p.authenticated = valid /\ p.sent = q.sent
      BY <1>q, <2>6 DEF Fields
    <3>3. Permitted(p)
      <4>1. valid /\ (Enable /\ ~ isExcludedPath(q.sent) => q.sent.who = "permitted")
        BY <2>4, <2>6 DEF Refusals, Credentials
      <4> HIDE DEF p, valid
      <4> QED
        BY <3>2, <4>1 DEF Permitted
    <3> HIDE DEF p
    <3>4. Passage(p)
      BY <1>q, <2>1, <3>1, <3>2, <3>3, PermittedPassage
    <3> QED
      BY <2>1, <2>3, <3>1, <3>2, <3>4, MovePassage, TurnMore, <1>f
  <2> QED
    BY <2>5, <2>6
<1>3. CASE Handle(r)
  <2> DEFINE does == q.sent.does
             a == [q EXCEPT !.handled = does # "misfit", !.pc = "unwind"]
             p == CASE does \in DOMAIN Returns -> [a EXCEPT !.status = HTTPStatus(Returns[does])]
                    [] does = "misfit" -> [a EXCEPT !.status = HTTPStatus(ParamError)]
                    [] does = "error" -> [a EXCEPT !.status = 500]
                    [] does = "panic" -> [a EXCEPT !.panicked = TRUE]
                    [] does = "nil" -> a
  <2>1. Move(r, p) /\ UNCHANGED <<setup, sentinel>> /\ q.pc = "handler"
    BY <1>3 DEF Handle, Local, sentinelVars
  <2>2. does \in Does
    BY <1>q, <2>1, SetupsAssumption DEF Sender, PassageInv
  <2>3. {"misfit", "error", "panic", "nil"} \cap DOMAIN Returns = {}
    BY DEF Returns
  <2>4. /\ Same(q, p, {"pc", "status", "handled", "panicked"})
        /\ p.pc = "unwind" /\ p.status \in {200, 400, 404, 409, 500}
        /\ p.handled \in BOOLEAN /\ p.panicked \in BOOLEAN
        /\ ~ p.handled => p.status = 400 /\ ~ p.panicked
    <3>q. q.status = 200 /\ q.panicked = FALSE
      BY <1>q, <2>1 DEF Passage, Flags
    <3>1. CASE does \in DOMAIN Returns
      <4>1. p = [a EXCEPT !.status = HTTPStatus(Returns[does])] /\ does # "misfit"
            /\ HTTPStatus(Returns[does]) \in {200, 404, 409, 500}
        BY <2>3, <3>1, StatusOf
      <4> HIDE DEF p
      <4>2. Same(q, p, {"pc", "status", "handled", "panicked"})
        BY <1>q, <4>1 DEF Same, Fields
      <4>3. p.pc = "unwind" /\ p.handled = TRUE /\ p.panicked = FALSE
        BY <1>q, <3>q, <3>1, <4>1 DEF Fields
      <4>4. p.status = HTTPStatus(Returns[does])
        BY <1>q, <4>1 DEF Fields
      <4>5. p.status \in {200, 400, 404, 409, 500}
        BY <3>1, <4>4, StatusOf
      <4> QED
        BY <4>2, <4>3, <4>5
    <3>2. CASE does = "misfit"
      <4>1. p = [a EXCEPT !.status = 400]
        BY <2>3, <3>2, StatusOf
      <4> HIDE DEF p
      <4> QED
        BY <1>q, <3>q, <3>2, <4>1 DEF Same, Fields
    <3>3. CASE does = "error"
      <4>1. p = [a EXCEPT !.status = 500]
        BY <2>3, <3>3
      <4> HIDE DEF p
      <4>2. Same(q, p, {"pc", "status", "handled", "panicked"})
        BY <1>q, <4>1 DEF Same, Fields
      <4>3. p.pc = "unwind" /\ p.status = 500 /\ p.handled = TRUE /\ p.panicked = FALSE
        BY <1>q, <3>q, <3>3, <4>1 DEF Fields
      <4> QED
        BY <4>1, <4>2, <4>3
    <3>4. CASE does = "panic"
      <4>1. p = [a EXCEPT !.panicked = TRUE]
        BY <2>3, <3>4
      <4> HIDE DEF p
      <4> QED
        BY <1>q, <3>q, <3>4, <4>1 DEF Same, Fields
    <3>5. CASE does = "nil"
      <4>1. p = a
        BY <2>3, <3>5
      <4> HIDE DEF p
      <4> QED
        BY <1>q, <3>q, <3>5, <4>1 DEF Same, Fields
    <3> QED
      BY <3>1, <3>2, <3>3, <3>4, <3>5, <2>2 DEF Does
  <2> HIDE DEF p
  <2>5. Passage(p)
    BY <1>q, <2>1, <2>4, HandledPassage
  <2> QED
    BY <2>1, <2>4, <2>5, MovePassage, TurnMore, <1>f
<1>4. CASE Unwind(r)
  <2> DEFINE log == LogOut(q)
             rec == RecoverOut(log)
             p == [rec EXCEPT !.inside = FALSE, !.pc = "done"]
  <2>1. Move(r, p) /\ UNCHANGED <<setup, sentinel>> /\ q.pc = "unwind"
    BY <1>4 DEF Unwind, sentinelVars
  <2>2. /\ Same(q, log, {"logged"})
        /\ log.logged = q.logged \/ (~ q.panicked /\ log.logged = q.status)
        /\ q.panicked \/ q.sent.path \in Probes \/ log.logged = q.status
    BY <1>q DEF Same, Fields, LogOut
  <2> HIDE DEF log
  <2>3. Same(log, rec, {"status"}) /\ rec.status = IF log.panicked THEN 500 ELSE log.status
    BY <2>2, StatusOf DEF Same, Fields, RecoverOut
  <2> HIDE DEF rec
  <2>4. Same(rec, p, {"pc", "inside"}) /\ p.pc = "done" /\ p.inside = FALSE
    BY <2>3 DEF Same, Fields
  <2> HIDE DEF p
  <2>5. Same(q, p, {"pc", "status", "inside", "logged"})
    BY <2>2, <2>3, <2>4 DEF Same
  <2>6. p.status = (IF q.panicked THEN 500 ELSE q.status) /\ p.logged = log.logged
    BY <2>2, <2>3, <2>4 DEF Same, Fields
  <2>7. Passage(p)
    BY <1>q, <2>1, <2>2, <2>4, <2>5, <2>6, UnwoundPassage
  <2> QED
    BY <2>1, <2>4, <2>5, <2>7, MovePassage, TurnMore, <1>f
<1> QED
  BY <1>1, <1>2, <1>3, <1>4

\* A loading of the rules marks the requests between Match and Enter.
LEMMA ExcuseSteps ==
    ASSUME Shape, Excuse
    PROVE  /\ Shape'
           /\ \A r \in Requests :
                IF req[r].pc = "matched"
                THEN Same(req[r], req'[r], {"excused"}) /\ req'[r].excused = TRUE
                ELSE req'[r] = req[r]
<1>1. \A r \in Requests :
        req'[r] = IF req[r].pc = "matched" THEN [req[r] EXCEPT !.excused = TRUE] ELSE req[r]
  BY DEF Excuse
<1>2. DOMAIN req' = Requests
  BY DEF Excuse
<1>3. \A r \in Requests : DOMAIN req'[r] = Fields
  BY <1>1 DEF Shape, Fields
<1> QED
  BY <1>1, <1>2, <1>3 DEF Shape, Same, Fields

LEMMA InitPassage == Init => PassageInv
<1> SUFFICES ASSUME Init PROVE PassageInv
  OBVIOUS
<1>1. DOMAIN req = Requests /\ \A r \in Requests : req[r] = NewRequest
  BY DEF Init
<1>2. NewRequest.pc = "new"
  BY DEF NewRequest
<1> QED
  BY <1>1, <1>2, NewPassage DEF Init, PassageInv, Shape, Sender

LEMMA SentinelPassage ==
    ASSUME PassageInv, SentinelStep
    PROVE  PassageInv'
<1>1. setup' = setup /\ (sentinel' = sentinel \/ sentinel = "none")
  BY DEF SentinelStep, WriteFile, InitSentinel, reloadConfig, BeginRefresh, ReplaceMap,
         LoadFlowRules, LoadBreakers
<1>2. CASE req' = req
  BY <1>1, <1>2 DEF PassageInv, Shape, Sender, guard
<1>3. CASE Excuse
  <2>1. /\ Shape'
        /\ \A r \in Requests :
            IF req[r].pc = "matched"
            THEN Same(req[r], req'[r], {"excused"}) /\ req'[r].excused = TRUE
            ELSE req'[r] = req[r]
    BY <1>3, ExcuseSteps DEF PassageInv
  <2>2. ASSUME NEW r \in Requests
        PROVE  /\ Passage(req'[r])
               /\ req'[r].pc = req[r].pc /\ req'[r].sent = req[r].sent
    <3>1. CASE req[r].pc = "matched"
      BY <2>1, <3>1, ExcusedPassage DEF PassageInv, Same, Fields
    <3>2. CASE req[r].pc # "matched"
      BY <2>1, <3>2 DEF PassageInv
    <3> QED
      BY <3>1, <3>2
  <2> QED
    BY <1>1, <2>1, <2>2 DEF PassageInv, Sender, guard
<1> QED
  BY <1>2, <1>3 DEF SentinelStep

\* Only the rules matter to the limits; the steps of a request leave them as they are.
LEMMA PassageStep ==
    ASSUME PassageInv, RulesInv, [Next]_vars
    PROVE  PassageInv'
<1>1. CASE SentinelStep
  BY <1>1, SentinelPassage
<1>2. CASE LimiterStep
  BY <1>2 DEF LimiterStep, sentinelVars, chainVars, PassageInv, Shape, Sender, guard
<1>3. ASSUME NEW r \in Requests, Arrive(r) \/ Progress(r)
      PROVE  PassageInv'
  BY <1>3, ArriveStep, SentinelSteps, BucketSteps, RouteSteps DEF Progress
<1>4. CASE UNCHANGED vars
  BY <1>4 DEF vars, sentinelVars, chainVars, PassageInv, Shape, Sender, guard
<1> QED
  BY <1>1, <1>2, <1>3, <1>4 DEF Next

-----------------------------------------------------------------------------
(* The limits of a path.                                                   *)

LEMMA InitLimits == Init => LimitsInv
<1> SUFFICES ASSUME Init PROVE LimitsInv
  OBVIOUS
<1>1. ToFlowRules(EmptyFile) = {}
  BY DEF ToFlowRules, Enabled, EmptyFile
<1>2. RulesInv
  BY <1>1 DEF Init, SentinelInit, RulesInv, Locked
<1>3. \A r \in Requests : req[r] = NewRequest
  BY DEF Init
<1> QED
  BY <1>2, <1>3 DEF LimitsInv, Told, NewRequest

LEMMA RulesStep ==
    ASSUME RulesInv, [Next]_vars
    PROVE  RulesInv'
<1>1. CASE UNCHANGED <<sentinelVars, loaded>>
  BY <1>1 DEF RulesInv, sentinelVars, Locked
<1>2. CASE SentinelStep
  <2>1. CASE \E contents \in Files : WriteFile(contents) /\ UNCHANGED loaded
    BY <2>1 DEF WriteFile, RulesInv, Locked
  <2>2. CASE InitSentinel(FALSE) /\ UNCHANGED loaded
    BY <2>2 DEF InitSentinel, RulesInv, Locked
  <2>3. CASE reloadConfig /\ UNCHANGED loaded
    BY <2>3 DEF reloadConfig, RulesInv, Locked
  <2>4. CASE BeginRefresh /\ UNCHANGED loaded
    BY <2>4 DEF BeginRefresh, RulesInv, Locked
  <2>5. CASE ReplaceMap /\ UNCHANGED loaded
    BY <2>5 DEF ReplaceMap, RulesInv, Locked
  <2>6. CASE LoadFlowRules(FALSE) /\ UNCHANGED loaded
    BY <2>6 DEF LoadFlowRules, FlowRulesLoaded, RulesInv, Locked
  <2>7. ASSUME NEW ok \in BOOLEAN, LoadBreakers(ok), UNCHANGED loaded
        PROVE  RulesInv'
    BY <2>7 DEF LoadBreakers, RulesInv, Locked
  <2>8. CASE InitSentinel(TRUE) /\ loaded' = file
    BY <2>8 DEF InitSentinel, RulesInv, Locked
  <2>9. CASE LoadFlowRules(TRUE) /\ loaded' = refresh.cfg
    BY <2>9 DEF LoadFlowRules, FlowRulesLoaded, RulesInv, Locked
  <2> QED
    BY <1>2, <2>1, <2>2, <2>3, <2>4, <2>5, <2>6, <2>7, <2>8, <2>9 DEF SentinelStep
<1>3. CASE LimiterStep
  BY <1>1, <1>3 DEF LimiterStep, chainVars
<1>4. ASSUME NEW r \in Requests, Arrive(r) \/ Progress(r)
      PROVE  RulesInv'
  BY <1>1, <1>4 DEF Arrive, Progress, Dereference, Match, Enter, LookUp, Create, Allow, Ask,
                    Route, Authenticate, Handle, Unwind, Local
<1>5. CASE UNCHANGED vars
  BY <1>1, <1>5 DEF vars, chainVars
<1> QED
  BY <1>2, <1>3, <1>4, <1>5 DEF Next

LEMMA KeptTold ==
    ASSUME NEW q, NEW p, NEW rules, NEW fields, Told(q, rules), Same(q, p, fields),
           fields \cap {"resource", "due", "excused", "limited"} = {},
           q.pc # "matched", p.pc # "matched",
           p.pc \in {"new", "guard", "create", "bucket"} =>
                q.pc \in {"new", "guard", "create", "bucket"}
    PROVE  Told(p, rules)
<1>1. p.resource = q.resource /\ p.due = q.due /\ p.excused = q.excused /\ p.limited = q.limited
  BY DEF Same, Fields
<1> QED
  BY <1>1 DEF Told

LEMMA MatchTold ==
    ASSUME PassageInv, RulesInv, NEW r \in Requests, Match(r)
    PROVE  Told(req'[r], ToFlowRules(loaded))
<1> DEFINE path == FullPath(req[r].sent)
           p == [req[r] EXCEPT !.resource = matchResource(resourceMap, path),
                               !.due = Limits(loaded, path), !.excused = refresh.failed,
                               !.pc = "matched"]
<1>1. req'[r] = p /\ MayRead
  BY MoveOne DEF Match, Local, Move, PassageInv, Shape
<1>2. DOMAIN req[r] = Fields
  BY DEF PassageInv, Shape
<1>3. p.pc = "matched" /\ p.excused = refresh.failed /\ p.due = Limits(loaded, path)
      /\ p.resource = matchResource(resourceMap, path)
  BY <1>2 DEF Fields
<1>4. ~ refresh.failed => resourceMap = ResourceMap(loaded)
  BY <1>1 DEF RulesInv, MayRead
<1> HIDE DEF p
<1> QED
  BY <1>1, <1>3, <1>4 DEF Told, Limits

LEMMA EnterTold ==
    ASSUME PassageInv, LimitsInv, NEW r \in Requests, NEW refuses \in BOOLEAN, Enter(r, refuses)
    PROVE  Told(req'[r], ToFlowRules(loaded))
<1> DEFINE a == [req[r] EXCEPT !.limited = req[r].resource \in flowRules]
           p == IF refuses THEN [a EXCEPT !.status = HTTPStatus(RateLimit), !.pc = "done"]
                ELSE [a EXCEPT !.inside = TRUE, !.passed = TRUE, !.pc = "in"]
<1>1. req'[r] = p /\ req[r].pc = "matched"
  BY DEF Enter, Move, PassageInv, Shape
<1>2. DOMAIN req[r] = Fields
  BY DEF PassageInv, Shape
<1>3. /\ p.pc \in {"done", "in"} /\ p.limited = (req[r].resource \in flowRules)
      /\ p.due = req[r].due /\ p.excused = req[r].excused /\ p.resource = req[r].resource
  BY <1>2 DEF Fields
<1> HIDE DEF p
<1> QED
  BY <1>1, <1>3 DEF Told, LimitsInv, RulesInv

LEMMA LimitsStep ==
    ASSUME PassageInv, LimitsInv, [Next]_vars
    PROVE  LimitsInv'
<1>1. RulesInv'
  BY RulesStep DEF LimitsInv
<1>2. ASSUME NEW r \in Requests, NEW fields, Turn(r, fields), UNCHANGED loaded,
             Told(req'[r], ToFlowRules(loaded))
      PROVE  LimitsInv'
  BY <1>1, <1>2 DEF LimitsInv, Turn
<1>3. ASSUME NEW r \in Requests, NEW fields, Turn(r, fields), UNCHANGED loaded,
             fields \cap {"resource", "due", "excused", "limited"} = {},
             req[r].pc # "matched", req'[r].pc # "matched",
             req'[r].pc \in {"new", "guard", "create", "bucket"} =>
                req[r].pc \in {"new", "guard", "create", "bucket"}
      PROVE  LimitsInv'
  <2>1. Told(req'[r], ToFlowRules(loaded))
    BY <1>3, KeptTold DEF LimitsInv, Turn
  <2> QED
    BY <1>2, <1>3, <2>1
<1>4. CASE SentinelStep
  <2>1. CASE UNCHANGED <<loaded, req>>
    BY <1>1, <2>1 DEF LimitsInv
  <2>2. CASE InitSentinel(TRUE) /\ loaded' = file /\ UNCHANGED req
    <3>1. \A r \in Requests : req[r].pc # "matched"
      BY <2>2 DEF InitSentinel, PassageInv, Sender
    <3> QED
      BY <1>1, <2>2, <3>1 DEF LimitsInv, Told
  <2>3. CASE Excuse
    <3>1. \A r \in Requests :
            IF req[r].pc = "matched"
            THEN Same(req[r], req'[r], {"excused"}) /\ req'[r].excused = TRUE
            ELSE req'[r] = req[r]
      BY <2>3, ExcuseSteps DEF PassageInv
    <3>2. ASSUME NEW r \in Requests
          PROVE  Told(req'[r], ToFlowRules(loaded'))
      <4>1. CASE req[r].pc = "matched"
        BY <3>1, <4>1 DEF Told, Same, Fields
      <4>2. CASE req[r].pc # "matched"
        BY <3>1, <4>2 DEF LimitsInv, Told
      <4> QED
        BY <4>1, <4>2
    <3> QED
      BY <1>1, <3>2 DEF LimitsInv
  <2> QED
    BY <1>4, <2>1, <2>2, <2>3 DEF SentinelStep
<1>5. CASE LimiterStep
  BY <1>1, <1>5 DEF LimiterStep, chainVars, LimitsInv
<1>6. ASSUME NEW r \in Requests, Arrive(r)
      PROVE  LimitsInv'
  <2>1. Turn(r, {"pc", "sent", "start", "status"}) /\ req'[r].pc \in {"done", "guard"}
    BY <1>6, ArriveStep
  <2>2. UNCHANGED loaded /\ req[r].pc = "new"
    BY <1>6 DEF Arrive, Local
  <2> QED
    BY <1>3, <2>1, <2>2
<1>7. ASSUME NEW r \in Requests, Dereference(r)
      PROVE  LimitsInv'
  <2>1. Turn(r, SentinelFields) /\ UNCHANGED loaded
    BY <1>7, SentinelSteps DEF LimitsInv, Dereference, Local
  <2>2. Told(req'[r], ToFlowRules(loaded))
    <3>1. req'[r] = [req[r] EXCEPT !.panicked = TRUE, !.status = 500, !.pc = "done"]
          /\ req[r].pc = "guard"
      BY <1>7 DEF Dereference, Local, Move, PassageInv, Shape
    <3>2. req'[r].pc = "done" /\ req'[r].resource = None
      BY <3>1 DEF PassageInv, Shape, Fields, LimitsInv, Told
    <3> QED
      BY <3>2 DEF Told
  <2> QED
    BY <1>2, <2>1, <2>2
<1>8. ASSUME NEW r \in Requests, Match(r)
      PROVE  LimitsInv'
  <2>1. Turn(r, SentinelFields) /\ UNCHANGED loaded
    BY <1>8, SentinelSteps DEF LimitsInv, Match, Local
  <2> QED
    BY <1>2, <1>8, <2>1, MatchTold DEF LimitsInv
<1>9. ASSUME NEW r \in Requests, NEW refuses \in BOOLEAN, Enter(r, refuses)
      PROVE  LimitsInv'
  <2>1. Turn(r, SentinelFields) /\ UNCHANGED loaded
    BY <1>9, SentinelSteps DEF LimitsInv, Enter
  <2> QED
    BY <1>2, <1>9, <2>1, EnterTold
<1>10. ASSUME NEW r \in Requests,
              LookUp(r) \/ Create(r) \/ Allow(r) \/ \E reached \in BOOLEAN : Ask(r, reached)
       PROVE  LimitsInv'
  <2>1. Turn(r, BucketFields) /\ UNCHANGED loaded
    BY <1>10, BucketSteps DEF LookUp, Create, Allow, Ask
  <2>2. BucketFields \cap {"resource", "due", "excused", "limited"} = {}
    BY DEF BucketFields
  <2>3. req[r].pc \in {"guard", "create", "bucket"}
    BY <1>10 DEF LookUp, Create, Allow, Ask
  <2>4. guard # "sentinel"
    BY <1>10 DEF LookUp, Create, Allow, Ask, PassageInv, Sender
  <2>5. req'[r].pc # "matched"
    BY <1>10, <2>4, BucketSteps DEF PassageInv, Sender, guard, LookUp, Create, Allow, Ask
  <2> QED
    BY <1>3, <2>1, <2>2, <2>3, <2>5
<1>11. ASSUME NEW r \in Requests, Route(r) \/ Authenticate(r) \/ Handle(r) \/ Unwind(r)
       PROVE  LimitsInv'
  <2>1. Turn(r, RouteFields) /\ PassageInv' /\ UNCHANGED loaded
    BY <1>11, RouteSteps DEF Route, Authenticate, Handle, Unwind, Local
  <2>2. RouteFields \cap {"resource", "due", "excused", "limited"} = {}
        /\ "passed" \notin RouteFields
    BY DEF RouteFields
  <2>3. req[r].pc \in Within
    BY <1>11 DEF Route, Authenticate, Handle, Unwind, Within
  <2>4. req[r].passed /\ req'[r].passed = req[r].passed
    BY <2>1, <2>2, <2>3 DEF PassageInv, Passage, Turn, Same, Fields
  <2>5. req'[r].pc \notin Early \cup {"new"}
    <3>1. Passage(req'[r])
      BY <2>1 DEF PassageInv
    <3>2. ~ NewRequest.passed
      BY DEF NewRequest
    <3> QED
      BY <2>4, <3>1, <3>2 DEF Passage
  <2> QED
    BY <1>3, <2>1, <2>2, <2>3, <2>5 DEF Early, Within
<1>12. CASE UNCHANGED vars
  BY <1>1, <1>12 DEF vars, chainVars, LimitsInv
<1> QED
  BY <1>4, <1>5, <1>6, <1>7, <1>8, <1>9, <1>10, <1>11, <1>12 DEF Next, Progress

-----------------------------------------------------------------------------
(* The buckets.                                                            *)

LEMMA SpentFinite ==
    ASSUME NEW S, IsFiniteSet(S), NEW most \in Nat, NEW held
    PROVE  /\ IsFiniteSet(Spent(S, most, held))
           /\ Cardinality(Spent(S, most, held)) \in Nat
           /\ Cardinality(Spent(S, most, held)) <= Cardinality(S) * most
<1> DEFINE T == 1 .. most
<1>1. IsFiniteSet(T) /\ Cardinality(T) = most
  BY FS_Interval
<1>2. IsFiniteSet(S \X T) /\ Cardinality(S \X T) = Cardinality(S) * Cardinality(T)
  BY <1>1, FS_Product
<1>3. Spent(S, most, held) \in SUBSET (S \X T)
  BY DEF Spent
<1> QED
  BY <1>1, <1>2, <1>3, FS_Subset, FS_CardinalityType

\* More buckets, and more that each may have given.
LEMMA SpentGrows ==
    ASSUME NEW S, NEW S2, IsFiniteSet(S2), S \subseteq S2,
           NEW most \in Nat, NEW most2 \in Nat, NEW held, NEW held2,
           \A b \in S : held[b] \in Nat /\ held2[b] \in Nat /\ most - held[b] <= most2 - held2[b]
    PROVE  Cardinality(Spent(S, most, held)) <= Cardinality(Spent(S2, most2, held2))
<1>1. IsFiniteSet(Spent(S2, most2, held2))
  BY SpentFinite
<1>2. ASSUME NEW x \in Spent(S, most, held)
      PROVE  x \in Spent(S2, most2, held2)
  <2>1. x \in S \X (1 .. most) /\ x[1] \in S /\ x[2] \in 1 .. most /\ x[2] <= most - held[x[1]]
    BY DEF Spent
  <2>2. x[2] <= most2 - held2[x[1]] /\ x[2] \in 1 .. most2
    BY <2>1
  <2> QED
    BY <2>1, <2>2 DEF Spent
<1> QED
  BY <1>1, <1>2, FS_Subset

\* A bucket lets one more pass.
LEMMA SpentOne ==
    ASSUME NEW S, IsFiniteSet(S), NEW most \in Nat, NEW held, NEW held2, NEW b \in S,
           \A x \in S : held[x] \in Nat,
           held[b] \in 1 .. most, held2[b] = held[b] - 1,
           \A x \in S \ {b} : held2[x] = held[x]
    PROVE  Cardinality(Spent(S, most, held)) + 1 <= Cardinality(Spent(S, most, held2))
<1> DEFINE A == Spent(S, most, held)
           e == <<b, most - held[b] + 1>>
<1>1. IsFiniteSet(A) /\ IsFiniteSet(Spent(S, most, held2))
  BY SpentFinite
<1>2. e \notin A
  BY DEF Spent
<1>3. IsFiniteSet(A \cup {e}) /\ Cardinality(A \cup {e}) = Cardinality(A) + 1
  BY <1>1, <1>2, FS_AddElement
<1>4. e \in Spent(S, most, held2)
  BY DEF Spent
<1>5. ASSUME NEW x \in A
      PROVE  x \in Spent(S, most, held2)
  <2>1. x \in S \X (1 .. most) /\ x[1] \in S /\ x[2] \in 1 .. most /\ x[2] <= most - held[x[1]]
    BY DEF Spent
  <2>2. x[2] <= most - held2[x[1]]
    BY <2>1
  <2> QED
    BY <2>1, <2>2 DEF Spent
<1>6. A \cup {e} \in SUBSET Spent(S, most, held2)
  BY <1>4, <1>5
<1> QED
  BY <1>1, <1>3, <1>6, FS_Subset

LEMMA MostType ==
    ASSUME NEW n \in Nat
    PROVE  /\ Rate * n \in Nat /\ Burst + Rate * n \in Nat
           /\ Rate * (n + 1) = Rate * n + Rate
  BY BucketAssumption

LEMMA InitBuckets == Init => BucketsInv /\ CountInv
<1> SUFFICES ASSUME Init PROVE BucketsInv /\ CountInv
  OBVIOUS
<1>1. /\ now = 0 /\ DOMAIN limiterMap = {} /\ DOMAIN lastSeen = {} /\ DOMAIN tokens = {}
      /\ dropped = [x \in Clients |-> 0] /\ admitted = [x \in Clients |-> 0]
  BY DEF Init, LimitersInit
<1>2. \A r \in Requests : req[r].pc = "new" /\ req[r].status = 200
  BY DEF Init, NewRequest
<1>3. BucketsInv
  BY <1>1, <1>2, TimeAssumption DEF BucketsInv
<1>4. \A ip : BucketsOf(ip) = {}
  BY <1>1 DEF BucketsOf
<1>5. Most \in Nat
  BY <1>1, MostType DEF Most
<1>6. Cardinality({}) = 0 /\ IsFiniteSet({}) /\ Cardinality(Spent({}, Most, tokens)) \in Nat
  BY <1>5, FS_EmptySet, SpentFinite
<1>7. ASSUME NEW ip \in Clients
      PROVE  /\ IsFiniteSet(BucketsOf(ip))
             /\ Cardinality(BucketsOf(ip)) <= dropped[ip] + Live(ip)
             /\ admitted[ip] <= Cardinality(Spent(BucketsOf(ip), Most, tokens))
  <2>1. BucketsOf(ip) = {} /\ dropped[ip] = 0 /\ admitted[ip] = 0 /\ Live(ip) = 0
    BY <1>1, <1>4 DEF Live
  <2> QED
    BY <1>6, <2>1
<1> QED
  BY <1>1, <1>3, <1>7 DEF CountInv

\* A step that takes no token, makes no bucket and drops none.
LEMMA QuietBuckets ==
    ASSUME BucketsInv, CountInv, UNCHANGED <<now, limiterMap, tokens, dropped, admitted, setup>>,
           DOMAIN lastSeen \subseteq DOMAIN lastSeen',
           \A s \in Requests : req[s].pc \notin {"new", "guard", "create"} =>
                req'[s].pc \notin {"new", "guard", "create"} /\ req'[s].sent = req[s].sent,
           \A s \in Requests : req'[s].pc = "bucket" =>
                req'[s].bucket \in BucketsOf(req'[s].sent.ip),
           \A s \in Requests : req'[s].status = 429 /\ guard # "sentinel" =>
                guard = "ip" /\ req'[s].sent.ip \in Clients /\ admitted[req'[s].sent.ip] >= Burst
    PROVE  BucketsInv' /\ CountInv'
<1>1. \A b \in DOMAIN tokens :
        req'[b].pc \notin {"new", "guard", "create"} /\ req'[b].sent = req[b].sent
  BY DEF BucketsInv
<1>2. \A ip : BucketsOf(ip)' = BucketsOf(ip)
  BY <1>1 DEF BucketsOf
<1>3. BucketsInv'
  BY <1>1, <1>2 DEF BucketsInv, guard
<1>4. CountInv'
  BY <1>2 DEF CountInv, Most, Live
<1> QED
  BY <1>3, <1>4

\* Time passes: what a bucket has let pass by then does not shrink.
LEMMA TickBuckets ==
    ASSUME PassageInv, BucketsInv, CountInv, Tick, UNCHANGED chainVars
    PROVE  BucketsInv' /\ CountInv'
<1>1. /\ now \in Nat /\ now' = now + 1 /\ now' \in 0 .. MaxTime
      /\ \A b \in DOMAIN tokens :
            /\ tokens[b] \in 0 .. Burst
            /\ tokens'[b] = Least(Burst, tokens[b] + Rate)
  BY TimeAssumption DEF Tick, BucketsInv
<1>2. DOMAIN tokens' = DOMAIN tokens
  BY DEF Tick
<1>3. \A b \in DOMAIN tokens :
        tokens'[b] \in 0 .. Burst /\ tokens[b] <= tokens'[b] /\ tokens'[b] <= tokens[b] + Rate
  BY <1>1, BucketAssumption DEF Least
<1>4. UNCHANGED <<limiterMap, lastSeen, dropped, req, setup, admitted>>
  BY DEF Tick, chainVars
<1>5. \A ip : BucketsOf(ip)' = BucketsOf(ip)
  BY <1>2, <1>4 DEF BucketsOf
<1>6. admitted \in [Clients -> Nat]
  BY DEF CountInv
<1>7. BucketsInv'
  <2>1. \A b \in DOMAIN tokens : admitted[req[b].sent.ip] >= Burst - tokens'[b]
    BY <1>1, <1>3, <1>6, BucketAssumption DEF BucketsInv
  <2> QED
    BY <1>1, <1>2, <1>3, <1>4, <1>5, <2>1 DEF BucketsInv, guard
<1>8. Most \in Nat /\ Most' = Most + Rate /\ Most' \in Nat
  BY <1>1, MostType, BucketAssumption DEF Most
<1>9. ASSUME NEW ip \in Clients
      PROVE  admitted[ip] <= Cardinality(Spent(BucketsOf(ip), Most', tokens'))
  <2>1. IsFiniteSet(BucketsOf(ip)) /\ admitted[ip] <= Cardinality(Spent(BucketsOf(ip), Most, tokens))
    BY DEF CountInv
  <2>2. Cardinality(Spent(BucketsOf(ip), Most, tokens))
            <= Cardinality(Spent(BucketsOf(ip), Most', tokens'))
    <3>1. \A b \in BucketsOf(ip) :
            tokens[b] \in Nat /\ tokens'[b] \in Nat /\ Most - tokens[b] <= Most' - tokens'[b]
      BY <1>1, <1>3, <1>8, BucketAssumption DEF BucketsOf
    <3> QED
      BY <1>8, <2>1, <3>1, SpentGrows
  <2>3. /\ Cardinality(Spent(BucketsOf(ip), Most, tokens)) \in Nat
        /\ Cardinality(Spent(BucketsOf(ip), Most', tokens')) \in Nat
    BY <1>8, <2>1, SpentFinite
  <2> QED
    BY <1>6, <2>1, <2>2, <2>3
<1>10. CountInv'
  BY <1>4, <1>5, <1>9 DEF CountInv, Live
<1> QED
  BY <1>7, <1>10

\* The cleaner: a bucket less in the map, one more dropped.
LEMMA CleanBuckets ==
    ASSUME PassageInv, BucketsInv, CountInv, Clean, UNCHANGED chainVars
    PROVE  BucketsInv' /\ CountInv'
<1>1. /\ UNCHANGED <<now, tokens, req, setup, admitted>>
      /\ DOMAIN limiterMap' = DOMAIN limiterMap \ Expired
      /\ \A ip \in DOMAIN limiterMap' : limiterMap'[ip] = limiterMap[ip]
      /\ DOMAIN lastSeen' = DOMAIN lastSeen \ Expired
      /\ dropped' = [ip \in Clients |->
            IF ip \in Expired \cap DOMAIN limiterMap THEN dropped[ip] + 1 ELSE dropped[ip]]
  BY DEF Clean, Kept, chainVars
<1>2. \A ip : BucketsOf(ip)' = BucketsOf(ip)
  BY <1>1 DEF BucketsOf
<1>3. BucketsInv'
  BY <1>1, <1>2 DEF BucketsInv, guard
<1>4. dropped' \in [Clients -> Nat]
  BY <1>1 DEF CountInv
<1>5. \A ip \in Clients : dropped'[ip] + Live(ip)' = dropped[ip] + Live(ip)
  BY <1>1 DEF CountInv, Live
<1> QED
  BY <1>1, <1>2, <1>3, <1>4, <1>5 DEF CountInv, Most

\* The limiters by themselves.
LEMMA LimiterBuckets ==
    ASSUME PassageInv, BucketsInv, CountInv, LimiterStep
    PROVE  BucketsInv' /\ CountInv'
<1>1. UNCHANGED chainVars
  BY DEF LimiterStep
<1>2. CASE Tick
  BY <1>1, <1>2, TickBuckets
<1>3. CASE Clean
  BY <1>1, <1>3, CleanBuckets
<1>4. ASSUME UNCHANGED <<now, limiterMap, tokens, dropped>>,
             DOMAIN lastSeen \subseteq DOMAIN lastSeen'
      PROVE  BucketsInv' /\ CountInv'
  BY <1>1, <1>4, QuietBuckets DEF chainVars, BucketsInv
<1>5. ASSUME NEW key \in DOMAIN redis, KeysExpire(key)
      PROVE  BucketsInv' /\ CountInv'
  BY <1>4, <1>5 DEF KeysExpire
<1>6. ASSUME NEW touch \in touches, Touch(touch[1], touch[2])
      PROVE  BucketsInv' /\ CountInv'
  BY <1>4, <1>6 DEF Touch, Put
<1> QED
  BY <1>2, <1>3, <1>5, <1>6 DEF LimiterStep, LimitersNext

\* A request that the limiters have nothing to do with.
LEMMA TurnBuckets ==
    ASSUME PassageInv, BucketsInv, CountInv, NEW r \in Requests, NEW fields, Turn(r, fields),
           UNCHANGED <<now, limiterMap, lastSeen, tokens, dropped, admitted, setup>>,
           req[r].pc \notin {"new", "guard", "create"} =>
                req'[r].pc \notin {"new", "guard", "create"} /\ "sent" \notin fields,
           req'[r].pc = "bucket" => req'[r].bucket \in BucketsOf(req'[r].sent.ip),
           req'[r].status = 429 /\ guard # "sentinel" =>
                guard = "ip" /\ req'[r].sent.ip \in Clients /\ admitted[req'[r].sent.ip] >= Burst
    PROVE  BucketsInv' /\ CountInv'
<1>1. "sent" \notin fields => req'[r].sent = req[r].sent
  BY DEF Turn, Same, Fields
<1>2. \A s \in Requests : s = r \/ req'[s] = req[s]
  BY DEF Turn
<1>3. \A s \in Requests : req[s].pc \notin {"new", "guard", "create"} =>
        req'[s].pc \notin {"new", "guard", "create"} /\ req'[s].sent = req[s].sent
  BY <1>1, <1>2
<1>4. \A s \in Requests : req'[s].pc = "bucket" => req'[s].bucket \in BucketsOf(req'[s].sent.ip)
  BY <1>2 DEF BucketsInv
<1>5. \A s \in Requests : req'[s].status = 429 /\ guard # "sentinel" =>
        guard = "ip" /\ req'[s].sent.ip \in Clients /\ admitted[req'[s].sent.ip] >= Burst
  BY <1>2 DEF BucketsInv
<1> QED
  BY <1>3, <1>4, <1>5, QuietBuckets

LEMMA OthersBuckets ==
    ASSUME PassageInv, RulesInv, BucketsInv, CountInv, NEW r \in Requests,
           \/ Arrive(r)
           \/ Dereference(r) \/ Match(r) \/ \E refuses \in BOOLEAN : Enter(r, refuses)
           \/ Route(r) \/ Authenticate(r) \/ Handle(r) \/ Unwind(r)
    PROVE  BucketsInv' /\ CountInv'
<1>u. UNCHANGED <<now, limiterMap, lastSeen, tokens, dropped, admitted, setup>>
  BY DEF Arrive, Dereference, Match, Enter, Route, Authenticate, Handle, Unwind, Local, limiterVars
<1>1. CASE Arrive(r)
  <2>1. /\ Turn(r, {"pc", "sent", "start", "status"}) /\ req[r].pc = "new"
        /\ req'[r].pc \in {"done", "guard"} /\ req'[r].status \in {200, 204}
    BY <1>1, ArriveStep DEF Arrive
  <2> QED
    BY <1>u, <2>1, TurnBuckets
<1>2. CASE Dereference(r) \/ Match(r) \/ \E refuses \in BOOLEAN : Enter(r, refuses)
  <2>1. PassageInv' /\ Turn(r, SentinelFields) /\ "sent" \notin SentinelFields
    BY <1>2, SentinelSteps DEF SentinelFields
  <2>2. guard = "sentinel" /\ req[r].pc \in {"guard", "matched"}
    BY <1>2 DEF Dereference, Match, Enter, PassageInv, Sender
  <2>3. req'[r].pc # "bucket"
    BY <1>u, <2>1, <2>2 DEF PassageInv, Sender, guard
  <2>4. req[r].pc = "matched" => req'[r].pc \in {"in", "done"}
    BY <1>2 DEF Dereference, Match, Enter, Move, PassageInv, Shape, Fields
  <2> QED
    BY <1>u, <2>1, <2>2, <2>3, <2>4, TurnBuckets
<1>3. CASE Route(r) \/ Authenticate(r) \/ Handle(r) \/ Unwind(r)
  <2>1. /\ PassageInv' /\ Turn(r, RouteFields)
        /\ "sent" \notin RouteFields /\ "passed" \notin RouteFields
    BY <1>3, RouteSteps DEF RouteFields
  <2>2. req[r].pc \in Within
    BY <1>3 DEF Route, Authenticate, Handle, Unwind, Within
  <2>3. req'[r].passed
    BY <2>1, <2>2 DEF PassageInv, Passage, Turn, Same, Fields
  <2>4. req'[r].pc \notin Early \cup {"new"} /\ req'[r].status # 429
    <3>1. Passage(req'[r])
      BY <2>1 DEF PassageInv
    <3>2. ~ NewRequest.passed
      BY DEF NewRequest
    <3> QED
      BY <2>3, <3>1, <3>2 DEF Passage
  <2> QED
    BY <1>u, <2>1, <2>4, TurnBuckets DEF Early
<1> QED
  BY <1>1, <1>2, <1>3

LEMMA LookUpBuckets ==
    ASSUME PassageInv, BucketsInv, CountInv, NEW r \in Requests, LookUp(r)
    PROVE  BucketsInv' /\ CountInv'
<1>1. PassageInv' /\ Turn(r, BucketFields) /\ "sent" \notin BucketFields /\ req[r].pc = "guard"
  BY BucketSteps DEF BucketFields, LookUp
<1>2. UNCHANGED <<now, limiterMap, lastSeen, tokens, dropped, admitted, setup>>
  BY DEF LookUp, FoundLimiter, limiterVars
<1>3. /\ req'[r].pc \in {"bucket", "create"}
      /\ req'[r].pc = "bucket" => req'[r].bucket \in BucketsOf(req[r].sent.ip)
  <2> DEFINE ip == req[r].sent.ip
  <2>1. CASE ip \in DOMAIN limiterMap
    <3>1. req'[r] = [req[r] EXCEPT !.bucket = limiterMap[ip], !.pc = "bucket"]
      BY <2>1 DEF LookUp, Move, PassageInv, Shape
    <3>2. req'[r].pc = "bucket" /\ req'[r].bucket = limiterMap[ip]
      BY <3>1 DEF PassageInv, Shape, Fields
    <3> QED
      BY <2>1, <3>2 DEF BucketsInv
  <2>2. CASE ip \notin DOMAIN limiterMap
    <3>1. req'[r] = [req[r] EXCEPT !.pc = "create"]
      BY <2>2 DEF LookUp, Move, PassageInv, Shape
    <3> QED
      BY <3>1 DEF PassageInv, Shape, Fields
  <2> QED
    BY <2>1, <2>2
<1>4. req'[r].sent = req[r].sent
  BY <1>1 DEF Turn, Same, Fields
<1>5. req'[r].status # 429
  BY <1>1, <1>3 DEF PassageInv, Passage
<1> QED
  BY <1>1, <1>2, <1>3, <1>4, <1>5, TurnBuckets

LEMMA AskBuckets ==
    ASSUME PassageInv, BucketsInv, CountInv, NEW r \in Requests, NEW reached \in BOOLEAN,
           Ask(r, reached)
    PROVE  BucketsInv' /\ CountInv'
<1>1. PassageInv' /\ Turn(r, BucketFields) /\ "sent" \notin BucketFields /\ req[r].pc = "guard"
  BY BucketSteps DEF BucketFields, Ask
<1>2. UNCHANGED <<now, limiterMap, lastSeen, tokens, dropped, admitted, setup>>
  BY DEF Ask, RunScript, limiterVars
<1>3. req'[r].pc = "in"
  <2>1. Move(r, [req[r] EXCEPT !.passed = TRUE, !.pc = "in"])
    BY DEF Ask, Refused
  <2> QED
    BY <2>1 DEF Move, PassageInv, Shape, Fields
<1>4. req'[r].status # 429
  BY <1>1, <1>3 DEF PassageInv, Passage
<1> QED
  BY <1>1, <1>2, <1>3, <1>4, TurnBuckets

\* The first request of a client makes its bucket; one that comes too late takes it.
LEMMA CreateBuckets ==
    ASSUME PassageInv, BucketsInv, CountInv, NEW r \in Requests, Create(r)
    PROVE  BucketsInv' /\ CountInv'
<1> DEFINE ip == req[r].sent.ip
<1>1. /\ PassageInv' /\ Turn(r, BucketFields) /\ "sent" \notin BucketFields
      /\ req[r].pc = "create" /\ guard = "ip" /\ UNCHANGED <<admitted, setup>>
  BY BucketSteps DEF BucketFields, Create, PassageInv, Sender
<1>2. req'[r].pc = "bucket" /\ req'[r].bucket = limiterMap'[ip]
  <2> DEFINE b == limiterMap'[ip]
  <2>1. Move(r, [req[r] EXCEPT !.bucket = b, !.pc = "bucket"])
    BY DEF Create
  <2> HIDE DEF b
  <2>2. req'[r] = [req[r] EXCEPT !.bucket = b, !.pc = "bucket"]
    BY <2>1 DEF Move, PassageInv, Shape
  <2>3. req'[r].pc = "bucket" /\ req'[r].bucket = b
    BY <2>2 DEF PassageInv, Shape, Fields
  <2> QED
    BY <2>3 DEF b
<1>3. req'[r].sent = req[r].sent /\ req'[r].status # 429
  BY <1>1, <1>2 DEF Turn, Same, Fields, PassageInv, Passage
<1>4. ip \in Clients
  BY <1>1, SetupsAssumption DEF PassageInv, Sender
<1>5. CASE ip \in DOMAIN limiterMap
  <2>1. UNCHANGED limiterVars
    BY <1>5 DEF Create, CreateLimiter
  <2>2. limiterMap[ip] \in BucketsOf(ip)
    BY <1>5 DEF BucketsInv
  <2>3. req'[r].bucket \in BucketsOf(req'[r].sent.ip)
    BY <1>2, <1>3, <2>1, <2>2 DEF limiterVars
  <2> QED
    BY <1>1, <1>2, <1>3, <2>1, <2>3, TurnBuckets DEF limiterVars
<1>6. CASE ip \notin DOMAIN limiterMap
  <2>1. /\ limiterMap' = Put(limiterMap, ip, r) /\ tokens' = Put(tokens, r, Burst)
        /\ DOMAIN lastSeen' = DOMAIN lastSeen \cup {ip} /\ UNCHANGED <<now, dropped>>
    BY <1>6 DEF Create, CreateLimiter, Put
  <2>2. r \notin DOMAIN tokens
    BY <1>1 DEF BucketsInv
  <2>3. /\ DOMAIN tokens' = DOMAIN tokens \cup {r} /\ tokens'[r] = Burst
        /\ \A b \in DOMAIN tokens : tokens'[b] = tokens[b]
        /\ DOMAIN limiterMap' = DOMAIN limiterMap \cup {ip} /\ limiterMap'[ip] = r
        /\ \A x \in DOMAIN limiterMap : limiterMap'[x] = limiterMap[x]
    BY <1>6, <2>1, <2>2 DEF Put
  <2>4. \A s \in Requests : req'[s].sent = req[s].sent
    BY <1>1, <1>3 DEF Turn
  <2>5. \A x : BucketsOf(x)' = IF x = ip THEN BucketsOf(x) \cup {r} ELSE BucketsOf(x)
    BY <2>3, <2>4 DEF BucketsOf, BucketsInv
  <2>6. admitted \in [Clients -> Nat]
    BY DEF CountInv
  <2>7. \A b \in DOMAIN tokens' :
            /\ tokens'[b] \in 0 .. Burst
            /\ req'[b].pc \notin {"new", "guard", "create"}
            /\ req'[b].sent.ip \in Clients
            /\ admitted[req'[b].sent.ip] >= Burst - tokens'[b]
    <3>1. ASSUME NEW b \in DOMAIN tokens
          PROVE  req'[b].pc \notin {"new", "guard", "create"} /\ b # r /\ b \in Requests
      BY <1>1, <2>2 DEF BucketsInv, Turn
    <3>2. Burst \in 0 .. Burst /\ admitted[ip] >= Burst - Burst
      BY <1>4, <2>6, BucketAssumption
    <3> QED
      BY <1>2, <1>4, <2>3, <2>4, <3>1, <3>2 DEF BucketsInv
  <2>8. \A s \in Requests :
            (req[s].pc = "bucket" => req[s].bucket \in BucketsOf(req[s].sent.ip))'
    BY <1>1, <1>2, <1>3, <2>3, <2>5 DEF BucketsInv, Turn
  <2>9. \A s \in Requests : req'[s].status = 429 /\ guard # "sentinel" =>
            guard = "ip" /\ req'[s].sent.ip \in Clients /\ admitted[req'[s].sent.ip] >= Burst
    BY <1>1, <1>3 DEF BucketsInv, Turn
  <2>10. \A x \in DOMAIN limiterMap' : limiterMap'[x] \in BucketsOf(x)'
    BY <2>3, <2>5 DEF BucketsInv
  <2>11. BucketsInv'
    <3>1. now' \in 0 .. MaxTime /\ DOMAIN limiterMap' \subseteq DOMAIN lastSeen' \cap Clients
          /\ DOMAIN tokens' \subseteq Requests
      BY <1>4, <2>1, <2>3 DEF BucketsInv
    <3>2. guard' = guard
      BY <1>1 DEF guard
    <3> QED
      BY <1>1, <2>7, <2>8, <2>9, <2>10, <3>1, <3>2 DEF BucketsInv
  <2>12. Most \in Nat /\ Most' = Most
    BY <2>1, TimeAssumption, MostType DEF Most, BucketsInv
  <2>13. ASSUME NEW x \in Clients
         PROVE  /\ IsFiniteSet(BucketsOf(x)')
                /\ Cardinality(BucketsOf(x)') <= dropped[x] + Live(x)'
                /\ admitted[x] <= Cardinality(Spent(BucketsOf(x)', Most, tokens'))
    <3>1. /\ IsFiniteSet(BucketsOf(x)) /\ Cardinality(BucketsOf(x)) <= dropped[x] + Live(x)
          /\ admitted[x] <= Cardinality(Spent(BucketsOf(x), Most, tokens))
          /\ dropped[x] \in Nat /\ admitted[x] \in Nat
      BY DEF CountInv
    <3>2. Cardinality(BucketsOf(x)) \in Nat
      BY <3>1, FS_CardinalityType
    <3>3. /\ IsFiniteSet(BucketsOf(x)')
          /\ Cardinality(BucketsOf(x)') <= dropped[x] + Live(x)'
      <4>1. CASE x = ip
        <5>1. Live(x) = 0 /\ Live(x)' = 1
          BY <1>6, <2>3, <4>1 DEF Live
        <5>2. /\ IsFiniteSet(BucketsOf(x) \cup {r})
              /\ Cardinality(BucketsOf(x) \cup {r}) <= Cardinality(BucketsOf(x)) + 1
          <6> DEFINE S == BucketsOf(x)
          <6>1. IsFiniteSet(S) /\ Cardinality(S) \in Nat
            BY <3>1, <3>2
          <6> HIDE DEF S
          <6>2. /\ IsFiniteSet(S \cup {r})
                /\ Cardinality(S \cup {r}) = IF r \in S THEN Cardinality(S) ELSE Cardinality(S) + 1
            BY <6>1, FS_AddElement
          <6>3. Cardinality(S \cup {r}) <= Cardinality(S) + 1
            BY <6>1, <6>2
          <6> QED
            BY <6>2, <6>3 DEF S
        <5>3. BucketsOf(x)' = BucketsOf(x) \cup {r}
          BY <2>5, <4>1
        <5>4. Cardinality(BucketsOf(x) \cup {r}) \in Nat
          BY <5>2, FS_CardinalityType
        <5> QED
          BY <3>1, <3>2, <5>1, <5>2, <5>3, <5>4
      <4>2. CASE x # ip
        <5>1. Live(x)' = Live(x)
          BY <2>3, <4>2 DEF Live
        <5> QED
          BY <2>5, <3>1, <4>2, <5>1
      <4> QED
        BY <4>1, <4>2
    <3>4. Cardinality(Spent(BucketsOf(x), Most, tokens))
            <= Cardinality(Spent(BucketsOf(x)', Most, tokens'))
      <4>1. BucketsOf(x) \subseteq BucketsOf(x)'
        BY <2>5
      <4>2. \A b \in BucketsOf(x) :
                tokens[b] \in Nat /\ tokens'[b] \in Nat /\ Most - tokens[b] <= Most - tokens'[b]
        BY <2>3, <2>12, BucketAssumption DEF BucketsOf, BucketsInv
      <4> QED
        BY <2>12, <3>3, <4>1, <4>2, SpentGrows
    <3>5. /\ Cardinality(Spent(BucketsOf(x), Most, tokens)) \in Nat
          /\ Cardinality(Spent(BucketsOf(x)', Most, tokens')) \in Nat
      BY <2>12, <3>1, <3>3, SpentFinite
    <3> QED
      BY <3>1, <3>3, <3>4, <3>5
  <2>14. CountInv'
    BY <1>1, <2>1, <2>12, <2>13 DEF CountInv
  <2> QED
    BY <2>11, <2>14
<1> QED
  BY <1>5, <1>6

\* A bucket that is not empty lets the request pass; an empty one has let its burst pass.
LEMMA AllowBuckets ==
    ASSUME PassageInv, BucketsInv, CountInv, NEW r \in Requests, Allow(r)
    PROVE  BucketsInv' /\ CountInv'
<1> DEFINE ip == req[r].sent.ip
           b == req[r].bucket
<1>1. /\ PassageInv' /\ Turn(r, BucketFields) /\ "sent" \notin BucketFields
      /\ req[r].pc = "bucket" /\ guard = "ip"
      /\ UNCHANGED <<now, limiterMap, lastSeen, dropped, setup>>
  BY BucketSteps DEF BucketFields, Allow, TakeToken, PassageInv, Sender
<1>2. req'[r].sent = req[r].sent
  BY <1>1 DEF Turn, Same, Fields
<1>3. b \in BucketsOf(ip) /\ b \in DOMAIN tokens /\ ip \in Clients /\ tokens[b] \in 0 .. Burst
      /\ admitted[ip] >= Burst - tokens[b] /\ admitted \in [Clients -> Nat]
  BY <1>1 DEF BucketsInv, BucketsOf, CountInv
<1>4. CASE ~ Allowed(b)
  <2>1. req'[r].pc = "done" /\ UNCHANGED <<tokens, admitted>>
    <3>1. req'[r] = [req[r] EXCEPT !.status = 429, !.pc = "done"] /\ UNCHANGED <<tokens, admitted>>
      BY <1>4 DEF Allow, TakeToken, Move, PassageInv, Shape
    <3> QED
      BY <3>1 DEF PassageInv, Shape, Fields
  <2>2. admitted[ip] >= Burst
    BY <1>3, <1>4, BucketAssumption DEF Allowed
  <2> QED
    BY <1>1, <1>2, <1>3, <2>1, <2>2, TurnBuckets
<1>5. CASE Allowed(b)
  <2>1. /\ req'[r] = [req[r] EXCEPT !.passed = TRUE, !.pc = "in"]
        /\ tokens' = [tokens EXCEPT ![b] = tokens[b] - 1]
        /\ admitted' = [admitted EXCEPT ![ip] = admitted[ip] + 1]
    BY <1>5 DEF Allow, TakeToken, Move, PassageInv, Shape
  <2>2. req'[r].pc = "in" /\ req'[r].status # 429
    <3>1. req'[r].pc = "in"
      BY <2>1 DEF PassageInv, Shape, Fields
    <3> QED
      BY <1>1, <3>1 DEF PassageInv, Passage
  <2>3. /\ DOMAIN tokens' = DOMAIN tokens /\ tokens'[b] = tokens[b] - 1
        /\ \A x \in DOMAIN tokens \ {b} : tokens'[x] = tokens[x]
        /\ admitted' \in [Clients -> Nat] /\ admitted'[ip] = admitted[ip] + 1
        /\ \A x \in Clients \ {ip} : admitted'[x] = admitted[x]
    BY <1>3, <2>1
  <2>4. \A s \in Requests : req'[s].sent = req[s].sent
    BY <1>1, <1>2 DEF Turn
  <2>5. \A x : BucketsOf(x)' = BucketsOf(x)
    BY <2>3, <2>4 DEF BucketsOf, BucketsInv
  <2>6. \A x \in Clients : admitted'[x] >= admitted[x] /\ admitted[x] \in Nat /\ admitted'[x] \in Nat
    BY <1>3, <2>3
  <2>7. BucketsInv'
    <3>1. ASSUME NEW x \in DOMAIN tokens
          PROVE  /\ tokens'[x] \in 0 .. Burst
                 /\ req'[x].pc \notin {"new", "guard", "create"}
                 /\ req'[x].sent.ip \in Clients
                 /\ admitted'[req'[x].sent.ip] >= Burst - tokens'[x]
      <4>1. /\ tokens[x] \in 0 .. Burst /\ req[x].pc \notin {"new", "guard", "create"}
            /\ req[x].sent.ip \in Clients /\ x \in Requests
            /\ admitted[req[x].sent.ip] >= Burst - tokens[x]
        BY DEF BucketsInv
      <4>2. req'[x].sent = req[x].sent /\ req'[x].pc \notin {"new", "guard", "create"}
        BY <1>1, <2>2, <2>4, <4>1 DEF Turn
      <4>3. CASE x = b
        <5>1. req[x].sent.ip = ip
          BY <1>3, <4>3 DEF BucketsOf
        <5>2. tokens'[x] \in 0 .. Burst /\ admitted'[ip] >= Burst - tokens'[x]
          BY <1>3, <1>5, <2>3, <4>3, BucketAssumption DEF Allowed
        <5> QED
          BY <4>1, <4>2, <5>1, <5>2
      <4>4. CASE x # b
        <5>1. tokens'[x] = tokens[x]
          BY <2>3, <4>4
        <5>2. admitted'[req[x].sent.ip] >= Burst - tokens[x]
          BY <2>6, <4>1, BucketAssumption
        <5> QED
          BY <4>1, <4>2, <5>1, <5>2
      <4> QED
        BY <4>3, <4>4
    <3>2. \A s \in Requests : req'[s].pc = "bucket" => req'[s].bucket \in BucketsOf(req'[s].sent.ip)
      BY <1>1, <2>2 DEF BucketsInv, Turn
    <3>3. ASSUME NEW s \in Requests, req'[s].status = 429, guard # "sentinel"
          PROVE  guard = "ip" /\ req'[s].sent.ip \in Clients /\ admitted'[req'[s].sent.ip] >= Burst
      <4>1. s # r /\ req'[s] = req[s]
        BY <1>1, <2>2, <3>3 DEF Turn
      <4>2. req[s].sent.ip \in Clients /\ admitted[req[s].sent.ip] >= Burst
        BY <3>3, <4>1 DEF BucketsInv
      <4> QED
        BY <1>1, <2>6, <4>1, <4>2, BucketAssumption
    <3>4. guard' = guard
      BY <1>1 DEF guard
    <3>5. \A x \in DOMAIN limiterMap' : limiterMap'[x] \in BucketsOf(x)'
      BY <1>1, <2>5 DEF BucketsInv
    <3>6. \A s \in Requests :
            (req[s].pc = "bucket" => req[s].bucket \in BucketsOf(req[s].sent.ip))'
      BY <2>5, <3>2
    <3>7. /\ now' \in 0 .. MaxTime /\ DOMAIN limiterMap' \subseteq DOMAIN lastSeen' \cap Clients
          /\ DOMAIN tokens' \subseteq Requests
      BY <1>1, <2>3 DEF BucketsInv
    <3> QED
      BY <2>3, <3>1, <3>3, <3>4, <3>5, <3>6, <3>7 DEF BucketsInv
  <2>8. Most \in Nat /\ Most' = Most /\ Burst <= Most
    <3>1. now \in Nat
      BY TimeAssumption DEF BucketsInv
    <3>2. Rate * now \in Nat
      BY <3>1, MostType
    <3> QED
      BY <1>1, <3>2, BucketAssumption DEF Most
  <2>9. ASSUME NEW x \in Clients
        PROVE  admitted'[x] <= Cardinality(Spent(BucketsOf(x), Most, tokens'))
    <3>1. /\ IsFiniteSet(BucketsOf(x)) /\ admitted[x] \in Nat
          /\ admitted[x] <= Cardinality(Spent(BucketsOf(x), Most, tokens))
      BY DEF CountInv
    <3>2. /\ Cardinality(Spent(BucketsOf(x), Most, tokens)) \in Nat
          /\ Cardinality(Spent(BucketsOf(x), Most, tokens')) \in Nat
      BY <2>8, <3>1, SpentFinite
    <3>3. \A y \in BucketsOf(x) : tokens[y] \in Nat /\ y \in DOMAIN tokens
      BY BucketAssumption DEF BucketsOf, BucketsInv
    <3>4. CASE x = ip
      <4>1. tokens[b] \in 1 .. Most
        BY <1>3, <1>5, <2>8, BucketAssumption DEF Allowed
      <4>2. Cardinality(Spent(BucketsOf(x), Most, tokens)) + 1
                <= Cardinality(Spent(BucketsOf(x), Most, tokens'))
        <5>1. \A y \in BucketsOf(x) \ {b} : tokens'[y] = tokens[y]
          BY <2>3, <3>3
        <5> HIDE DEF b
        <5> QED
          BY <1>3, <2>3, <2>8, <3>1, <3>3, <3>4, <4>1, <5>1, SpentOne
      <4> QED
        BY <2>3, <3>1, <3>2, <3>4, <4>2
    <3>5. CASE x # ip
      <4>1. \A y \in BucketsOf(x) : tokens'[y] = tokens[y]
        BY <1>3, <2>3, <3>3, <3>5 DEF BucketsOf
      <4>2. Cardinality(Spent(BucketsOf(x), Most, tokens))
                <= Cardinality(Spent(BucketsOf(x), Most, tokens'))
        <5>1. \A y \in BucketsOf(x) :
                tokens[y] \in Nat /\ tokens'[y] \in Nat /\ Most - tokens[y] <= Most - tokens'[y]
          BY <2>8, <3>3, <4>1
        <5> QED
          BY <2>8, <3>1, <5>1, SpentGrows
      <4> QED
        BY <2>3, <3>1, <3>2, <3>5, <4>2
    <3> QED
      BY <3>4, <3>5
  <2>10. CountInv'
    BY <1>1, <2>3, <2>5, <2>8, <2>9 DEF CountInv, Live
  <2> QED
    BY <2>7, <2>10
<1> QED
  BY <1>4, <1>5

LEMMA BucketsStep ==
    ASSUME PassageInv, RulesInv, BucketsInv, CountInv, [Next]_vars
    PROVE  BucketsInv' /\ CountInv'
<1>1. CASE SentinelStep
  <2>1. UNCHANGED <<limiterVars, setup, admitted>> /\ guard = "sentinel"
    BY <1>1 DEF SentinelStep
  <2>2. ASSUME NEW r \in Requests
        PROVE  req'[r].pc = req[r].pc /\ req'[r].sent = req[r].sent /\ req'[r].bucket = req[r].bucket
    <3>1. CASE Excuse
      BY <3>1, ExcuseSteps DEF PassageInv, Same, Fields
    <3>2. CASE req' = req
      BY <3>2
    <3> QED
      BY <1>1, <3>1, <3>2 DEF SentinelStep
  <2>3. \A r \in Requests : req'[r].pc = "bucket" => req'[r].bucket \in BucketsOf(req'[r].sent.ip)
    BY <2>2 DEF BucketsInv
  <2> QED
    BY <2>1, <2>2, <2>3, QuietBuckets DEF limiterVars
<1>2. CASE LimiterStep
  BY <1>2, LimiterBuckets
<1>3. ASSUME NEW r \in Requests, Arrive(r) \/ Progress(r)
      PROVE  BucketsInv' /\ CountInv'
  BY <1>3, OthersBuckets, LookUpBuckets, CreateBuckets, AllowBuckets, AskBuckets DEF Progress
<1>4. CASE UNCHANGED vars
  <2>1. UNCHANGED <<now, limiterMap, lastSeen, tokens, dropped, admitted, setup, req>>
    BY <1>4 DEF vars, limiterVars, chainVars
  <2> QED
    BY <2>1, QuietBuckets DEF BucketsInv
<1> QED
  BY <1>1, <1>2, <1>3, <1>4 DEF Next

-----------------------------------------------------------------------------
(* The accounts.                                                           *)

LEMMA CopiesAdd ==
    ASSUME NEW B, IsABag(B), NEW y
    PROVE  /\ IsABag(B (+) SetToBag({y}))
           /\ \A x : Copies(x, B (+) SetToBag({y})) = Copies(x, B) + (IF x = y THEN 1 ELSE 0)
  BY DEF IsABag, Copies, SetToBag, (+), BagIn, BagToSet

LEMMA CopiesAddNone ==
    ASSUME NEW B, IsABag(B)
    PROVE  /\ IsABag(B (+) SetToBag({}))
           /\ \A x : Copies(x, B (+) SetToBag({})) = Copies(x, B)
  BY DEF IsABag, Copies, SetToBag, (+), BagIn, BagToSet

LEMMA CopiesRemove ==
    ASSUME NEW B, IsABag(B), NEW y, Copies(y, B) >= 1
    PROVE  /\ IsABag(B (-) SetToBag({y}))
           /\ \A x : Copies(x, B (-) SetToBag({y})) = Copies(x, B) - (IF x = y THEN 1 ELSE 0)
  BY DEF IsABag, Copies, SetToBag, (-), BagIn, BagToSet

LEMMA InitAccounts == Init => AccountsInv
<1> SUFFICES ASSUME Init PROVE AccountsInv
  OBVIOUS
<1>1. \A r \in Requests : req[r].pc = "new" /\ ~ req[r].inside
  BY DEF Init, NewRequest
<1>2. entries = EmptyBag /\ total = EmptyBag
  BY DEF Init
<1>3. IsABag(EmptyBag) /\ \A x : Copies(x, EmptyBag) = 0
  BY DEF EmptyBag, SetToBag, IsABag, Copies, BagIn, BagToSet
<1>4. Started = {} /\ \A x : Inside(x) = {} /\ EndedAs(x) = {}
  BY <1>1 DEF Started, Inside, EndedAs, Ended, Done
<1> QED
  BY <1>2, <1>3, <1>4, FS_EmptySet DEF AccountsInv

\* A step that lets no request in and ends none that was let in.
LEMMA QuietAccounts ==
    ASSUME AccountsInv, UNCHANGED <<entries, total>>, IsFiniteSet(Started'),
           \A s \in Requests :
             \/ req'[s] = req[s]
             \/ /\ ~ (Done(req[s]) /\ req[s].passed) /\ ~ (Done(req'[s]) /\ req'[s].passed)
                /\ req'[s].inside = req[s].inside
                /\ req[s].inside => req'[s].resource = req[s].resource
    PROVE  AccountsInv'
<1>1. \A x : Inside(x)' = Inside(x)
  BY DEF Inside
<1>2. \A x : EndedAs(x)' = EndedAs(x)
  BY DEF EndedAs, Ended, Done
<1> QED
  BY <1>1, <1>2 DEF AccountsInv

LEMMA StartedFinite ==
    ASSUME IsFiniteSet(Started), NEW r \in Requests, NEW fields, Turn(r, fields)
    PROVE  IsFiniteSet(Started')
<1>1. Started' \in SUBSET (Started \cup {r})
  BY DEF Turn, Started
<1>2. IsFiniteSet(Started \cup {r})
  BY FS_AddElement
<1> QED
  BY <1>1, <1>2, FS_Subset

LEMMA RouteStays ==
    ASSUME PassageInv, NEW r \in Requests, Route(r) \/ Authenticate(r) \/ Handle(r)
    PROVE  req'[r].inside = req[r].inside /\ req'[r].pc # "done"
<1> DEFINE q == req[r]
<1>q. DOMAIN q = Fields /\ Sender(r) /\ DOMAIN req = Requests
  BY DEF PassageInv, Shape
<1>1. CASE Route(r)
  BY <1>1, <1>q DEF Route, Local, Move, Fields
<1>2. CASE Authenticate(r)
  <2> DEFINE a == [q EXCEPT !.authenticated = q.sent.who # "rejected"]
  <2>1. \/ req'[r] = StepDone(a)
        \/ \E code : req'[r] = StepDone(Aborted(a, code))
    BY <1>2, <1>q DEF Authenticate, Local, Move
  <2>2. DOMAIN a = Fields /\ a.inside = q.inside /\ a.pc = "auth"
    BY <1>2, <1>q DEF Authenticate, Fields
  <2> HIDE DEF a
  <2> QED
    BY <2>1, <2>2 DEF StepDone, Aborted, Fields
<1>3. CASE Handle(r)
  <2> DEFINE does == q.sent.does
             a == [q EXCEPT !.handled = does # "misfit", !.pc = "unwind"]
  <2>1. req'[r] = CASE does \in DOMAIN Returns -> [a EXCEPT !.status = HTTPStatus(Returns[does])]
                    [] does = "misfit" -> [a EXCEPT !.status = HTTPStatus(ParamError)]
                    [] does = "error" -> [a EXCEPT !.status = 500]
                    [] does = "panic" -> [a EXCEPT !.panicked = TRUE]
                    [] does = "nil" -> a
    BY <1>3, <1>q DEF Handle, Local, Move
  <2>2. does \in Does
    BY <1>3, <1>q, SetupsAssumption DEF Handle, Sender, PassageInv
  <2>3. DOMAIN a = Fields /\ a.inside = q.inside /\ a.pc = "unwind"
    BY <1>q DEF Fields
  <2> HIDE DEF a, does
  <2>4. \/ \E status : req'[r] = [a EXCEPT !.status = status]
        \/ req'[r] = [a EXCEPT !.panicked = TRUE]
        \/ req'[r] = a
    <3>1. {"misfit", "error", "panic", "nil"} \cap DOMAIN Returns = {}
      BY DEF Returns
    <3>2. CASE does \in DOMAIN Returns
      <4>1. req'[r] = [a EXCEPT !.status = HTTPStatus(Returns[does])]
        BY <2>1, <3>1, <3>2
      <4> QED
        BY <4>1
    <3>3. CASE does = "misfit"
      BY <2>1, <3>1, <3>3
    <3>4. CASE does = "error"
      BY <2>1, <3>1, <3>4
    <3>5. CASE does = "panic"
      BY <2>1, <3>1, <3>5
    <3>6. CASE does = "nil"
      BY <2>1, <3>1, <3>6
    <3> QED
      BY <2>2, <3>2, <3>3, <3>4, <3>5, <3>6 DEF Does
  <2> QED
    BY <2>3, <2>4 DEF Fields
<1> QED
  BY <1>1, <1>2, <1>3

LEMMA CalmAccounts ==
    ASSUME PassageInv, RulesInv, AccountsInv, NEW r \in Requests,
           \/ Arrive(r) \/ Dereference(r) \/ Match(r) \/ Enter(r, TRUE)
           \/ LookUp(r) \/ Create(r) \/ Allow(r) \/ \E reached \in BOOLEAN : Ask(r, reached)
           \/ Route(r) \/ Authenticate(r) \/ Handle(r)
    PROVE  AccountsInv'
<1>q. DOMAIN req = Requests /\ DOMAIN req[r] = Fields /\ Passage(req[r])
  BY DEF PassageInv, Shape
<1>1. ASSUME NEW fields, PassageInv', Turn(r, fields), UNCHANGED <<entries, total>>,
             req[r].pc # "done", req'[r].pc = "done" => ~ req'[r].passed,
             req'[r].inside = req[r].inside,
             req[r].inside => req'[r].resource = req[r].resource
      PROVE  AccountsInv'
  <2>1. IsFiniteSet(Started')
    BY <1>1, StartedFinite DEF AccountsInv
  <2> QED
    BY <1>1, <2>1, QuietAccounts DEF Turn, Done
<1>2. \A q : Passage(q) /\ q.pc \in Early => ~ q.inside /\ ~ q.passed /\ q.pc \notin {"new", "done"}
  BY DEF Passage, Early
<1>3. \A q : Passage(q) /\ q.pc = "done" => ~ q.inside /\ (q.status = 429 => ~ q.passed)
  BY DEF Passage, Within
<1>4. \A q : Passage(q) => q.inside \in BOOLEAN /\ q.passed \in BOOLEAN
  BY DEF Passage, Flags
<1>5. CASE Arrive(r)
  <2>1. PassageInv' /\ Turn(r, {"pc", "sent", "start", "status"}) /\ req[r].pc = "new"
        /\ UNCHANGED <<entries, total>>
    BY <1>5, ArriveStep DEF Arrive, Local
  <2>2. req'[r].passed = req[r].passed /\ req'[r].inside = req[r].inside
    BY <2>1 DEF Turn, Same, Fields
  <2>3. ~ req[r].passed /\ ~ req[r].inside
    BY <1>q, <2>1 DEF Passage, NewRequest
  <2> QED
    BY <1>1, <2>1, <2>2, <2>3
<1>6. CASE Dereference(r) \/ Match(r) \/ Enter(r, TRUE)
  <2>1. PassageInv' /\ Turn(r, SentinelFields) /\ UNCHANGED <<entries, total>> /\ req[r].pc \in Early
    BY <1>6, SentinelSteps DEF Dereference, Match, Enter, Local, Early
  <2>2. (req'[r].pc = "done" /\ req'[r].passed = req[r].passed) \/ req'[r].pc = "matched"
    <3>1. CASE Dereference(r)
      BY <3>1, <1>q DEF Dereference, Local, Move, Fields
    <3>2. CASE Match(r)
      BY <3>2, <1>q DEF Match, Local, Move, Fields
    <3>3. CASE Enter(r, TRUE)
      BY <3>3, <1>q DEF Enter, Move, Fields
    <3> QED
      BY <1>6, <3>1, <3>2, <3>3
  <2>3. Passage(req'[r]) /\ ~ req'[r].inside
    BY <1>2, <1>3, <2>1, <2>2 DEF PassageInv, Early
  <2> QED
    BY <1>q, <1>1, <1>2, <1>4, <2>1, <2>2, <2>3
<1>7. CASE LookUp(r) \/ Create(r) \/ Allow(r) \/ \E reached \in BOOLEAN : Ask(r, reached)
  <2>1. PassageInv' /\ Turn(r, BucketFields) /\ UNCHANGED <<entries, total>>
        /\ req[r].pc \in {"guard", "create", "bucket"}
    BY <1>7, BucketSteps DEF LookUp, Create, Allow, Ask
  <2>2. req'[r].inside = req[r].inside /\ req'[r].resource = req[r].resource
    BY <2>1 DEF Turn, Same, Fields, BucketFields
  <2>3. req'[r].pc = "done" => req'[r].status = 429
    <3>1. CASE LookUp(r)
      <4>1. CASE req[r].sent.ip \in DOMAIN limiterMap
        <5>1. req'[r] = [req[r] EXCEPT !.bucket = limiterMap[req[r].sent.ip], !.pc = "bucket"]
          BY <3>1, <4>1, <1>q DEF LookUp, Move
        <5>2. DOMAIN req[r] = Fields
          BY <1>q
        <5> QED
          BY <5>1, <5>2 DEF Fields
      <4>2. CASE req[r].sent.ip \notin DOMAIN limiterMap
        BY <3>1, <4>2, <1>q DEF LookUp, Move, Fields
      <4> QED
        BY <4>1, <4>2
    <3>2. CASE Create(r)
      BY <3>2, <1>q DEF Create, Move, Fields
    <3>3. CASE Allow(r)
      <4>1. CASE Allowed(req[r].bucket)
        <5>1. req'[r] = [req[r] EXCEPT !.passed = TRUE, !.pc = "in"]
          BY <3>3, <4>1, <1>q DEF Allow, Move
        <5>2. DOMAIN req[r] = Fields
          BY <1>q
        <5> QED
          BY <5>1, <5>2 DEF Fields
      <4>2. CASE ~ Allowed(req[r].bucket)
        <5>1. req'[r] = [req[r] EXCEPT !.status = 429, !.pc = "done"]
          BY <3>3, <4>2, <1>q DEF Allow, Move
        <5>2. DOMAIN req[r] = Fields
          BY <1>q
        <5> QED
          BY <5>1, <5>2 DEF Fields
      <4> QED
        BY <4>1, <4>2
    <3>4. ASSUME NEW reached \in BOOLEAN, Ask(r, reached)
          PROVE  req'[r].pc # "done"
      BY <3>4, <1>q DEF Ask, Refused, Move, Fields
    <3> QED
      BY <1>7, <3>1, <3>2, <3>3, <3>4
  <2>4. req'[r].pc = "done" => ~ req'[r].passed
    BY <1>3, <2>1, <2>3 DEF PassageInv
  <2> QED
    BY <1>1, <2>1, <2>2, <2>4
<1>8. CASE Route(r) \/ Authenticate(r) \/ Handle(r)
  <2>1. PassageInv' /\ Turn(r, RouteFields) /\ UNCHANGED <<entries, total>> /\ req[r].pc # "done"
    BY <1>8, RouteSteps DEF Route, Authenticate, Handle, Local
  <2>2. req'[r].inside = req[r].inside /\ req'[r].pc # "done"
    BY <1>8, RouteStays
  <2>3. req'[r].resource = req[r].resource
    BY <2>1 DEF Turn, Same, Fields, RouteFields
  <2> QED
    BY <1>1, <2>1, <2>2, <2>3
<1> QED
  BY <1>5, <1>6, <1>7, <1>8

\* One more inside the resource.
LEMMA EnterAccounts ==
    ASSUME PassageInv, RulesInv, AccountsInv, NEW r \in Requests, Enter(r, FALSE)
    PROVE  AccountsInv'
<1> DEFINE y == req[r].resource
<1>q. DOMAIN req = Requests /\ DOMAIN req[r] = Fields /\ Passage(req[r])
  BY DEF PassageInv, Shape
<1>1. PassageInv' /\ Turn(r, SentinelFields) /\ UNCHANGED total /\ req[r].pc = "matched"
  BY SentinelSteps DEF Enter
<1>2. entries' = entries (+) SetToBag({y}) /\ req'[r].resource = y /\ req'[r].inside
      /\ req'[r].pc = "in"
  BY <1>q DEF Enter, Move, Fields
<1>3. ~ req[r].inside
  BY <1>q, <1>1 DEF Passage, Early
<1>4. IsFiniteSet(Started) /\ IsFiniteSet(Started')
  BY <1>1, StartedFinite DEF AccountsInv
<1>5. \A x : EndedAs(x)' = EndedAs(x)
  BY <1>1, <1>2 DEF EndedAs, Ended, Done, Turn
<1>6. /\ IsABag(entries')
      /\ \A x : Copies(x, entries') = Copies(x, entries) + (IF x = y THEN 1 ELSE 0)
  BY <1>2, CopiesAdd DEF AccountsInv
<1>7. ASSUME NEW x
      PROVE  Copies(x, entries') = Cardinality(Inside(x)')
  <2>1. CASE x = y
    <3> DEFINE S == Inside(x)
    <3>1. Inside(x)' = S \cup {r} /\ r \notin S
      BY <1>1, <1>2, <1>3, <2>1 DEF Inside, Turn
    <3>2. S \in SUBSET Started
      BY DEF Inside, Started, PassageInv, Passage, Within
    <3>3. IsFiniteSet(S)
      BY <1>4, <3>2, FS_Subset
    <3>4. Copies(x, entries) = Cardinality(S)
      BY DEF AccountsInv
    <3> HIDE DEF S
    <3>5. Cardinality(S \cup {r}) = Cardinality(S) + 1
      BY <3>1, <3>3, FS_AddElement
    <3> QED
      BY <1>6, <2>1, <3>1, <3>4, <3>5
  <2>2. CASE x # y
    <3>1. Inside(x)' = Inside(x)
      BY <1>1, <1>2, <1>3, <2>2 DEF Inside, Turn
    <3>2. Copies(x, entries) = Cardinality(Inside(x)) /\ IsFiniteSet(Inside(x))
      <4>1. Inside(x) \in SUBSET Started
        BY DEF Inside, Started, PassageInv, Passage, Within
      <4> QED
        BY <1>4, <4>1, FS_Subset DEF AccountsInv
    <3>3. Cardinality(Inside(x)) \in Nat
      BY <3>2, FS_CardinalityType
    <3> QED
      BY <1>6, <2>2, <3>1, <3>2, <3>3
  <2> QED
    BY <2>1, <2>2
<1> QED
  BY <1>1, <1>4, <1>5, <1>6, <1>7 DEF AccountsInv

\* One less inside, one more counted.
LEMMA UnwindAccounts ==
    ASSUME PassageInv, AccountsInv, NEW r \in Requests, Unwind(r)
    PROVE  AccountsInv'
<1> DEFINE q == req[r]
           y == q.resource
           out == RecoverOut(LogOut(q))
           p == req'[r]
<1>q. DOMAIN req = Requests /\ DOMAIN q = Fields /\ Passage(q) /\ q.pc = "unwind"
  BY DEF PassageInv, Shape, Unwind
<1>1. PassageInv' /\ Turn(r, RouteFields)
  BY RouteSteps
<1>2. DOMAIN out = Fields /\ out.sent = q.sent /\ out.inside = q.inside /\ out.resource = y
  BY <1>q DEF RecoverOut, LogOut, Fields
<1>3. /\ p = [out EXCEPT !.inside = FALSE, !.pc = "done"]
      /\ total' = total (+) SetToBag(Counted(out))
      /\ entries' = IF q.inside THEN entries (-) SetToBag({y}) ELSE entries
  BY <1>q, <1>2 DEF Unwind, Move
<1> HIDE DEF out
<1>4. p.pc = "done" /\ p.inside = FALSE /\ p.sent = out.sent /\ p.status = out.status
  BY <1>2, <1>3 DEF Fields
<1>5. p.passed /\ q.passed
  BY <1>q, <1>1 DEF Turn, Same, Fields, RouteFields, Passage, Within
<1>6. IsFiniteSet(Started) /\ IsFiniteSet(Started')
  BY <1>1, StartedFinite DEF AccountsInv
<1>7. \A s \in Requests \ {r} : req'[s] = req[s]
  BY <1>1 DEF Turn
<1>8. \A x : IsFiniteSet(Inside(x)) /\ IsFiniteSet(EndedAs(x))
             /\ Cardinality(Inside(x)) \in Nat /\ Cardinality(EndedAs(x)) \in Nat
  <2> TAKE x
  <2>1. Inside(x) \in SUBSET Started /\ EndedAs(x) \in SUBSET Started
    BY DEF Inside, EndedAs, Ended, Done, Started, PassageInv, Passage, Within
  <2> QED
    BY <1>6, <2>1, FS_Subset, FS_CardinalityType
<1>9. /\ IsABag(entries) /\ IsABag(total)
      /\ \A x : Copies(x, entries) = Cardinality(Inside(x))
      /\ \A x : Copies(x, total) = Cardinality(EndedAs(x))
  BY DEF AccountsInv
<1>10. IsABag(entries') /\ \A x : Copies(x, entries') = Cardinality(Inside(x)')
  <2>1. CASE ~ q.inside
    <3>1. entries' = entries /\ \A x : Inside(x)' = Inside(x)
      BY <1>3, <1>4, <1>7, <2>1 DEF Inside
    <3> QED
      BY <1>9, <3>1
  <2>2. CASE q.inside
    <3>1. \A x : Inside(x)' = IF x = y THEN Inside(x) \ {r} ELSE Inside(x)
      BY <1>4, <1>7, <2>2 DEF Inside
    <3>2. r \in Inside(y)
      BY <2>2 DEF Inside
    <3>3. Cardinality(Inside(y) \ {r}) = Cardinality(Inside(y)) - 1
      <4> DEFINE S == Inside(y)
      <4>1. IsFiniteSet(S) /\ r \in S
        BY <1>8, <3>2
      <4> HIDE DEF S
      <4>2. Cardinality(S \ {r}) = Cardinality(S) - 1
        BY <4>1, FS_RemoveElement
      <4> QED
        BY <4>2 DEF S
    <3>4. Cardinality(Inside(y)) >= 1
      <4>1. Cardinality(Inside(y)) # 0
        BY <1>8, <3>2, FS_EmptySet
      <4> QED
        BY <1>8, <4>1
    <3>5. Copies(y, entries) >= 1
      BY <1>9, <3>4
    <3>6. /\ IsABag(entries')
          /\ \A x : Copies(x, entries') = Copies(x, entries) - (IF x = y THEN 1 ELSE 0)
      BY <1>3, <1>9, <2>2, <3>5, CopiesRemove
    <3>7. ASSUME NEW x
          PROVE  Copies(x, entries') = Cardinality(Inside(x)')
      <4>1. CASE x = y
        BY <1>9, <3>1, <3>3, <3>6, <4>1
      <4>2. CASE x # y
        <5>1. Copies(x, entries') = Cardinality(Inside(x)) - 0
          BY <1>9, <3>6, <4>2
        <5> QED
          BY <1>8, <3>1, <4>2, <5>1
      <4> QED
        BY <4>1, <4>2
    <3> QED
      BY <3>6, <3>7
  <2> QED
    BY <2>1, <2>2
<1>11. IsABag(total') /\ \A x : Copies(x, total') = Cardinality(EndedAs(x)')
  <2>1. Probed(p) = Probed(out) /\ Label(p) = Label(out)
    BY <1>4 DEF Probed, Label
  <2>2. r \notin Ended
    BY <1>q DEF Ended, Done
  <2>3. Ended' = IF Probed(p) THEN Ended ELSE Ended \cup {r}
    BY <1>4, <1>5, <1>7, <2>2 DEF Ended, Done
  <2>4. CASE Probed(p)
    <3>1. total' = total (+) SetToBag({}) /\ Ended' = Ended
      BY <1>3, <2>1, <2>3, <2>4 DEF Counted
    <3>2. \A x : EndedAs(x)' = EndedAs(x)
      BY <1>7, <2>2, <3>1 DEF EndedAs, Ended
    <3> QED
      BY <1>9, <3>1, <3>2, CopiesAddNone
  <2>5. CASE ~ Probed(p)
    <3> DEFINE z == Label(out)
    <3>1. total' = total (+) SetToBag({z}) /\ Ended' = Ended \cup {r} /\ Label(p) = z
      BY <1>3, <2>1, <2>3, <2>5 DEF Counted
    <3> HIDE DEF z
    <3>2. \A x : EndedAs(x)' = IF x = z THEN EndedAs(x) \cup {r} ELSE EndedAs(x)
      BY <1>7, <2>2, <3>1 DEF EndedAs, Ended
    <3>3. /\ IsABag(total')
          /\ \A x : Copies(x, total') = Copies(x, total) + (IF x = z THEN 1 ELSE 0)
      BY <1>9, <3>1, CopiesAdd
    <3>4. Cardinality(EndedAs(z) \cup {r}) = Cardinality(EndedAs(z)) + 1
      <4> DEFINE S == EndedAs(z)
      <4>1. IsFiniteSet(S) /\ r \notin S
        BY <1>8, <2>2 DEF EndedAs
      <4> HIDE DEF S
      <4>2. Cardinality(S \cup {r}) = Cardinality(S) + 1
        BY <4>1, FS_AddElement
      <4> QED
        BY <4>2 DEF S
    <3>5. ASSUME NEW x
          PROVE  Copies(x, total') = Cardinality(EndedAs(x)')
      <4>1. CASE x = z
        BY <1>9, <3>2, <3>3, <3>4, <4>1
      <4>2. CASE x # z
        <5>1. Copies(x, total') = Cardinality(EndedAs(x)) + 0
          BY <1>9, <3>3, <4>2
        <5> QED
          BY <1>8, <3>2, <4>2, <5>1
      <4> QED
        BY <4>1, <4>2
    <3> QED
      BY <3>3, <3>5
  <2> QED
    BY <2>4, <2>5
<1> QED
  BY <1>6, <1>10, <1>11 DEF AccountsInv

LEMMA AccountsStep ==
    ASSUME PassageInv, RulesInv, AccountsInv, [Next]_vars
    PROVE  AccountsInv'
<1>1. CASE UNCHANGED <<entries, total, req>>
  <2>1. Started' = Started
    BY <1>1 DEF Started
  <2> QED
    BY <1>1, <2>1, QuietAccounts DEF AccountsInv
<1>2. CASE SentinelStep
  <2>1. CASE Excuse
    <3>1. /\ UNCHANGED <<entries, total>>
          /\ \A r \in Requests :
                IF req[r].pc = "matched"
                THEN Same(req[r], req'[r], {"excused"}) /\ req'[r].excused = TRUE
                ELSE req'[r] = req[r]
      BY <1>2, <2>1, ExcuseSteps DEF PassageInv, SentinelStep
    <3>2. \A r \in Requests :
            \/ req'[r] = req[r]
            \/ /\ req[r].pc = "matched" /\ req'[r].pc = "matched"
               /\ req'[r].inside = req[r].inside /\ req'[r].resource = req[r].resource
      BY <3>1 DEF Same, Fields
    <3>3. Started' = Started
      BY <3>2 DEF Started
    <3>4. IsFiniteSet(Started')
      BY <3>3 DEF AccountsInv
    <3> QED
      BY <3>1, <3>2, <3>4, QuietAccounts DEF Done
  <2> QED
    BY <1>1, <1>2, <2>1 DEF SentinelStep
<1>3. CASE LimiterStep
  BY <1>1, <1>3 DEF LimiterStep, chainVars
<1>4. ASSUME NEW r \in Requests, Arrive(r) \/ Progress(r)
      PROVE  AccountsInv'
  BY <1>4, CalmAccounts, EnterAccounts, UnwindAccounts DEF Progress
<1>5. CASE UNCHANGED vars
  BY <1>1, <1>5 DEF vars, chainVars
<1> QED
  BY <1>2, <1>3, <1>4, <1>5 DEF Next

-----------------------------------------------------------------------------
(* The theorems.                                                           *)

LEMMA Invariance == Spec => []ChainInv
<1>1. Init => ChainInv
  BY InitPassage, InitLimits, InitBuckets, InitAccounts DEF ChainInv
<1>2. ChainInv /\ [Next]_vars => ChainInv'
  BY PassageStep, LimitsStep, BucketsStep, AccountsStep DEF ChainInv, LimitsInv
<1> QED
  BY <1>1, <1>2, PTL DEF Spec

\* The variables keep their types: what a request carries is what was sent, its status is
\* one of nine, no bucket holds more than the burst or less than nothing.
THEOREM Typed == Spec => []TypeOK
<1>1. ChainInv => TypeOK
  <2> SUFFICES ASSUME ChainInv PROVE TypeOK
    OBVIOUS
  <2>1. /\ setup \in Setups /\ sentinel \in {"none", "up", "nil"}
        /\ refresh.pc \in {"idle", "read", "flow", "breakers"}
        /\ now \in 0 .. MaxTime /\ \A b \in DOMAIN tokens : tokens[b] \in 0 .. Burst
        /\ IsABag(entries) /\ IsABag(total)
    BY DEF ChainInv, PassageInv, LimitsInv, RulesInv, BucketsInv, AccountsInv
  <2>2. ASSUME NEW r \in Requests
        PROVE  /\ req[r].pc \in Stages
               /\ req[r].sent # Unsent => req[r].sent \in setup.sends[r]
               /\ req[r].status \in {200, 204, 400, 401, 403, 404, 409, 429, 500}
    <3>1. Passage(req[r]) /\ Sender(r)
      BY DEF ChainInv, PassageInv
    <3>2. req[r].pc = "new" => req[r].sent = Unsent
      BY <3>1 DEF Passage, NewRequest
    <3> QED
      BY <3>1, <3>2 DEF Passage, Sender, Statuses
  <2> QED
    BY <2>1, <2>2 DEF TypeOK
<1> QED
  BY <1>1, Invariance, PTL

\* Sentinel's entries, the metric and the access log agree with the requests, also after a
\* panic: whatever way a request takes out of the chain, it is accounted for once.
THEOREM AccountsAgree == Spec => []AnswersAccountedFor
<1>1. ChainInv => AnswersAccountedFor
  <2> SUFFICES ASSUME ChainInv PROVE AnswersAccountedFor
    OBVIOUS
  <2>1. \A x : Copies(x, entries) = Cardinality({r \in Requests : req[r].inside /\ req[r].resource = x})
    BY DEF ChainInv, AccountsInv, Inside
  <2>2. \A x : Copies(x, total) = Cardinality({r \in Ended : Label(req[r]) = x})
    BY DEF ChainInv, AccountsInv, EndedAs
  <2>3. \A r \in Requests : LET q == req[r] IN
            Done(q) /\ q.passed /\ q.sent.path \notin Probes =>
                q.logged = IF q.panicked THEN None ELSE q.status
    BY DEF ChainInv, PassageInv, Passage
  <2> QED
    BY <2>1, <2>2, <2>3 DEF AnswersAccountedFor, Ended
<1> QED
  BY <1>1, Invariance, PTL

\* No request reaches a handler around the limiter, the route or the JWT middleware, and one
\* that reaches none is not answered with success.
THEOREM NoWayAround == Spec => []OnlyAdmittedReachHandlers
<1>1. ChainInv => OnlyAdmittedReachHandlers
  <2> SUFFICES ASSUME ChainInv, NEW r \in Requests
               PROVE  LET q == req[r] IN
                        /\ q.handled =>
                            /\ q.passed /\ Matching(q.sent) # {}
                            /\ q.sent.group = "protected" =>
                                /\ q.authenticated
                                /\ Enable /\ ~ isExcludedPath(q.sent) => q.sent.who = "permitted"
                        /\ Done(q) /\ ~ q.handled => q.status >= 400 \/ q.sent.method = "OPTIONS"
    BY DEF OnlyAdmittedReachHandlers
  <2>1. Passage(req[r])
    BY DEF ChainInv, PassageInv
  <2> QED
    BY <2>1 DEF Passage, Permitted
<1> QED
  BY <1>1, Invariance, PTL

\* A path keeps its limits while the rules are replaced, one part after the other, next to
\* the requests.
THEOREM LimitsKept == Spec => []PathsKeepTheirLimits
<1>1. ChainInv => PathsKeepTheirLimits
  BY DEF ChainInv, LimitsInv, Told, PathsKeepTheirLimits
<1> QED
  BY <1>1, Invariance, PTL

\* However many requests race for the first bucket of a client, whatever the cleaner drops.
THEOREM BurstBound == Spec => []BurstHonoured
<1>1. ChainInv => BurstHonoured
  <2> SUFFICES ASSUME ChainInv PROVE BurstHonoured
    OBVIOUS
  <2>1. now \in Nat /\ Most \in Nat
    BY TimeAssumption, MostType DEF ChainInv, BucketsInv, Most
  <2>2. ASSUME NEW ip \in Clients
        PROVE  admitted[ip] <= (Burst + Rate * now) * (1 + dropped[ip])
    <3> DEFINE S == BucketsOf(ip)
               n == Cardinality(S)
               d == dropped[ip] + 1
    <3>1. /\ IsFiniteSet(S) /\ n <= dropped[ip] + Live(ip)
          /\ admitted[ip] <= Cardinality(Spent(S, Most, tokens))
          /\ dropped[ip] \in Nat /\ admitted[ip] \in Nat
      BY DEF ChainInv, CountInv
    <3>2. n \in Nat /\ d \in Nat /\ n <= d
      BY <3>1, FS_CardinalityType DEF Live
    <3>3. /\ Cardinality(Spent(S, Most, tokens)) <= n * Most
          /\ Cardinality(Spent(S, Most, tokens)) \in Nat
      BY <2>1, <3>1, SpentFinite
    <3> HIDE DEF S, n, d
    <3>4. n * Most <= d * Most /\ n * Most \in Nat /\ d * Most \in Nat
      BY <2>1, <3>2
    <3>5. d * Most = Most * d
      BY <2>1, <3>2
    <3>6. admitted[ip] <= Most * d
      BY <3>1, <3>3, <3>4, <3>5
    <3>7. d = 1 + dropped[ip]
      BY <3>1 DEF d
    <3> QED
      BY <3>6, <3>7 DEF Most
  <2>3. ASSUME NEW r \in Requests, req[r].status = 429, guard = "ip"
        PROVE  admitted[req[r].sent.ip] >= Burst
    BY <2>3 DEF ChainInv, BucketsInv
  <2> QED
    BY <2>2, <2>3 DEF BurstHonoured
<1> QED
  BY <1>1, Invariance, PTL

\* The cleaner can get rid of every bucket, although times are noted late and in any order.
THEOREM BucketsHaveTimes == Spec => []LimitersCanExpire
<1>1. ChainInv => LimitersCanExpire
  BY DEF ChainInv, BucketsInv, LimitersCanExpire
<1> QED
  BY <1>1, Invariance, PTL
=============================================================================
