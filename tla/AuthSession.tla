---------------------------- MODULE AuthSession ----------------------------
(***************************************************************************)
(* Sessions: tokens are issued by login and refresh, checked by the JWT    *)
(* middleware on every protected request and revoked by logout.  Tokens    *)
(* are stateless, so all that remembers a logout is the revocation list of *)
(* the TokenStore: the memory driver keeps one in every process, the redis *)
(* driver one for all of them.                                             *)
(*                                                                         *)
(* Parsing a token, each visit to the list and the permission check are    *)
(* steps of their own.  All clocks are one clock.                          *)
(***************************************************************************)
EXTENDS MemoryMap

CONSTANTS
    Nodes,      \* processes of the service
    Jtis,       \* token identifiers; bound: as many tokens can be issued
    Requests,   \* concurrent protected requests
    Logouts,    \* concurrent calls of /logout
    AccessTTL, RefreshTTL,
    None        \* no token, no node

ASSUME ExpirationAssumption == AccessTTL \in Nat \ {0} /\ RefreshTTL \in Nat \ {0}
ASSUME NoneAssumption == None \notin Jtis /\ None \notin Nodes

VARIABLES
    driver,     \* jwt.token_store.driver, the same for all nodes
    token,      \* tokens issued: jti -> entry with the token's type and time left
    revoked,    \* node -> its revocation list, a map from jti; the redis list is at None
    req,        \* progress of each request
    out,        \* progress of each logout
    loggedOut   \* history: pairs <<list, jti>> of logouts answered with success, as
                \* long as the list lives

vars == <<driver, token, revoked, req, out, loggedOut>>

Lists == Nodes \cup {None}

\* The list that a node consults.
ListOf(n) == IF driver = "memory" THEN n ELSE None

Idle == [pc |-> "idle", node |-> None, jti |-> None, after |-> FALSE]

NoLogout == [pc |-> "idle", node |-> None, jti |-> None, ttl |-> 0]

Request == [pc : {"idle", "check", "reap", "permission", "handler"},
            node : Nodes \cup {None}, jti : Jtis \cup {None}, after : BOOLEAN]

Logout == [pc : {"idle", "until", "revoke"}, node : Nodes \cup {None},
           jti : Jtis \cup {None}, ttl : 0..AccessTTL]

TypeOK ==
    /\ driver \in {"memory", "redis"}
    /\ DOMAIN token \subseteq Jtis
    /\ \A j \in DOMAIN token : token[j].val \in {"access", "refresh"} /\ token[j].left \in Nat
    /\ DOMAIN revoked = Lists
    /\ \A l \in Lists : \A j \in DOMAIN revoked[l] :
            j \in DOMAIN token /\ revoked[l][j].left \in 0..AccessTTL
    /\ req \in [Requests -> Request]
    /\ out \in [Logouts -> Logout]
    /\ loggedOut \subseteq Lists \X DOMAIN token

Init ==
    /\ driver \in {"memory", "redis"}
    /\ token = EmptyMap
    /\ revoked = [l \in Lists |-> EmptyMap]
    /\ req = [q \in Requests |-> Idle]
    /\ out = [l \in Logouts |-> NoLogout]
    /\ loggedOut = {}

-----------------------------------------------------------------------------
\* GenerateToken: an access and a refresh token under fresh ids.
GenerateToken(a, r) ==
    /\ {a, r} \cap DOMAIN token = {}
    /\ a # r
    /\ token' = With(With(token, a, Entry("access", AccessTTL)), r, Entry("refresh", RefreshTTL))

\* The credentials are right.
Login(a, r) ==
    /\ GenerateToken(a, r)
    /\ UNCHANGED <<driver, revoked, req, out, loggedOut>>

\* The refresh token is not used up and the revocation list is not asked.
RefreshToken(old, a, r) ==
    /\ old \in LiveKeys(token) /\ token[old].val = "refresh"
    /\ GenerateToken(a, r)
    /\ UNCHANGED <<driver, revoked, req, out, loggedOut>>

-----------------------------------------------------------------------------
(* The middleware.  A request turned away is idle again.                   *)

Turn(q, pc) ==
    req' = [req EXCEPT ![q] = IF pc = "idle" THEN Idle ELSE [@ EXCEPT !.pc = pc]]

\* ParseToken accepts a token of either type that has not expired.
ParseToken(q, n, j) ==
    /\ req[q].pc = "idle"
    /\ j \in LiveKeys(token)
    /\ req' = [req EXCEPT ![q] = [pc |-> "check", node |-> n, jti |-> j,
                                  after |-> <<ListOf(n), j>> \in loggedOut]]
    /\ UNCHANGED <<driver, token, revoked, out, loggedOut>>

\* Mutant of Revoked: the entry counts whether or not it has expired.
RevokedByAnyEntry(q) ==
    /\ req[q].pc = "check"
    /\ driver = "redis" \/ req[q].jti \in DOMAIN revoked[ListOf(req[q].node)]
    /\ Turn(q, "idle")
    /\ UNCHANGED <<driver, token, revoked, out, loggedOut>>

\* IsRevoked finds the id, or redis fails to answer: the request is turned away.
Revoked(q) ==
    /\ req[q].pc = "check"
    /\ driver = "redis" \/ req[q].jti \in LiveKeys(revoked[ListOf(req[q].node)])
    /\ Turn(q, "idle")
    /\ UNCHANGED <<driver, token, revoked, out, loggedOut>>

\* IsRevoked does not find the id; redis keeps no expired key.
NotRevoked(q) ==
    /\ req[q].pc = "check"
    /\ LET list == revoked[ListOf(req[q].node)]
       IN  req[q].jti \notin IF driver = "memory" THEN DOMAIN list ELSE LiveKeys(list)
    /\ Turn(q, "permission")
    /\ UNCHANGED <<driver, token, revoked, out, loggedOut>>

\* In memory the entry is there but has expired: Get lets go of the lock...
FoundExpired(q) ==
    /\ req[q].pc = "check"
    /\ driver = "memory"
    /\ LET list == revoked[req[q].node]
       IN  req[q].jti \in DOMAIN list \ LiveKeys(list)
    /\ Turn(q, "reap")
    /\ UNCHANGED <<driver, token, revoked, out, loggedOut>>

\* ...and deletes whatever is there by now.
ReapExpired(q) ==
    /\ req[q].pc = "reap"
    /\ revoked' = [revoked EXCEPT ![req[q].node] = Without(@, {req[q].jti})]
    /\ Turn(q, "permission")
    /\ UNCHANGED <<driver, token, out, loggedOut>>

\* HasPermission grants (or the path is excluded), denies or fails.
CheckPermission(q, granted) ==
    /\ req[q].pc = "permission"
    /\ Turn(q, IF granted THEN "handler" ELSE "idle")
    /\ UNCHANGED <<driver, token, revoked, out, loggedOut>>

\* The handler answers.
Answer(q) ==
    /\ req[q].pc = "handler"
    /\ Turn(q, "idle")
    /\ UNCHANGED <<driver, token, revoked, out, loggedOut>>

-----------------------------------------------------------------------------
(* Logout.                                                                 *)

\* The handler parses the token itself and wants an access token.
BeginLogout(l, n, j) ==
    /\ out[l].pc = "idle"
    /\ j \in LiveKeys(token) /\ token[j].val = "access"
    /\ out' = [out EXCEPT ![l] = [pc |-> "until", node |-> n, jti |-> j, ttl |-> 0]]
    /\ UNCHANGED <<driver, token, revoked, req, loggedOut>>

\* Mutant of TimeUntil: the entry lives for the time the token has been in use.
TimeSince(l) ==
    /\ out[l].pc = "until"
    /\ LET left == AccessTTL - token[out[l].jti].left
       IN  IF left > 0
           THEN /\ out' = [out EXCEPT ![l].pc = "revoke", ![l].ttl = left]
                /\ UNCHANGED loggedOut
           ELSE /\ out' = [out EXCEPT ![l] = NoLogout]
                /\ loggedOut' = loggedOut \cup {<<ListOf(out[l].node), out[l].jti>>}
    /\ UNCHANGED <<driver, token, revoked, req>>

\* Revoke: how long the token still has; one that has expired needs no entry.
TimeUntil(l) ==
    /\ out[l].pc = "until"
    /\ LET left == token[out[l].jti].left
       IN  IF left > 0
           THEN /\ out' = [out EXCEPT ![l].pc = "revoke", ![l].ttl = left]
                /\ UNCHANGED loggedOut
           ELSE /\ out' = [out EXCEPT ![l] = NoLogout]
                /\ loggedOut' = loggedOut \cup {<<ListOf(out[l].node), out[l].jti>>}
    /\ UNCHANGED <<driver, token, revoked, req>>

\* The entry is written for that long.  Redis may apply the write and fail to say so.
Revoke(l, acked) ==
    /\ out[l].pc = "revoke"
    /\ acked \/ driver = "redis"
    /\ LET list == ListOf(out[l].node)
       IN  /\ revoked' = [revoked EXCEPT ![list] =
                            SetWithTTL(@, out[l].jti, "revoked", out[l].ttl)]
           /\ loggedOut' = IF acked THEN loggedOut \cup {<<list, out[l].jti>>} ELSE loggedOut
    /\ out' = [out EXCEPT ![l] = NoLogout]
    /\ UNCHANGED <<driver, token, req>>

\* Redis is not reached: the client is told that the logout failed.
RevokeFails(l) ==
    /\ out[l].pc = "revoke"
    /\ driver = "redis"
    /\ out' = [out EXCEPT ![l] = NoLogout]
    /\ UNCHANGED <<driver, token, revoked, req, loggedOut>>

-----------------------------------------------------------------------------
\* A process stops, with its requests and its memory, and starts again.
Restart(n) ==
    /\ req' = [q \in Requests |-> IF req[q].node = n THEN Idle ELSE req[q]]
    /\ out' = [l \in Logouts |-> IF out[l].node = n THEN NoLogout ELSE out[l]]
    /\ revoked' = [revoked EXCEPT ![n] = EmptyMap]
    /\ loggedOut' = {x \in loggedOut : x[1] # n}
    /\ UNCHANGED <<driver, token>>

\* The clock moves.
Tick ==
    /\ token' = Aged(token)
    /\ revoked' = [l \in Lists |-> Aged(revoked[l])]
    /\ UNCHANGED <<driver, req, out, loggedOut>>

Next ==
    \/ \E a, r \in Jtis : Login(a, r) \/ \E old \in Jtis : RefreshToken(old, a, r)
    \/ \E q \in Requests :
        \/ \E n \in Nodes, j \in Jtis : ParseToken(q, n, j)
        \/ Revoked(q) \/ NotRevoked(q) \/ FoundExpired(q) \/ ReapExpired(q)
        \/ \E granted \in BOOLEAN : CheckPermission(q, granted)
        \/ Answer(q)
    \/ \E l \in Logouts :
        \/ \E n \in Nodes, j \in Jtis : BeginLogout(l, n, j)
        \/ TimeUntil(l) \/ RevokeFails(l)
        \/ \E acked \in BOOLEAN : Revoke(l, acked)
    \/ \E n \in Nodes : Restart(n)
    \/ Tick

Spec == Init /\ [][Next]_vars

-----------------------------------------------------------------------------
(* Properties.                                                             *)

Admitted(x) == x.pc \in {"permission", "handler"}

\* A token logged out with success before a request began does not take the request
\* through the middleware, on any node that shares the list and across restarts that
\* spare it, whatever logouts, expiry and lookups happen in between, unless the token
\* expires on the way from parsing it to looking it up.
LogoutHolds ==
    \A q \in Requests : req[q].after /\ Admitted(req[q]) => Expired(token[req[q].jti])

\* What is on the lists: the entries that have not expired.
Listed == {x \in Lists \X Jtis : x[2] \in LiveKeys(revoked[x[1]])}

\* From "reap" on, the answer that the request may pass has been found.
Asked(x) ==
    IF x.pc = "idle" THEN [stage |-> "none", node |-> None, about |-> None]
    ELSE [stage |-> IF x.pc = "check" THEN "asking" ELSE "passed", node |-> x.node,
          about |-> <<ListOf(x.node), x.jti>>]

List == INSTANCE RevocationList
    WITH Remote <- {None}, issued <- DOMAIN token, live <- LiveKeys(token), listed <- Listed,
         confirmed <- loggedOut, ask <- [q \in Requests |-> Asked(req[q])]

\* For all that callers can tell, both drivers keep a set of revoked tokens: the time to
\* live that is worked out in one step and starts to run in another never takes an entry off
\* the list before its token has expired, nor does the second lock of a lookup, which may
\* delete another entry than the one found expired.  Whoever is told "revoked" was on the
\* list at one instant, unless redis failed, and whoever is let through was not.
ImplementsRevocationList == List!Spec
=============================================================================
