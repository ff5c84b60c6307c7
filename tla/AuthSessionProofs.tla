------------------------- MODULE AuthSessionProofs -------------------------
(***************************************************************************)
(* A logout holds, for any number of nodes, tokens, requests and logouts   *)
(* and for both drivers.                                                   *)
(***************************************************************************)
EXTENDS AuthSession, TLAPS

\* No entry of a list goes before the token it is about; a logout answered with success
\* has left one that is still there, or its token has expired.
Covers ==
    /\ \A l \in Lists : \A j \in DOMAIN revoked[l] : revoked[l][j].left >= token[j].left
    /\ \A x \in loggedOut : x[2] \in DOMAIN revoked[x[1]] \/ Expired(token[x[2]])

\* What a logout under way knows of its token.  The time it has worked out may be too
\* long by the time the entry is written, never too short.
Leaving(o) ==
    o.pc # "idle" =>
        /\ o.node \in Nodes /\ o.jti \in DOMAIN token
        /\ token[o.jti].left <= AccessTTL
        /\ o.pc = "revoke" => o.ttl > 0 /\ o.ttl >= token[o.jti].left

\* What a request under way knows of its token: it began after a logout only if that
\* logout is on the list it consults, and an entry found expired means an expired token.
Passing(x) ==
    x.pc # "idle" =>
        /\ x.node \in Nodes /\ x.jti \in DOMAIN token
        /\ x.pc = "check" /\ x.after => <<ListOf(x.node), x.jti>> \in loggedOut
        /\ (x.pc # "check" /\ x.after) \/ x.pc = "reap" => Expired(token[x.jti])

AccessTokens == \A j \in DOMAIN token : token[j].val = "access" => token[j].left <= AccessTTL

SessionInv ==
    /\ TypeOK /\ AccessTokens /\ Covers
    /\ \A l \in Logouts : Leaving(out[l])
    /\ \A q \in Requests : Passing(req[q])

-----------------------------------------------------------------------------
LEMMA SessionInit == Init => SessionInv
<1> SUFFICES ASSUME Init PROVE SessionInv
  OBVIOUS
<1>1. DOMAIN token = {} /\ \A l \in Lists : DOMAIN revoked[l] = {}
  BY DEF Init, EmptyMap
<1>2. /\ req \in [Requests -> Request] /\ \A q \in Requests : req[q].pc = "idle"
      /\ out \in [Logouts -> Logout] /\ \A l \in Logouts : out[l].pc = "idle"
  BY ExpirationAssumption DEF Init, Idle, NoLogout, Request, Logout
<1>3. TypeOK
  BY <1>1, <1>2 DEF TypeOK, Init
<1>4. AccessTokens /\ Covers
  BY <1>1 DEF AccessTokens, Covers, Init
<1> QED BY <1>2, <1>3, <1>4 DEF SessionInv, Leaving, Passing

\* Issuing a pair of tokens leaves the others alone.
LEMMA IssueTyped ==
    ASSUME SessionInv, NEW a \in Jtis, NEW r \in Jtis, GenerateToken(a, r),
           UNCHANGED <<driver, revoked, req, out, loggedOut>>
    PROVE  SessionInv'
<1>1. /\ a \notin DOMAIN token /\ r \notin DOMAIN token /\ a # r
      /\ DOMAIN token' = DOMAIN token \cup {a, r}
      /\ \A j \in DOMAIN token : token'[j] = token[j]
      /\ token'[a] = Entry("access", AccessTTL) /\ token'[r] = Entry("refresh", RefreshTTL)
  BY DEF GenerateToken, With
<1>2. /\ token'[a].val = "access" /\ token'[a].left = AccessTTL
      /\ token'[r].val = "refresh" /\ token'[r].left = RefreshTTL
  BY <1>1 DEF Entry
<1>3. \A j \in DOMAIN token' : j \in DOMAIN token \/ j = a \/ j = r
  BY <1>1
<1>4. TypeOK'
  BY <1>1, <1>2, <1>3, ExpirationAssumption DEF SessionInv, TypeOK, Lists, Request, Logout
<1>5. AccessTokens'
  BY <1>1, <1>2, <1>3, ExpirationAssumption DEF SessionInv, AccessTokens
<1>6. Covers'
  BY <1>1 DEF SessionInv, Covers, TypeOK, Expired
<1>7. (\A l \in Logouts : Leaving(out[l]))'
  BY <1>1 DEF SessionInv, Leaving
<1>8. (\A q \in Requests : Passing(req[q]))'
  BY <1>1 DEF SessionInv, Passing, Expired, ListOf
<1> QED BY <1>4, <1>5, <1>6, <1>7, <1>8 DEF SessionInv

\* A request moves: the tokens, the lists and the logouts stay.
LEMMA RequestMoves ==
    ASSUME SessionInv, NEW q \in Requests, NEW x \in Request, Passing(x),
           req' = [req EXCEPT ![q] = x],
           UNCHANGED <<driver, token, revoked, out, loggedOut>>
    PROVE  SessionInv'
<1>1. req' \in [Requests -> Request] /\ \A y \in Requests : req'[y] \in {req[y], x}
  BY DEF SessionInv, TypeOK
<1>2. (\A y \in Requests : Passing(req[y]))'
  BY <1>1 DEF SessionInv, Passing, ListOf
<1> QED BY <1>1, <1>2 DEF SessionInv, TypeOK, AccessTokens, Covers, Leaving

LEMMA IdlePasses == Idle \in Request /\ Passing(Idle)
BY DEF Idle, Request, Passing

\* The revocation list that a node consults is one of the lists.
LEMMA ListOfNode == TypeOK => \A n \in Nodes : ListOf(n) \in Lists
BY DEF ListOf, Lists

LEMMA ParseKeeps ==
    ASSUME SessionInv, NEW q \in Requests, NEW n \in Nodes, NEW j \in Jtis, ParseToken(q, n, j)
    PROVE  SessionInv'
<1> DEFINE x == [pc |-> "check", node |-> n, jti |-> j, after |-> <<ListOf(n), j>> \in loggedOut]
<1>1. j \in DOMAIN token
  BY DEF ParseToken, LiveKeys
<1>2. x \in Request
  BY DEF Request
<1>3. Passing(x)
  BY <1>1 DEF Passing
<1>4. req' = [req EXCEPT ![q] = x] /\ UNCHANGED <<driver, token, revoked, out, loggedOut>>
  BY DEF ParseToken
<1> HIDE DEF x
<1> QED BY <1>2, <1>3, <1>4, RequestMoves

\* A request goes on to pc if it may be there.
LEMMA TurnKeeps ==
    ASSUME SessionInv, NEW q \in Requests,
           NEW pc \in {"idle", "reap", "permission", "handler"}, Turn(q, pc), req[q].pc # "idle",
           pc # "idle" /\ (pc = "reap" \/ req[q].after) => Expired(token[req[q].jti]),
           UNCHANGED <<driver, token, revoked, out, loggedOut>>
    PROVE  SessionInv'
<1> DEFINE x == [req[q] EXCEPT !.pc = pc]
<1>1. req[q] \in Request /\ Passing(req[q])
  BY DEF SessionInv, TypeOK
<1>2. x \in Request /\ x.pc = pc /\ x.node = req[q].node /\ x.jti = req[q].jti
      /\ x.after = req[q].after
  BY <1>1 DEF Request
<1>3. req' = [req EXCEPT ![q] = IF pc = "idle" THEN Idle ELSE x]
  BY DEF Turn
<1> HIDE DEF x
<1>4. pc # "idle" => Passing(x)
  BY <1>1, <1>2 DEF Passing
<1> QED BY <1>2, <1>3, <1>4, IdlePasses, RequestMoves

\* What looking up a logged out token tells.
LEMMA LookUp ==
    ASSUME SessionInv, NEW q \in Requests, req[q].pc = "check"
    PROVE  LET list == revoked[ListOf(req[q].node)]
           IN  /\ req[q].after /\ req[q].jti \notin LiveKeys(list) => Expired(token[req[q].jti])
               /\ req[q].jti \in DOMAIN list \ LiveKeys(list) => Expired(token[req[q].jti])
<1> DEFINE j == req[q].jti
           l == ListOf(req[q].node)
<1>1. /\ Passing(req[q]) /\ j \in DOMAIN token /\ l \in Lists
      /\ req[q].after => <<l, j>> \in loggedOut
  BY ListOfNode DEF SessionInv, Passing
<1>2. token[j].left \in Nat
  BY <1>1 DEF SessionInv, TypeOK
<1>3. j \in DOMAIN revoked[l] /\ j \notin LiveKeys(revoked[l]) => Expired(token[j])
  <2> SUFFICES ASSUME j \in DOMAIN revoked[l], j \notin LiveKeys(revoked[l]) PROVE token[j].left = 0
    BY DEF Expired
  <2>1. revoked[l][j].left = 0 /\ revoked[l][j].left >= token[j].left
    BY <1>1 DEF SessionInv, Covers, LiveKeys, Expired
  <2> QED BY <1>2, <2>1
<1>4. req[q].after => j \in DOMAIN revoked[l] \/ Expired(token[j])
  BY <1>1 DEF SessionInv, Covers
<1> QED BY <1>3, <1>4 DEF LiveKeys

LEMMA LookupKeeps ==
    ASSUME SessionInv, NEW q \in Requests,
           \/ Revoked(q) \/ NotRevoked(q) \/ FoundExpired(q) \/ Answer(q)
           \/ \E granted \in BOOLEAN : CheckPermission(q, granted)
    PROVE  SessionInv'
<1>1. CASE Revoked(q)
  BY <1>1, TurnKeeps DEF Revoked
<1>2. CASE NotRevoked(q)
  <2>1. req[q].jti \notin LiveKeys(revoked[ListOf(req[q].node)])
    BY <1>2 DEF NotRevoked, LiveKeys
  <2> QED BY <1>2, <2>1, LookUp, TurnKeeps DEF NotRevoked
<1>3. CASE FoundExpired(q)
  BY <1>3, LookUp, TurnKeeps DEF FoundExpired, ListOf
<1>4. CASE Answer(q)
  BY <1>4, TurnKeeps DEF Answer
<1>5. ASSUME NEW granted \in BOOLEAN, CheckPermission(q, granted) PROVE SessionInv'
  <2>1. req[q].after => Expired(token[req[q].jti])
    BY <1>5 DEF CheckPermission, SessionInv, Passing
  <2> QED BY <1>5, <2>1, TurnKeeps DEF CheckPermission
<1> QED BY <1>1, <1>2, <1>3, <1>4, <1>5

\* Only an entry whose token has expired is reaped.
LEMMA ReapKeeps ==
    ASSUME SessionInv, NEW q \in Requests, ReapExpired(q)
    PROVE  SessionInv'
<1> DEFINE j == req[q].jti
           n == req[q].node
           x == [req[q] EXCEPT !.pc = "permission"]
<1>1. Passing(req[q]) /\ req[q].pc = "reap" /\ req[q] \in Request
  BY DEF SessionInv, TypeOK, ReapExpired
<1>2. Expired(token[j]) /\ n \in Nodes /\ j \in DOMAIN token
  BY <1>1 DEF Passing
<1>3. x \in Request /\ x.pc = "permission" /\ x.node = n /\ x.jti = j
  BY <1>1 DEF Request
<1>4. req' = [req EXCEPT ![q] = x] /\ UNCHANGED <<driver, token, out, loggedOut>>
  BY DEF ReapExpired, Turn
<1>5. DOMAIN revoked' = Lists /\ \A l \in Lists :
          /\ DOMAIN revoked'[l] \subseteq DOMAIN revoked[l]
          /\ DOMAIN revoked[l] \ {j} \subseteq DOMAIN revoked'[l]
          /\ \A y \in DOMAIN revoked'[l] : revoked'[l][y] = revoked[l][y]
  BY <1>2 DEF ReapExpired, Without, SessionInv, TypeOK, Lists
<1> HIDE DEF x
<1>6. (\A y \in Requests : Passing(req[y]))'
  BY <1>2, <1>3, <1>4 DEF SessionInv, TypeOK, Passing, ListOf
<1>7. TypeOK'
  BY <1>3, <1>4, <1>5 DEF SessionInv, TypeOK
<1>8. Covers'
  <2>1. \A y \in loggedOut : y[1] \in Lists
    BY DEF SessionInv, TypeOK
  <2> QED BY <1>2, <1>4, <1>5, <2>1 DEF SessionInv, Covers
<1> QED BY <1>4, <1>6, <1>7, <1>8 DEF SessionInv, AccessTokens, Leaving

-----------------------------------------------------------------------------
\* A logout moves and may be answered with success; tokens, lists and requests stay.
LEMMA LogoutMoves ==
    ASSUME SessionInv, NEW l \in Logouts, NEW o \in Logout, Leaving(o),
           out' = [out EXCEPT ![l] = o], UNCHANGED <<driver, token, revoked, req>>,
           \/ UNCHANGED loggedOut
           \/ /\ out[l].pc # "idle" /\ Expired(token[out[l].jti])
              /\ loggedOut' = loggedOut \cup {<<ListOf(out[l].node), out[l].jti>>}
    PROVE  SessionInv'
<1>1. out' \in [Logouts -> Logout] /\ \A y \in Logouts : out'[y] \in {out[y], o}
  BY DEF SessionInv, TypeOK
<1>2. (\A y \in Logouts : Leaving(out[y]))'
  BY <1>1 DEF SessionInv, Leaving
<1>3. out[l].pc # "idle" => ListOf(out[l].node) \in Lists /\ out[l].jti \in DOMAIN token
  BY ListOfNode DEF SessionInv, Leaving
<1>4. loggedOut \subseteq loggedOut' /\ loggedOut' \subseteq Lists \X DOMAIN token
  BY <1>3 DEF SessionInv, TypeOK
<1>5. TypeOK'
  BY <1>1, <1>4 DEF SessionInv, TypeOK
<1>6. Covers'
  BY DEF SessionInv, Covers, Expired
<1>7. (\A q \in Requests : Passing(req[q]))'
  BY <1>4 DEF SessionInv, Passing, ListOf
<1> QED BY <1>2, <1>5, <1>6, <1>7 DEF SessionInv, AccessTokens

LEMMA NoLogoutLeaves == NoLogout \in Logout /\ Leaving(NoLogout)
BY ExpirationAssumption DEF NoLogout, Logout, Leaving

LEMMA BeginKeeps ==
    ASSUME SessionInv, NEW l \in Logouts, NEW n \in Nodes, NEW j \in Jtis, BeginLogout(l, n, j)
    PROVE  SessionInv'
<1> DEFINE o == [pc |-> "until", node |-> n, jti |-> j, ttl |-> 0]
<1>1. j \in DOMAIN token /\ token[j].left <= AccessTTL
  BY DEF BeginLogout, LiveKeys, SessionInv, AccessTokens
<1>2. o \in Logout /\ Leaving(o)
  BY <1>1, ExpirationAssumption DEF Logout, Leaving
<1>3. out' = [out EXCEPT ![l] = o] /\ UNCHANGED <<driver, token, revoked, req, loggedOut>>
  BY DEF BeginLogout
<1> HIDE DEF o
<1> QED BY <1>2, <1>3, LogoutMoves

LEMMA TimeUntilKeeps ==
    ASSUME SessionInv, NEW l \in Logouts, TimeUntil(l)
    PROVE  SessionInv'
<1> DEFINE left == token[out[l].jti].left
           o == [out[l] EXCEPT !.pc = "revoke", !.ttl = left]
<1>1. /\ out[l].pc = "until" /\ out[l] \in Logout /\ Leaving(out[l])
      /\ UNCHANGED <<driver, token, revoked, req>>
  BY DEF SessionInv, TypeOK, TimeUntil
<1>2. left \in 0..AccessTTL
  BY <1>1, ExpirationAssumption DEF Leaving, SessionInv, TypeOK
<1>3. CASE left > 0
  <2>1. /\ o \in Logout /\ o.pc = "revoke" /\ o.ttl = left
        /\ o.node = out[l].node /\ o.jti = out[l].jti
    BY <1>1, <1>2 DEF Logout
  <2>2. out' = [out EXCEPT ![l] = o] /\ UNCHANGED loggedOut
    BY <1>3 DEF TimeUntil
  <2> HIDE DEF o
  <2>3. Leaving(o)
    BY <1>1, <1>2, <1>3, <2>1 DEF Leaving
  <2> QED BY <1>1, <2>1, <2>2, <2>3, LogoutMoves
<1>4. CASE ~ left > 0
  <2>1. Expired(token[out[l].jti])
    BY <1>2, <1>4 DEF Expired
  <2> QED BY <1>1, <1>4, <2>1, NoLogoutLeaves, LogoutMoves DEF TimeUntil
<1> QED BY <1>3, <1>4

\* An entry for long enough is added; what the write sweeps out had expired.
LEMMA RevokeKeeps ==
    ASSUME SessionInv, NEW l \in Logouts, NEW acked \in BOOLEAN, Revoke(l, acked)
    PROVE  SessionInv'
<1> DEFINE j == out[l].jti
           ttl == out[l].ttl
           list == ListOf(out[l].node)
           with == With(revoked[list], j, Entry("revoked", ttl))
           new == Cleanup(with)
<1>1. /\ out[l].pc = "revoke" /\ out[l] \in Logout /\ Leaving(out[l])
      /\ out' = [out EXCEPT ![l] = NoLogout] /\ UNCHANGED <<driver, token, req>>
  BY DEF SessionInv, TypeOK, Revoke
<1>2. j \in DOMAIN token /\ ttl \in 0..AccessTTL /\ ttl > 0 /\ ttl >= token[j].left /\ list \in Lists
  BY <1>1, ListOfNode DEF Leaving, Logout, SessionInv
<1>3. revoked' = [revoked EXCEPT ![list] = new]
  <2>1. ~ ttl <= 0
    BY <1>2, ExpirationAssumption
  <2> QED BY <2>1 DEF Revoke, SetWithTTL
<1>4. /\ DOMAIN with = DOMAIN revoked[list] \cup {j}
      /\ with[j].left = ttl
      /\ \A y \in DOMAIN revoked[list] : y # j => with[y] = revoked[list][y]
  BY DEF With, Entry
<1>5. /\ DOMAIN new = {y \in DOMAIN with : with[y].left # 0}
      /\ \A y \in DOMAIN new : new[y] = with[y]
  BY DEF Cleanup, LiveKeys, Expired
<1> HIDE DEF with, new
<1>6. /\ DOMAIN new \subseteq DOMAIN revoked[list] \cup {j} /\ j \in DOMAIN new /\ new[j].left = ttl
      /\ \A y \in DOMAIN new : y # j => new[y] = revoked[list][y]
      /\ \A y \in DOMAIN revoked[list] \ DOMAIN new : revoked[list][y].left = 0
  BY <1>2, <1>4, <1>5, ExpirationAssumption
<1>7. /\ DOMAIN revoked' = Lists /\ revoked'[list] = new
      /\ \A k \in Lists : k # list => revoked'[k] = revoked[k]
  BY <1>2, <1>3 DEF SessionInv, TypeOK
<1>8. loggedOut \subseteq loggedOut' /\ loggedOut' \subseteq loggedOut \cup {<<list, j>>}
  BY DEF Revoke
<1>9. out' \in [Logouts -> Logout] /\ (\A y \in Logouts : Leaving(out[y]))'
  BY <1>1, NoLogoutLeaves DEF SessionInv, TypeOK, Leaving
<1>10. TypeOK'
  <2>1. \A k \in Lists : \A y \in DOMAIN revoked'[k] :
            y \in DOMAIN token /\ revoked'[k][y].left \in 0..AccessTTL
    BY <1>2, <1>6, <1>7 DEF SessionInv, TypeOK
  <2> QED BY <1>1, <1>2, <1>7, <1>8, <1>9, <2>1 DEF SessionInv, TypeOK
<1>11. Covers'
  <2>1. \A k \in Lists : \A y \in DOMAIN revoked'[k] : revoked'[k][y].left >= token[y].left
    BY <1>2, <1>6, <1>7 DEF SessionInv, Covers
  <2>2. ASSUME NEW x \in loggedOut' PROVE x[2] \in DOMAIN revoked'[x[1]] \/ Expired(token[x[2]])
    <3>1. x[1] \in Lists /\ x[2] \in DOMAIN token
      BY <1>2, <1>8, <2>2 DEF SessionInv, TypeOK
    <3>2. CASE x = <<list, j>>
      BY <1>6, <1>7, <3>2
    <3>3. CASE x \in loggedOut
      <4>1. x[2] \in DOMAIN revoked[x[1]] \/ Expired(token[x[2]])
        BY <3>3 DEF SessionInv, Covers
      <4>2. x[2] \in DOMAIN revoked[x[1]] /\ x[2] \notin DOMAIN revoked'[x[1]]
                => revoked[x[1]][x[2]].left = 0
        BY <1>6, <1>7, <3>1
      <4>3. token[x[2]].left \in Nat
        BY <3>1 DEF SessionInv, TypeOK
      <4>4. x[2] \in DOMAIN revoked[x[1]] => revoked[x[1]][x[2]].left >= token[x[2]].left
        BY <3>1 DEF SessionInv, Covers
      <4> QED BY <4>1, <4>2, <4>3, <4>4 DEF Expired
    <3> QED BY <1>8, <2>2, <3>2, <3>3
  <2> QED BY <1>1, <2>1, <2>2 DEF Covers
<1>12. (\A q \in Requests : Passing(req[q]))'
  BY <1>1, <1>8 DEF SessionInv, Passing, ListOf
<1> QED BY <1>1, <1>9, <1>10, <1>11, <1>12 DEF SessionInv, AccessTokens

LEMMA RevokeFailsKeeps ==
    ASSUME SessionInv, NEW l \in Logouts, RevokeFails(l)
    PROVE  SessionInv'
BY NoLogoutLeaves, LogoutMoves DEF RevokeFails

-----------------------------------------------------------------------------
\* A restart takes the requests that relied on the list it empties with it.
LEMMA RestartKeeps ==
    ASSUME SessionInv, NEW n \in Nodes, Restart(n)
    PROVE  SessionInv'
<1>1. /\ req' \in [Requests -> Request]
      /\ \A q \in Requests : req'[q] = Idle \/ (req'[q] = req[q] /\ req[q].node # n)
  BY IdlePasses DEF Restart, SessionInv, TypeOK
<1>2. /\ out' \in [Logouts -> Logout]
      /\ \A l \in Logouts : out'[l] = NoLogout \/ out'[l] = out[l]
  BY NoLogoutLeaves DEF Restart, SessionInv, TypeOK
<1>3. /\ DOMAIN revoked' = Lists /\ DOMAIN revoked'[n] = {}
      /\ \A l \in Lists : l # n => revoked'[l] = revoked[l]
  BY DEF Restart, SessionInv, TypeOK, EmptyMap, Lists
<1>4. UNCHANGED <<driver, token>> /\ loggedOut' = {x \in loggedOut : x[1] # n}
  BY DEF Restart
<1>5. TypeOK'
  BY <1>1, <1>2, <1>3, <1>4 DEF SessionInv, TypeOK
<1>6. Covers'
  BY <1>3, <1>4 DEF SessionInv, TypeOK, Covers
<1>7. (\A l \in Logouts : Leaving(out[l]))'
  BY <1>2, <1>4, NoLogoutLeaves DEF SessionInv, Leaving
<1>8. (\A q \in Requests : Passing(req[q]))'
  <2> SUFFICES ASSUME NEW q \in Requests, req'[q] = req[q], req[q].node # n, req[q].pc # "idle"
               PROVE  Passing(req[q])'
    BY <1>1 DEF Passing, Idle
  <2>1. Passing(req[q]) /\ ListOf(req[q].node)' = ListOf(req[q].node)
    BY <1>4 DEF SessionInv, ListOf
  <2>2. ListOf(req[q].node) # n
    BY NoneAssumption DEF ListOf
  <2> QED BY <1>4, <2>1, <2>2 DEF Passing
<1> QED BY <1>4, <1>5, <1>6, <1>7, <1>8 DEF SessionInv, AccessTokens

LEMMA AgedLeft ==
    ASSUME NEW f, NEW j \in DOMAIN f, f[j].left \in Nat
    PROVE  /\ Aged(f)[j].left = IF f[j].left > 0 THEN f[j].left - 1 ELSE 0
           /\ Aged(f)[j].val = f[j].val
BY DEF Aged, Entry

\* Tokens and entries grow old together.
LEMMA TickKeeps == SessionInv /\ Tick => SessionInv'
<1> SUFFICES ASSUME SessionInv, Tick PROVE SessionInv'
  OBVIOUS
<1>1. /\ DOMAIN token' = DOMAIN token /\ DOMAIN revoked' = Lists
      /\ \A l \in Lists : revoked'[l] = Aged(revoked[l]) /\ DOMAIN revoked'[l] = DOMAIN revoked[l]
  BY DEF Tick, Aged
<1>2. \A j \in DOMAIN token :
        /\ token'[j].val = token[j].val
        /\ token[j].left \in Nat
        /\ token'[j].left = IF token[j].left > 0 THEN token[j].left - 1 ELSE 0
  BY AgedLeft DEF Tick, SessionInv, TypeOK
<1>3. \A l \in Lists : \A j \in DOMAIN revoked[l] :
        /\ j \in DOMAIN token /\ revoked[l][j].left \in 0..AccessTTL
        /\ revoked'[l][j].left = IF revoked[l][j].left > 0 THEN revoked[l][j].left - 1 ELSE 0
  <2> SUFFICES ASSUME NEW l \in Lists, NEW j \in DOMAIN revoked[l]
               PROVE  /\ j \in DOMAIN token /\ revoked[l][j].left \in 0..AccessTTL
                      /\ revoked'[l][j].left =
                            IF revoked[l][j].left > 0 THEN revoked[l][j].left - 1 ELSE 0
    OBVIOUS
  <2>1. j \in DOMAIN token /\ revoked[l][j].left \in 0..AccessTTL
    BY DEF SessionInv, TypeOK
  <2>2. revoked[l][j].left \in Nat
    BY <2>1
  <2> QED BY <1>1, <2>1, <2>2, AgedLeft
<1>4. UNCHANGED <<driver, req, out, loggedOut>>
  BY DEF Tick
<1>5. \A j \in DOMAIN token : Expired(token[j]) => Expired(token'[j])
  BY <1>2 DEF Expired
<1>6. TypeOK'
  <2>1. \A j \in DOMAIN token' : token'[j].val \in {"access", "refresh"} /\ token'[j].left \in Nat
    <3> SUFFICES ASSUME NEW j \in DOMAIN token
                 PROVE  token'[j].val \in {"access", "refresh"} /\ token'[j].left \in Nat
      BY <1>1
    <3>1. token[j].val \in {"access", "refresh"}
      BY DEF SessionInv, TypeOK
    <3> QED BY <1>2, <3>1
  <2>2. \A l \in Lists : \A j \in DOMAIN revoked'[l] :
            j \in DOMAIN token' /\ revoked'[l][j].left \in 0..AccessTTL
    BY <1>1, <1>3, ExpirationAssumption
  <2> QED BY <1>1, <1>4, <2>1, <2>2 DEF SessionInv, TypeOK
<1>7. AccessTokens'
  BY <1>1, <1>2, ExpirationAssumption DEF SessionInv, AccessTokens
<1>8. Covers'
  <2>1. \A l \in Lists : \A j \in DOMAIN revoked[l] : revoked'[l][j].left >= token'[j].left
    BY <1>2, <1>3, ExpirationAssumption DEF SessionInv, Covers
  <2>2. \A x \in loggedOut : x[1] \in Lists /\ x[2] \in DOMAIN token
    BY DEF SessionInv, TypeOK
  <2> QED BY <1>1, <1>4, <1>5, <2>1, <2>2 DEF SessionInv, Covers
<1>9. (\A l \in Logouts : Leaving(out[l]))'
  <2> SUFFICES ASSUME NEW l \in Logouts PROVE Leaving(out[l])'
    OBVIOUS
  <2>1. Leaving(out[l]) /\ out[l].ttl \in Nat
    BY DEF SessionInv, TypeOK, Logout
  <2> QED BY <1>1, <1>2, <1>4, <2>1, ExpirationAssumption DEF Leaving
<1>10. (\A q \in Requests : Passing(req[q]))'
  BY <1>1, <1>4, <1>5 DEF SessionInv, Passing, ListOf
<1> QED BY <1>6, <1>7, <1>8, <1>9, <1>10 DEF SessionInv

-----------------------------------------------------------------------------
LEMMA SessionStep == SessionInv /\ [Next]_vars => SessionInv'
<1> SUFFICES ASSUME SessionInv, [Next]_vars PROVE SessionInv'
  OBVIOUS
<1>1. ASSUME NEW a \in Jtis, NEW r \in Jtis, Login(a, r) PROVE SessionInv'
  BY <1>1, IssueTyped DEF Login
<1>2. ASSUME NEW a \in Jtis, NEW r \in Jtis, NEW old \in Jtis, RefreshToken(old, a, r)
      PROVE  SessionInv'
  BY <1>2, IssueTyped DEF RefreshToken
<1>3. ASSUME NEW q \in Requests, NEW n \in Nodes, NEW j \in Jtis, ParseToken(q, n, j)
      PROVE  SessionInv'
  BY <1>3, ParseKeeps
<1>4. ASSUME NEW q \in Requests,
             \/ Revoked(q) \/ NotRevoked(q) \/ FoundExpired(q) \/ Answer(q)
             \/ \E granted \in BOOLEAN : CheckPermission(q, granted)
      PROVE  SessionInv'
  BY <1>4, LookupKeeps
<1>5. ASSUME NEW q \in Requests, ReapExpired(q) PROVE SessionInv'
  BY <1>5, ReapKeeps
<1>6. ASSUME NEW l \in Logouts, NEW n \in Nodes, NEW j \in Jtis, BeginLogout(l, n, j)
      PROVE  SessionInv'
  BY <1>6, BeginKeeps
<1>7. ASSUME NEW l \in Logouts, TimeUntil(l) \/ RevokeFails(l) PROVE SessionInv'
  BY <1>7, TimeUntilKeeps, RevokeFailsKeeps
<1>8. ASSUME NEW l \in Logouts, NEW acked \in BOOLEAN, Revoke(l, acked) PROVE SessionInv'
  BY <1>8, RevokeKeeps
<1>9. ASSUME NEW n \in Nodes, Restart(n) PROVE SessionInv'
  BY <1>9, RestartKeeps
<1>10. CASE Tick
  BY <1>10, TickKeeps
<1>11. CASE UNCHANGED vars
  BY <1>11 DEF vars, SessionInv, TypeOK, AccessTokens, Covers, Leaving, Passing, ListOf
<1> QED BY <1>1, <1>2, <1>3, <1>4, <1>5, <1>6, <1>7, <1>8, <1>9, <1>10, <1>11 DEF Next

LEMMA SessionInvariant == Spec => []SessionInv
BY SessionInit, SessionStep, PTL DEF Spec

\* The state always has its type.
THEOREM SessionTyping == Spec => []TypeOK
<1>1. SessionInv => TypeOK
  BY DEF SessionInv
<1> QED BY <1>1, SessionInvariant, PTL

\* A token that was logged out before a request began does not carry the request past
\* the middleware, for both drivers, unless it expires between parsing and lookup.
THEOREM LogoutIsFinal == Spec => []LogoutHolds
<1>1. SessionInv => LogoutHolds
  BY DEF SessionInv, LogoutHolds, Passing, Admitted
<1> QED BY <1>1, SessionInvariant, PTL


-----------------------------------------------------------------------------
(* Both drivers implement the list as a set.                               *)

Asks == [q \in Requests |-> Asked(req[q])]

\* What a step that only moves requests and logouts leaves alone.
ListStays == UNCHANGED <<driver, token, revoked, loggedOut>>

LEMMA StaysListed == ListStays => UNCHANGED <<DOMAIN token, LiveKeys(token), Listed, loggedOut>>
BY DEF ListStays, Listed

LEMMA AsksTyped ==
    ASSUME TypeOK, NEW q \in Requests, NEW x, UNCHANGED driver, req' = [req EXCEPT ![q] = x]
    PROVE  Asks' = [Asks EXCEPT ![q] = Asked(x)]
<1>1. DOMAIN req = Requests
  BY DEF TypeOK
<1>2. \A y : Asked(y)' = Asked(y')
  BY DEF Asked, ListOf
<1>3. Asks' = [y \in Requests |-> IF y = q THEN Asked(x) ELSE Asked(req[y])]
  BY <1>1 DEF Asks, Asked, ListOf
<1> QED
  BY <1>3 DEF Asks

LEMMA AsksSame == UNCHANGED <<req, driver>> => UNCHANGED Asks
BY DEF Asks, Asked, ListOf

\* What a request asks about is a pair of a list and an id.
LEMMA AskedAbout ==
    ASSUME SessionInv, NEW q \in Requests, req[q].pc # "idle"
    PROVE  LET l == ListOf(req[q].node)
               j == req[q].jti
           IN  /\ l \in Lists /\ j \in Jtis /\ Asks[q].about = <<l, j>>
               /\ Asks[q].stage = IF req[q].pc = "check" THEN "asking" ELSE "passed"
               /\ <<l, j>> \in Listed <=> j \in LiveKeys(revoked[l])
<1>1. Passing(req[q]) /\ DOMAIN token \subseteq Jtis
  BY DEF SessionInv, TypeOK
<1>2. ListOf(req[q].node) \in Lists /\ req[q].jti \in Jtis
  BY <1>1, ListOfNode DEF SessionInv, Passing
<1> QED
  BY <1>2 DEF Asks, Asked, Listed

LEMMA ListStart == Init => List!Init
<1> SUFFICES ASSUME Init PROVE List!Init
  OBVIOUS
<1>1. DOMAIN token = {} /\ LiveKeys(token) = {}
  BY DEF Init, EmptyMap, LiveKeys
<1>2. \A l \in Lists : LiveKeys(revoked[l]) = {}
  BY DEF Init, EmptyMap, LiveKeys
<1>3. Listed = {} /\ loggedOut = {}
  BY <1>2 DEF Listed, Init
<1>4. [q \in Requests |-> Asked(req[q])] = [q \in Requests |-> List!NoAsk]
  BY DEF Init, Idle, Asked, List!NoAsk
<1> QED
  BY <1>1, <1>3, <1>4 DEF List!Init

LEMMA IssueRefines ==
    ASSUME SessionInv, NEW a \in Jtis, NEW r \in Jtis, GenerateToken(a, r),
           UNCHANGED <<driver, revoked, req, out, loggedOut>>
    PROVE  List!Next
<1>1. /\ a \notin DOMAIN token /\ r \notin DOMAIN token /\ a # r
      /\ DOMAIN token' = DOMAIN token \cup {a, r}
      /\ \A j \in DOMAIN token : token'[j] = token[j]
      /\ token'[a] = Entry("access", AccessTTL) /\ token'[r] = Entry("refresh", RefreshTTL)
  BY DEF GenerateToken, With
<1>2. token'[a].left # 0 /\ token'[r].left # 0
  BY <1>1, ExpirationAssumption DEF Entry
<1>3. LiveKeys(token') = LiveKeys(token) \cup {a, r}
  BY <1>1, <1>2 DEF LiveKeys, Expired
<1>4. LiveKeys(token)' = LiveKeys(token')
  BY DEF LiveKeys
<1>5. UNCHANGED <<Listed, Asks>>
  BY AsksSame DEF Listed
<1>6. DOMAIN token \subseteq Jtis
  BY DEF SessionInv, TypeOK
<1>7. DOMAIN token' \ DOMAIN token = {a, r}
  BY <1>1
<1>8. List!Issue
  BY <1>1, <1>3, <1>4, <1>5, <1>6, <1>7 DEF List!Issue, Asks
<1> QED
  BY <1>8 DEF List!Next

\* A request asks, is answered, or goes.
LEMMA RequestRefines ==
    ASSUME SessionInv, NEW q \in Requests,
           \/ \E n \in Nodes, j \in Jtis : ParseToken(q, n, j)
           \/ Revoked(q) \/ NotRevoked(q) \/ FoundExpired(q) \/ Answer(q)
           \/ \E granted \in BOOLEAN : CheckPermission(q, granted)
    PROVE  [List!Next]_(List!vars)
<1> DEFINE l == ListOf(req[q].node)
           j == req[q].jti
<1>1. TypeOK /\ req[q] \in Request
  BY DEF SessionInv, TypeOK
<1>2. ListStays
  BY DEF ListStays, ParseToken, Revoked, NotRevoked, FoundExpired, Answer, CheckPermission
<1>3. UNCHANGED <<DOMAIN token, LiveKeys(token), Listed, loggedOut>>
  BY <1>2, StaysListed
<1>4. Asked(Idle) = List!NoAsk
  BY DEF Asked, Idle, List!NoAsk
<1>5. ASSUME NEW n \in Nodes, NEW i \in Jtis, ParseToken(q, n, i) PROVE List!Next
  <2> DEFINE x == [pc |-> "check", node |-> n, jti |-> i, after |-> <<ListOf(n), i>> \in loggedOut]
  <2>1. Asks' = [Asks EXCEPT ![q] = Asked(x)]
    BY <1>1, <1>2, <1>5, AsksTyped DEF ParseToken, ListStays
  <2>2. Asked(x) = [stage |-> "asking", node |-> n, about |-> <<ListOf(n), i>>]
    BY DEF Asked
  <2>3. Asks[q].stage = "none" /\ i \in LiveKeys(token)
    BY <1>5 DEF ParseToken, Asks, Asked
  <2>4. List!Begin(q, n, ListOf(n), i)
    BY <1>3, <2>1, <2>2, <2>3 DEF List!Begin, Asks
  <2> QED
    BY <2>4 DEF List!Next, ListOf
<1>6. CASE Revoked(q)
  <2>1. Asks' = [Asks EXCEPT ![q] = List!NoAsk]
    BY <1>1, <1>2, <1>4, <1>6, AsksTyped DEF Revoked, Turn, ListStays
  <2>2. Asks[q].stage = "asking" /\ Asks[q].about = <<l, j>>
    BY <1>6, AskedAbout DEF Revoked
  <2>3. <<l, j>> \in Listed \/ l = None
    BY <1>6, AskedAbout DEF Revoked, ListOf
  <2>4. List!Refuse(q)
    BY <1>3, <2>1, <2>2, <2>3 DEF List!Refuse, Asks
  <2> QED
    BY <2>4 DEF List!Next
<1>7. CASE NotRevoked(q) \/ FoundExpired(q)
  <2>1. PICK pc \in {"reap", "permission"} : Turn(q, pc)
    BY <1>7 DEF NotRevoked, FoundExpired
  <2> DEFINE x == [req[q] EXCEPT !.pc = pc]
  <2>2. Asks[q].stage = "asking" /\ Asks[q].about = <<l, j>> /\ req[q].pc = "check"
    BY <1>7, AskedAbout DEF NotRevoked, FoundExpired
  <2>3. j \notin LiveKeys(revoked[l])
    BY <1>7 DEF NotRevoked, FoundExpired, LiveKeys, ListOf
  <2>4. x.pc = pc /\ x.node = req[q].node /\ x.jti = j
    BY <1>1 DEF Request
  <2>5. Asks' = [Asks EXCEPT ![q] = Asked(x)]
    BY <1>1, <1>2, <2>1, AsksTyped DEF Turn, ListStays
  <2>6. Asked(x) = [Asks[q] EXCEPT !.stage = "passed"]
    BY <2>2, <2>4 DEF Asked, Asks
  <2>7. <<l, j>> \notin Listed
    BY <2>2, <2>3, AskedAbout
  <2>8. List!Pass(q)
    BY <1>3, <2>2, <2>5, <2>6, <2>7 DEF List!Pass, Asks
  <2> QED
    BY <2>8 DEF List!Next
<1>8. ASSUME req[q].pc \in {"permission", "handler"}, Turn(q, "idle") PROVE List!Next
  <2>1. Asks' = [Asks EXCEPT ![q] = List!NoAsk] /\ Asks[q].stage = "passed"
    BY <1>1, <1>2, <1>4, <1>8, AsksTyped, AskedAbout DEF Turn, ListStays
  <2>2. List!End(q)
    BY <1>3, <2>1 DEF List!End, Asks
  <2> QED
    BY <2>2 DEF List!Next
<1>9. ASSUME req[q].pc = "permission", Turn(q, "handler") PROVE UNCHANGED List!vars
  <2> DEFINE x == [req[q] EXCEPT !.pc = "handler"]
  <2>1. x.pc = "handler" /\ x.node = req[q].node /\ x.jti = j
    BY <1>1 DEF Request
  <2>2. Asks' = [Asks EXCEPT ![q] = Asked(x)]
    BY <1>1, <1>2, <1>9, AsksTyped DEF Turn, ListStays
  <2>3. Asked(x) = Asks[q]
    BY <1>9, <2>1 DEF Asked, Asks
  <2>4. UNCHANGED Asks
    BY <2>2, <2>3 DEF Asks
  <2> QED
    BY <1>3, <2>4 DEF List!vars, Asks
<1>10. CASE Answer(q)
  BY <1>8, <1>10 DEF Answer
<1>11. ASSUME NEW granted \in BOOLEAN, CheckPermission(q, granted) PROVE [List!Next]_(List!vars)
  BY <1>8, <1>9, <1>11 DEF CheckPermission
<1> QED
  BY <1>5, <1>6, <1>7, <1>10, <1>11


\* The entry that a lookup deletes under its second lock is of an expired token.
LEMMA ReapRefines ==
    ASSUME SessionInv, NEW q \in Requests, ReapExpired(q)
    PROVE  List!Next
<1> DEFINE j == req[q].jti
           n == req[q].node
           x == [req[q] EXCEPT !.pc = "permission"]
<1>1. TypeOK /\ req[q] \in Request /\ req[q].pc = "reap" /\ Passing(req[q])
  BY DEF SessionInv, TypeOK, ReapExpired
<1>2. Expired(token[j]) /\ n \in Nodes
  BY <1>1 DEF Passing
<1>3. x.pc = "permission" /\ x.node = n /\ x.jti = j
  BY <1>1 DEF Request
<1>4. Asks' = [Asks EXCEPT ![q] = Asked(x)]
  BY <1>1, AsksTyped DEF ReapExpired, Turn
<1>5. Asked(x) = Asks[q]
  BY <1>1, <1>3 DEF Asked, Asks
<1>6. UNCHANGED Asks
  BY <1>4, <1>5 DEF Asks
<1>7. /\ \A l \in Lists : l # n => revoked'[l] = revoked[l]
      /\ revoked'[n] = Without(revoked[n], {j})
  BY <1>1, <1>2 DEF ReapExpired, TypeOK, Lists
<1>8. LiveKeys(revoked'[n]) = LiveKeys(revoked[n]) \ {j}
  BY <1>7 DEF LiveKeys, Without
<1>9. Listed' \subseteq Listed /\ \A y \in Listed \ Listed' : y[2] = j
  BY <1>7, <1>8 DEF Listed
<1>10. UNCHANGED <<DOMAIN token, LiveKeys(token), loggedOut>> /\ j \notin LiveKeys(token)
  BY <1>2 DEF ReapExpired, LiveKeys
<1>11. List!Expire
  BY <1>6, <1>9, <1>10 DEF List!Expire, Asks
<1> QED
  BY <1>11 DEF List!Next

\* A logout that has worked out that its token has expired skips the list.
LEMMA UntilRefines ==
    ASSUME SessionInv, NEW l \in Logouts, TimeUntil(l)
    PROVE  [List!Next]_(List!vars)
<1> DEFINE j == out[l].jti
           list == ListOf(out[l].node)
<1>1. j \in DOMAIN token /\ list \in Lists /\ token[j].left \in Nat /\ j \in Jtis
  BY ListOfNode DEF SessionInv, TypeOK, TimeUntil, Leaving
<1>2. UNCHANGED <<DOMAIN token, LiveKeys(token), Listed, Asks>>
  BY AsksSame DEF TimeUntil, Listed
<1>3. CASE token[j].left > 0
  BY <1>2, <1>3 DEF TimeUntil, List!vars, Asks
<1>4. CASE ~ token[j].left > 0
  <2>1. j \in DOMAIN token \ LiveKeys(token)
    BY <1>1, <1>4 DEF LiveKeys, Expired
  <2>2. loggedOut' = loggedOut \cup {<<list, j>>}
    BY <1>4 DEF TimeUntil
  <2>3. List!Skip(list, j)
    BY <1>2, <2>1, <2>2 DEF List!Skip, Asks
  <2> QED
    BY <1>1, <2>3 DEF List!Next, List!Lists, Lists
<1> QED
  BY <1>3, <1>4

\* A write puts its id on the list; what it sweeps out was on it no more.
LEMMA RevokeRefines ==
    ASSUME SessionInv, NEW l \in Logouts, NEW acked \in BOOLEAN, Revoke(l, acked)
    PROVE  List!Next
<1> DEFINE j == out[l].jti
           ttl == out[l].ttl
           list == ListOf(out[l].node)
           with == With(revoked[list], j, Entry("revoked", ttl))
<1>1. /\ j \in DOMAIN token /\ j \in Jtis /\ ttl \in Nat /\ ttl > 0 /\ list \in Lists
  BY ListOfNode, ExpirationAssumption DEF SessionInv, TypeOK, Revoke, Leaving, Logout
<1>2. DOMAIN revoked = Lists
  BY DEF SessionInv, TypeOK
<1>3. revoked' = [revoked EXCEPT ![list] = Cleanup(with)]
  <2>1. ~ ttl <= 0
    BY <1>1
  <2> QED
    BY <2>1 DEF Revoke, SetWithTTL
<1>4. LiveKeys(with) = LiveKeys(revoked[list]) \cup {j}
  <2>1. /\ DOMAIN with = DOMAIN revoked[list] \cup {j}
        /\ with[j].left = ttl
        /\ \A y \in DOMAIN revoked[list] : y # j => with[y] = revoked[list][y]
    BY DEF With, Entry
  <2> QED
    BY <1>1, <2>1 DEF LiveKeys, Expired
<1> HIDE DEF with
<1>5. LiveKeys(Cleanup(with)) = LiveKeys(with)
  BY DEF Cleanup, LiveKeys
<1>6. /\ \A k \in Lists : k # list => revoked'[k] = revoked[k]
      /\ LiveKeys(revoked'[list]) = LiveKeys(revoked[list]) \cup {j}
  BY <1>1, <1>2, <1>3, <1>4, <1>5
<1>7. Listed' = Listed \cup {<<list, j>>}
  BY <1>1, <1>6 DEF Listed
<1>8. UNCHANGED <<DOMAIN token, LiveKeys(token), Asks>>
  BY AsksSame DEF Revoke, LiveKeys
<1>9. /\ acked \/ list \in {None}
      /\ loggedOut' = IF acked THEN loggedOut \cup {<<list, j>>} ELSE loggedOut
  BY DEF Revoke, ListOf
<1>10. List!Add(list, j, acked)
  BY <1>1, <1>7, <1>8, <1>9 DEF List!Add, Asks
<1> QED
  BY <1>1, <1>10 DEF List!Next, List!Lists, Lists

\* A restart loses the list of the process, if it has one, and ends its requests.
LEMMA RestartRefines ==
    ASSUME SessionInv, NEW n \in Nodes, Restart(n)
    PROVE  List!Next
<1>1. DOMAIN revoked = Lists /\ n \in Lists /\ n # None
  BY NoneAssumption DEF SessionInv, TypeOK, Lists
<1>2. /\ LiveKeys(revoked'[n]) = {}
      /\ \A l \in Lists : l # n => revoked'[l] = revoked[l]
  BY <1>1 DEF Restart, LiveKeys, EmptyMap
<1>3. Listed' = {x \in Listed : x[1] # n}
  BY <1>2 DEF Listed
<1>4. loggedOut' = {x \in loggedOut : x[1] # n} /\ UNCHANGED <<DOMAIN token, LiveKeys(token)>>
  BY DEF Restart, LiveKeys
<1>5. Asked(Idle) = List!NoAsk
  BY DEF Asked, Idle, List!NoAsk
<1>6. Asks' = [q \in Requests |-> IF Asks[q].node = n THEN List!NoAsk ELSE Asks[q]]
  <2>1. Asks' = [q \in Requests |-> Asked(req'[q])]
    BY DEF Asks, Asked, ListOf, Restart
  <2>2. \A q \in Requests : req'[q] = IF req[q].node = n THEN Idle ELSE req[q]
    BY DEF Restart
  <2>3. \A q \in Requests : Asked(req'[q]) = IF Asks[q].node = n THEN List!NoAsk ELSE Asks[q]
    BY <1>1, <1>5, <2>2 DEF Asks, Asked, List!NoAsk
  <2> QED
    BY <2>1, <2>3
<1>7. List!Lose(n)
  BY <1>3, <1>4, <1>6 DEF List!Lose, Asks
<1> QED
  BY <1>7 DEF List!Next

\* No entry expires before its token.
LEMMA TickRefines ==
    ASSUME SessionInv, Tick, SessionInv'
    PROVE  List!Next
<1>1. /\ DOMAIN token' = DOMAIN token
      /\ \A l \in Lists : DOMAIN revoked'[l] = DOMAIN revoked[l]
      /\ \A l \in Lists : \A j \in DOMAIN revoked[l] :
            revoked[l][j].left \in Nat /\ j \in DOMAIN token
      /\ \A j \in DOMAIN token : token[j].left \in Nat /\ token'[j].left \in Nat
  BY ExpirationAssumption DEF Tick, Aged, SessionInv, TypeOK
<1>2. \A j \in DOMAIN token : Expired(token[j]) => Expired(token'[j])
  BY <1>1, AgedLeft DEF Tick, Expired
<1>3. \A l \in Lists : \A j \in DOMAIN revoked[l] : Expired(revoked[l][j]) => Expired(revoked'[l][j])
  BY <1>1, AgedLeft DEF Tick, Expired
<1>4. \A l \in Lists : \A j \in DOMAIN revoked[l] : Expired(revoked'[l][j]) => Expired(token'[j])
  <2> SUFFICES ASSUME NEW l \in Lists, NEW j \in DOMAIN revoked[l], revoked'[l][j].left = 0
               PROVE  token'[j].left = 0
    BY DEF Expired
  <2>1. revoked'[l][j].left >= token'[j].left
    BY <1>1 DEF SessionInv, Covers
  <2> QED
    BY <1>1, <2>1
<1>5. LiveKeys(token)' \subseteq LiveKeys(token)
  BY <1>1, <1>2 DEF LiveKeys
<1>6. Listed' \subseteq Listed
  BY <1>1, <1>3 DEF Listed, LiveKeys
<1>7. \A x \in Listed \ Listed' : x[2] \notin LiveKeys(token)'
  BY <1>1, <1>4 DEF Listed, LiveKeys
<1>8. UNCHANGED <<DOMAIN token, loggedOut, Asks>>
  BY <1>1, AsksSame DEF Tick
<1>9. List!Expire
  BY <1>5, <1>6, <1>7, <1>8 DEF List!Expire, Asks
<1> QED
  BY <1>9 DEF List!Next

LEMMA ListStep == SessionInv /\ [Next]_vars => [List!Next]_(List!vars)
<1> SUFFICES ASSUME SessionInv, [Next]_vars PROVE [List!Next]_(List!vars)
  OBVIOUS
<1>1. ASSUME NEW a \in Jtis, NEW r \in Jtis,
             Login(a, r) \/ \E old \in Jtis : RefreshToken(old, a, r)
      PROVE  List!Next
  BY <1>1, IssueRefines DEF Login, RefreshToken
<1>2. ASSUME NEW q \in Requests,
             \/ \E n \in Nodes, j \in Jtis : ParseToken(q, n, j)
             \/ Revoked(q) \/ NotRevoked(q) \/ FoundExpired(q) \/ Answer(q)
             \/ \E granted \in BOOLEAN : CheckPermission(q, granted)
      PROVE  [List!Next]_(List!vars)
  BY <1>2, RequestRefines
<1>3. ASSUME NEW q \in Requests, ReapExpired(q) PROVE List!Next
  BY <1>3, ReapRefines
<1>4. ASSUME NEW l \in Logouts,
             (\E n \in Nodes, j \in Jtis : BeginLogout(l, n, j)) \/ RevokeFails(l)
      PROVE  UNCHANGED List!vars
  <2>1. ListStays /\ UNCHANGED <<req, driver>>
    BY <1>4 DEF BeginLogout, RevokeFails, ListStays
  <2> QED
    BY <2>1, StaysListed, AsksSame DEF List!vars, Asks
<1>5. ASSUME NEW l \in Logouts, TimeUntil(l) PROVE [List!Next]_(List!vars)
  BY <1>5, UntilRefines
<1>6. ASSUME NEW l \in Logouts, NEW acked \in BOOLEAN, Revoke(l, acked) PROVE List!Next
  BY <1>6, RevokeRefines
<1>7. ASSUME NEW n \in Nodes, Restart(n) PROVE List!Next
  BY <1>7, RestartRefines
<1>8. CASE Tick
  BY <1>8, SessionStep, TickRefines DEF Next
<1>9. CASE UNCHANGED vars
  <2>1. ListStays /\ UNCHANGED <<req, driver>>
    BY <1>9 DEF vars, ListStays
  <2> QED
    BY <2>1, StaysListed, AsksSame DEF List!vars, Asks
<1> QED
  BY <1>1, <1>2, <1>3, <1>4, <1>5, <1>6, <1>7, <1>8, <1>9 DEF Next

\* Whatever the driver, the revocation list of a running service can be taken for a set
\* that lookups read in one instant and that forgets expired tokens only.
THEOREM DriversImplementList == Spec => ImplementsRevocationList
BY SessionInvariant, ListStart, ListStep, PTL DEF Spec, ImplementsRevocationList, List!Spec
=============================================================================
