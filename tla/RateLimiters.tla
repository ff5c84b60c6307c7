---------------------------- MODULE RateLimiters ----------------------------
(***************************************************************************)
(* The two other limiters of the package, which a server can mount in      *)
(* Sentinel's place: one bucket per client address in memory, with a       *)
(* cleaner, and one bucket per address and path in a Redis cluster.  Time  *)
(* is a number of ticks.  A bucket is known by the request that made it:   *)
(* a request may still hold one that the cleaner has dropped.              *)
(***************************************************************************)
EXTENDS Integers, FiniteSets

CONSTANTS
    Requests, Clients,
    Rate, Burst,    \* tokens per tick, tokens at most
    ExpiryTime,
    MaxTime         \* bound: ticks

ASSUME BucketAssumption == Rate \in Nat \ {0} /\ Burst \in Nat /\ ExpiryTime \in Nat

VARIABLES
    now,
    limiterMap,     \* client -> bucket
    lastSeen,       \* client -> time
    tokens,         \* bucket -> tokens
    touches,        \* updates of lastSeen that have not run: pairs <<client, time>>
    redis,          \* client and path -> tokens and time of the last script
    dropped         \* history: how often a client's bucket was dropped

limiterVars == <<now, limiterMap, lastSeen, tokens, touches, redis, dropped>>

Put(f, x, v) == [y \in DOMAIN f \cup {x} |-> IF y = x THEN v ELSE f[y]]

Least(a, b) == IF a <= b THEN a ELSE b

LimitersInit ==
    /\ now = 0
    /\ limiterMap = [x \in {} |-> 0] /\ lastSeen = limiterMap /\ tokens = limiterMap
    /\ touches = {}
    /\ redis = limiterMap
    /\ dropped = [x \in Clients |-> 0]

Tick ==
    /\ now < MaxTime
    /\ now' = now + 1
    /\ tokens' = [b \in DOMAIN tokens |-> Least(Burst, tokens[b] + Rate)]
    /\ UNCHANGED <<limiterMap, lastSeen, touches, redis, dropped>>

\* There is a bucket: the time the request began is noted later, by a goroutine.
FoundLimiter(ip, start) ==
    /\ ip \in DOMAIN limiterMap
    /\ touches' = touches \cup {<<ip, start>>}
    /\ UNCHANGED <<now, limiterMap, lastSeen, tokens, redis, dropped>>

\* Mutant of CreateLimiter: the map is not looked at again under the write lock.
CreateUnchecked(r, ip, start) ==
    /\ limiterMap' = Put(limiterMap, ip, r)
    /\ lastSeen' = Put(lastSeen, ip, start)
    /\ tokens' = Put(tokens, r, Burst)
    /\ UNCHANGED <<now, touches, redis, dropped>>

\* Mutant of CreateLimiter: the bucket is one larger than the burst.
CreateLarger(r, ip, start) ==
    IF ip \in DOMAIN limiterMap THEN UNCHANGED limiterVars
    ELSE /\ limiterMap' = Put(limiterMap, ip, r)
         /\ lastSeen' = Put(lastSeen, ip, start)
         /\ tokens' = Put(tokens, r, Burst + 1)
         /\ UNCHANGED <<now, touches, redis, dropped>>

\* Under the write lock: a bucket that is there by now is taken, without noting the time.
CreateLimiter(r, ip, start) ==
    IF ip \in DOMAIN limiterMap THEN UNCHANGED limiterVars
    ELSE /\ limiterMap' = Put(limiterMap, ip, r)
         /\ lastSeen' = Put(lastSeen, ip, start)
         /\ tokens' = Put(tokens, r, Burst)
         /\ UNCHANGED <<now, touches, redis, dropped>>

\* The goroutine: in any order, and also when the bucket is gone by now.
Touch(ip, start) ==
    /\ <<ip, start>> \in touches
    /\ touches' = touches \ {<<ip, start>>}
    /\ lastSeen' = Put(lastSeen, ip, start)
    /\ UNCHANGED <<now, limiterMap, tokens, redis, dropped>>

Expired == {ip \in DOMAIN lastSeen : now - lastSeen[ip] > ExpiryTime}

\* Mutant of Kept: the cleaner forgets the times and keeps the buckets.
KeptAnyhow(f) == f

Kept(f) == [ip \in DOMAIN f \ Expired |-> f[ip]]

Clean ==
    /\ Expired # {}
    /\ limiterMap' = Kept(limiterMap)
    /\ lastSeen' = [ip \in DOMAIN lastSeen \ Expired |-> lastSeen[ip]]
    /\ dropped' = [ip \in Clients |->
                    IF ip \in Expired \cap DOMAIN limiterMap THEN dropped[ip] + 1 ELSE dropped[ip]]
    /\ UNCHANGED <<now, tokens, touches, redis>>

Allowed(b) == tokens[b] >= 1

\* limiter.Allow takes a token of the bucket the request holds, if there is one.
TakeToken(b) ==
    /\ tokens' = IF Allowed(b) THEN [tokens EXCEPT ![b] = @ - 1] ELSE tokens
    /\ UNCHANGED <<now, limiterMap, lastSeen, touches, redis, dropped>>

-----------------------------------------------------------------------------
\* The script: what the time since its last run has added, at most the capacity.
Filled(key) ==
    IF key \in DOMAIN redis
    THEN Least(Burst, redis[key].tokens + (now - redis[key].at) * Rate)
    ELSE Burst

ScriptAllows(key) == Filled(key) >= 1

RunScript(key) ==
    /\ redis' = Put(redis, key,
                    [tokens |-> Filled(key) - (IF ScriptAllows(key) THEN 1 ELSE 0), at |-> now])
    /\ UNCHANGED <<now, limiterMap, lastSeen, tokens, touches, dropped>>

\* The tokens and their time expire one after the other, when they would have filled up
\* anyway: a script that misses either finds the bucket full.
KeysExpire(key) ==
    /\ key \in DOMAIN redis
    /\ now - redis[key].at >= (2 * Burst) \div Rate
    /\ redis' = [x \in DOMAIN redis \ {key} |-> redis[x]]
    /\ UNCHANGED <<now, limiterMap, lastSeen, tokens, touches, dropped>>

LimitersNext ==
    \/ Tick \/ Clean
    \/ \E key \in DOMAIN redis : KeysExpire(key)
    \/ \E touch \in touches : Touch(touch[1], touch[2])

\* A bucket in the map has a time, so the cleaner gets rid of it some day: the map does not
\* grow with every client that was ever seen, whatever times are noted late.
LimitersCanExpire == DOMAIN limiterMap \subseteq DOMAIN lastSeen
=============================================================================
