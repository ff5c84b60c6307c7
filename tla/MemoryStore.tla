---------------------------- MODULE MemoryStore ----------------------------
(***************************************************************************)
(* pkg/store.Memory under concurrent callers.  Each section of code        *)
(* between locking and unlocking the RWMutex is one step.  All operations  *)
(* are a single section except Get on an expired entry: it gives up the    *)
(* read lock and calls Delete, which takes the write lock anew.            *)
(***************************************************************************)
EXTENDS MemoryMap

CONSTANTS
    Threads,    \* calling goroutines
    Keys, Vals,
    TTLs,       \* ttl arguments of SetWithTTL and SetUntil; not positive: in the past
    DefaultTTL, \* of the store; not positive: Set makes entries without a deadline
    Missing     \* zero value and false

ASSUME TTLsAssumption == TTLs \subseteq Int /\ DefaultTTL \in Int
ASSUME MissingAssumption == Missing \notin Vals /\ Missing \notin Keys

VARIABLES
    m,          \* the map
    reaping,    \* thread -> key that its Get has found expired, Missing if none
    answer      \* thread -> what its last Get or Has was told

vars == <<m, reaping, answer>>

Lifetimes == {left \in TTLs \cup {DefaultTTL} : left > 0}

\* What a deadline can have left: nothing up to the lifetime it was given.
Lefts == {Forever} \cup UNION {0..n : n \in Lifetimes}

TypeOK ==
    /\ DOMAIN m \subseteq Keys
    /\ m \in [DOMAIN m -> [val : Vals, left : Lefts]]
    /\ reaping \in [Threads -> Keys \cup {Missing}]
    /\ answer \in [Threads -> Vals \cup {Missing}]

Init ==
    /\ m = EmptyMap
    /\ reaping = [t \in Threads |-> Missing]
    /\ answer = [t \in Threads |-> Missing]

-----------------------------------------------------------------------------
\* Not between the two locks of a Get.
Free(t) == reaping[t] = Missing

\* Mutant of GetHit: the entry is answered whether or not it has expired.
GetAny(t, k) ==
    /\ Free(t)
    /\ k \in DOMAIN m
    /\ answer' = [answer EXCEPT ![t] = m[k].val]
    /\ UNCHANGED <<m, reaping>>

\* Get and Has: a live entry...
GetHit(t, k) ==
    /\ Free(t)
    /\ k \in LiveKeys(m)
    /\ answer' = [answer EXCEPT ![t] = m[k].val]
    /\ UNCHANGED <<m, reaping>>

\* ...no entry...
GetMiss(t, k) ==
    /\ Free(t)
    /\ k \notin DOMAIN m
    /\ answer' = [answer EXCEPT ![t] = Missing]
    /\ UNCHANGED <<m, reaping>>

\* ...or an expired one: the read lock is released,
GetExpired(t, k) ==
    /\ Free(t)
    /\ k \in DOMAIN m \ LiveKeys(m)
    /\ reaping' = [reaping EXCEPT ![t] = k]
    /\ UNCHANGED <<m, answer>>

\* and Delete removes what the key holds by now, whoever put it there.
Reap(t) ==
    /\ ~ Free(t)
    /\ m' = Without(m, {reaping[t]})
    /\ reaping' = [reaping EXCEPT ![t] = Missing]
    /\ answer' = [answer EXCEPT ![t] = Missing]

Write(t, new) ==
    /\ Free(t)
    /\ m' = new
    /\ UNCHANGED <<reaping, answer>>

DoSet(t, k, v) == Write(t, Set(m, k, v, DefaultTTL))

\* SetWithTTL, and SetUntil with what is left until its deadline.
DoSetWithTTL(t, k, v, ttl) == Write(t, SetWithTTL(m, k, v, ttl))

Delete(t, k) == Write(t, Without(m, {k}))

Clear(t) == Write(t, EmptyMap)

\* The clock moves.
Tick ==
    /\ m' = Aged(m)
    /\ UNCHANGED <<reaping, answer>>

Next ==
    \/ \E t \in Threads, k \in Keys :
        \/ GetHit(t, k) \/ GetMiss(t, k) \/ GetExpired(t, k)
        \/ \E v \in Vals : DoSet(t, k, v)
        \/ \E v \in Vals, ttl \in TTLs : DoSetWithTTL(t, k, v, ttl)
        \/ Delete(t, k)
    \/ \E t \in Threads : Reap(t) \/ Clear(t)
    \/ Tick

Spec == Init /\ [][Next]_vars

-----------------------------------------------------------------------------
(* Properties.                                                             *)

\* What callers can tell apart: the live entries.
LiveContent == Cleanup(m)

LossyMap == INSTANCE TtlMap WITH content <- LiveContent, TTLs <- Lifetimes, Lossy <- TRUE

\* Seen by its callers the store is a lossy map with expiring entries: no answer
\* revives an expired, deleted or overwritten value, a missing answer is final, and
\* nothing disappears but by time, a deletion or a lookup of that very key.  It is not a
\* strict map: between the two locks of Get another goroutine may write the key, and what
\* Get then deletes is that entry and not the expired one it saw.
ImplementsLossyMap == LossyMap!Spec
=============================================================================
