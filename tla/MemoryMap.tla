----------------------------- MODULE MemoryMap -----------------------------
(***************************************************************************)
(* The map behind pkg/store.Memory and what one critical section of its    *)
(* mutex does to it.  A Go map is a function whose DOMAIN is the set of    *)
(* keys present.  An entry keeps the time it has left instead of an        *)
(* absolute deadline: Aged is one tick of the clock, an entry with nothing *)
(* left is expired and stays in the map until something removes it.        *)
(***************************************************************************)
EXTENDS Integers

\* expiresAt is the zero time: the entry never expires.
Forever == -1

\* entry[V]: what is stored under a key.
Entry(val, left) == [val |-> val, left |-> left]

\* isExpired: a deadline that has passed; "no deadline" never passes.
Expired(e) == e.left = 0

EmptyMap == [k \in {} |-> Entry(k, 0)]

\* The keys Get would answer: present and not expired.
LiveKeys(m) == {k \in DOMAIN m : ~ Expired(m[k])}

\* delete(m, k) for every k in ks.
Without(m, ks) == [k \in DOMAIN m \ ks |-> m[k]]

\* m[key] = e.
With(m, key, e) == [k \in DOMAIN m \cup {key} |-> IF k = key THEN e ELSE m[k]]

\* cleanupLocked: every write also drops what has expired.
Cleanup(m) == [k \in LiveKeys(m) |-> m[k]]

\* Mutant of SetWithTTL: deadlines in the past are stored like any other.
SetAnyTTL(m, key, val, ttl) == Cleanup(With(m, key, Entry(val, ttl)))

\* SetWithTTL under the lock; a non-positive ttl deletes the key instead.
SetWithTTL(m, key, val, ttl) ==
    Cleanup(IF ttl <= 0 THEN Without(m, {key}) ELSE With(m, key, Entry(val, ttl)))

\* Mutant of Set: the default ttl of the store is forgotten.
SetForever(m, key, val, defaultTTL) == Cleanup(With(m, key, Entry(val, Forever)))

\* Set: the default ttl of the store, or no deadline when there is none.
Set(m, key, val, defaultTTL) ==
    IF defaultTTL > 0 THEN SetWithTTL(m, key, val, defaultTTL)
                      ELSE Cleanup(With(m, key, Entry(val, Forever)))

\* One tick of the clock, seen by every entry with a deadline.
Aged(m) ==
    [k \in DOMAIN m |->
        IF m[k].left > 0 THEN Entry(m[k].val, m[k].left - 1) ELSE m[k]]
=============================================================================
