------------------------------- MODULE TtlMap -------------------------------
(***************************************************************************)
(* What a map with expiring entries promises to concurrent callers: every  *)
(* operation takes effect at one instant, a lookup answers with the live   *)
(* entry of that instant, and an answer "missing" means that the key is    *)
(* gone from then on.  A lossy map may make it so, that is, drop a live    *)
(* entry and say it was missing; a strict one says so only when it is.     *)
(***************************************************************************)
EXTENDS MemoryMap

CONSTANTS
    Threads, Keys, Vals,
    TTLs,       \* times to live a caller may ask for
    Lossy,      \* may a lookup drop a live entry?
    Missing     \* the answer for a key without a live entry

VARIABLES
    content,    \* key -> live entry
    answer      \* thread -> what its last lookup answered

vars == <<content, answer>>

Init ==
    /\ content = EmptyMap
    /\ answer = [t \in Threads |-> Missing]

Found(t, k) ==
    /\ k \in DOMAIN content
    /\ answer' = [answer EXCEPT ![t] = content[k].val]
    /\ UNCHANGED content

NotFound(t, k) ==
    /\ Lossy \/ k \notin DOMAIN content
    /\ answer' = [answer EXCEPT ![t] = Missing]
    /\ content' = Without(content, {k})

Write(k, v, left) ==
    /\ content' = With(content, k, Entry(v, left))
    /\ UNCHANGED answer

Erase(ks) ==
    /\ content' = Without(content, ks)
    /\ UNCHANGED answer

\* Time passes for every entry, and entries that run out are gone.
Elapse ==
    /\ content' = Cleanup(Aged(content))
    /\ UNCHANGED answer

Next ==
    \/ \E t \in Threads, k \in Keys : Found(t, k) \/ NotFound(t, k)
    \/ \E k \in Keys, v \in Vals, left \in TTLs \cup {Forever} : Write(k, v, left)
    \/ \E ks \in SUBSET Keys : Erase(ks)
    \/ Elapse

Spec == Init /\ [][Next]_vars
=============================================================================
