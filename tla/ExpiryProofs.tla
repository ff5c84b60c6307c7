---------------------------- MODULE ExpiryProofs ----------------------------
(***************************************************************************)
(* The two components whose entries run out by the clock.  The in-memory   *)
(* store implements a lossy map with expiring entries, for any goroutines, *)
(* keys, values and times to live.  The lock in redis is exclusive for the *)
(* length of a lease, for any number of calls, any time to live and any    *)
(* numbers of retries and resends.                                         *)
(***************************************************************************)
EXTENDS MemoryStore, RedisLock, TLAPS


-----------------------------------------------------------------------------
(* The operations on the map, seen through Cleanup (the live entries).     *)

LEMMA CleanupWithout ==
    ASSUME NEW f, NEW ks
    PROVE  Cleanup(Without(f, ks)) = Without(Cleanup(f), ks)
BY DEF Cleanup, Without, LiveKeys

LEMMA CleanupTwice ==
    ASSUME NEW f
    PROVE  Cleanup(Cleanup(f)) = Cleanup(f)
BY DEF Cleanup, LiveKeys

LEMMA CleanupWith ==
    ASSUME NEW f, NEW k, NEW v, NEW life \in Int \ {0}
    PROVE  Cleanup(With(f, k, Entry(v, life))) = With(Cleanup(f), k, Entry(v, life))
<1> DEFINE e == Entry(v, life)
           l == Cleanup(With(f, k, e))
           r == With(Cleanup(f), k, e)
<1>1. ~ Expired(e)
  BY DEF Expired, Entry
<1> HIDE DEF e
<1>2. DOMAIN l = DOMAIN r
  BY <1>1 DEF Cleanup, LiveKeys, With
<1>3. \A x \in DOMAIN l : l[x] = r[x]
  BY <1>1 DEF Cleanup, LiveKeys, With
<1>4. l = [x \in DOMAIN l |-> l[x]] /\ r = [x \in DOMAIN r |-> r[x]]
  BY DEF Cleanup, With
<1> HIDE DEF l, r
<1>5. l = r
  BY <1>2, <1>3, <1>4
<1> QED BY <1>5 DEF l, r, e

\* An expired entry stays expired, so it does not matter when it is swept out.
LEMMA CleanupAged ==
    ASSUME NEW f, f \in [DOMAIN f -> [val : Vals, left : {Forever} \cup Nat]]
    PROVE  Cleanup(Aged(f)) = Cleanup(Aged(Cleanup(f)))
<1> DEFINE l == Cleanup(Aged(f))
           c == Cleanup(f)
           r == Cleanup(Aged(c))
<1>1. \A x \in DOMAIN f : f[x].left \in {Forever} \cup Nat
  OBVIOUS
<1>2. /\ DOMAIN Aged(f) = DOMAIN f
      /\ \A x \in DOMAIN f : Aged(f)[x] =
            IF f[x].left > 0 THEN Entry(f[x].val, f[x].left - 1) ELSE f[x]
  BY DEF Aged
<1>3. /\ DOMAIN c = {x \in DOMAIN f : f[x].left # 0}
      /\ \A x \in DOMAIN c : c[x] = f[x]
  BY DEF Cleanup, LiveKeys, Expired
<1>4. /\ DOMAIN Aged(c) = DOMAIN c
      /\ \A x \in DOMAIN c : Aged(c)[x] = Aged(f)[x]
  BY <1>2, <1>3 DEF Aged
<1>5. \A x \in DOMAIN f \ DOMAIN c : Aged(f)[x].left = 0
  BY <1>1, <1>2, <1>3
<1> HIDE DEF c
<1>6. DOMAIN l = DOMAIN r
  BY <1>2, <1>3, <1>4, <1>5 DEF Cleanup, LiveKeys, Expired
<1>7. \A x \in DOMAIN l : l[x] = r[x]
  BY <1>4, <1>6 DEF Cleanup, LiveKeys
<1>8. l = [x \in DOMAIN l |-> l[x]] /\ r = [x \in DOMAIN r |-> r[x]]
  BY DEF Cleanup
<1> HIDE DEF l, r
<1>9. l = r
  BY <1>6, <1>7, <1>8
<1> QED BY <1>9 DEF l, r, c

-----------------------------------------------------------------------------
(* Types.                                                                  *)

LEMMA LeftsTyped == Lefts \subseteq {Forever} \cup Nat /\ Forever \in Lefts
BY TTLsAssumption DEF Lefts, Lifetimes, Forever

LEMMA EntryTyped ==
    ASSUME NEW v \in Vals, NEW life \in Lifetimes \cup {Forever}
    PROVE  Entry(v, life) \in [val : Vals, left : Lefts]
<1>1. ASSUME life \in Lifetimes PROVE life \in 0..life
  BY <1>1, TTLsAssumption DEF Lifetimes
<1>2. life \in Lefts
  BY <1>1 DEF Lefts
<1> QED BY <1>2 DEF Entry

LEMMA AgedEntryTyped ==
    ASSUME NEW e \in [val : Vals, left : Lefts], e.left > 0
    PROVE  Entry(e.val, e.left - 1) \in [val : Vals, left : Lefts]
<1>1. PICK n \in Lifetimes : e.left \in 0..n
  BY DEF Lefts, Forever
<1>2. e.left - 1 \in 0..n
  BY <1>1, TTLsAssumption DEF Lifetimes
<1>3. e.left - 1 \in Lefts
  BY <1>2 DEF Lefts
<1> QED BY <1>3 DEF Entry

MapTyped(f) == DOMAIN f \subseteq Keys /\ f \in [DOMAIN f -> [val : Vals, left : Lefts]]

LEMMA MapOps ==
    ASSUME NEW f, MapTyped(f)
    PROVE  /\ \A ks : MapTyped(Without(f, ks))
           /\ MapTyped(Cleanup(f))
           /\ MapTyped(Aged(f))
           /\ \A k \in Keys, e \in [val : Vals, left : Lefts] : MapTyped(With(f, k, e))
<1>1. \A ks : MapTyped(Without(f, ks))
  BY DEF MapTyped, Without
<1>2. MapTyped(Cleanup(f))
  BY DEF MapTyped, Cleanup, LiveKeys
<1>3. MapTyped(Aged(f))
  BY AgedEntryTyped DEF MapTyped, Aged
<1>4. \A k \in Keys, e \in [val : Vals, left : Lefts] : MapTyped(With(f, k, e))
  BY DEF MapTyped, With
<1> QED BY <1>1, <1>2, <1>3, <1>4

\* What Set and SetWithTTL make of the map, and of its live entries.
LEMMA Writes ==
    ASSUME MapTyped(m), NEW k \in Keys, NEW v \in Vals
    PROVE  /\ MapTyped(Set(m, k, v, DefaultTTL))
           /\ \E life \in Lifetimes \cup {Forever} :
                Cleanup(Set(m, k, v, DefaultTTL)) = With(Cleanup(m), k, Entry(v, life))
           /\ \A ttl \in TTLs :
                /\ MapTyped(SetWithTTL(m, k, v, ttl))
                /\ \/ /\ ttl \in Lifetimes
                      /\ Cleanup(SetWithTTL(m, k, v, ttl)) = With(Cleanup(m), k, Entry(v, ttl))
                   \/ Cleanup(SetWithTTL(m, k, v, ttl)) = Without(Cleanup(m), {k})
<1>1. ASSUME NEW life \in Lifetimes \cup {Forever}
      PROVE  /\ MapTyped(Cleanup(With(m, k, Entry(v, life))))
             /\ Cleanup(Cleanup(With(m, k, Entry(v, life)))) = With(Cleanup(m), k, Entry(v, life))
  <2>1. life \in Int \ {0}
    BY TTLsAssumption DEF Lifetimes, Forever
  <2>2. Cleanup(Cleanup(With(m, k, Entry(v, life)))) = With(Cleanup(m), k, Entry(v, life))
    BY <2>1, CleanupTwice, CleanupWith
  <2>3. MapTyped(With(m, k, Entry(v, life)))
    BY EntryTyped, MapOps
  <2> QED BY <2>2, <2>3, MapOps
<1>2. ASSUME NEW ttl \in TTLs \cup {DefaultTTL}
      PROVE  /\ MapTyped(SetWithTTL(m, k, v, ttl))
             /\ \/ /\ ttl \in Lifetimes
                   /\ Cleanup(SetWithTTL(m, k, v, ttl)) = With(Cleanup(m), k, Entry(v, ttl))
                \/ /\ ttl <= 0
                   /\ Cleanup(SetWithTTL(m, k, v, ttl)) = Without(Cleanup(m), {k})
  <2>1. CASE ttl <= 0
    <3>1. SetWithTTL(m, k, v, ttl) = Cleanup(Without(m, {k}))
      BY <2>1 DEF SetWithTTL
    <3>2. MapTyped(Without(m, {k}))
      BY MapOps
    <3>3. MapTyped(Cleanup(Without(m, {k})))
      BY <3>2, MapOps
    <3> QED BY <2>1, <3>1, <3>3, CleanupTwice, CleanupWithout
  <2>2. CASE ~ (ttl <= 0)
    <3>1. SetWithTTL(m, k, v, ttl) = Cleanup(With(m, k, Entry(v, ttl))) /\ ttl \in Lifetimes
      BY <2>2, TTLsAssumption DEF SetWithTTL, Lifetimes
    <3> QED BY <1>1, <3>1
  <2> QED BY <2>1, <2>2
<1>3. CASE DefaultTTL > 0
  <2>1. Set(m, k, v, DefaultTTL) = SetWithTTL(m, k, v, DefaultTTL) /\ ~ (DefaultTTL <= 0)
    BY <1>3, TTLsAssumption DEF Set
  <2> QED BY <1>2, <2>1
<1>4. CASE ~ (DefaultTTL > 0)
  <2>1. Set(m, k, v, DefaultTTL) = Cleanup(With(m, k, Entry(v, Forever)))
    BY <1>4 DEF Set
  <2> QED BY <1>1, <1>2, <2>1
<1> QED BY <1>2, <1>3, <1>4

LEMMA InitTyped == Init => TypeOK
BY DEF Init, TypeOK, EmptyMap

LEMMA NextTyped == TypeOK /\ [Next]_vars => TypeOK'
<1> SUFFICES ASSUME TypeOK, [Next]_vars PROVE TypeOK'
  OBVIOUS
<1>0. TypeOK <=> /\ MapTyped(m)
                 /\ reaping \in [Threads -> Keys \cup {Missing}]
                 /\ answer \in [Threads -> Vals \cup {Missing}]
  BY DEF TypeOK, MapTyped
<1>1. ASSUME NEW t \in Threads, NEW k \in Keys, GetHit(t, k) \/ GetMiss(t, k) \/ GetExpired(t, k)
      PROVE  TypeOK'
  BY <1>1 DEF TypeOK, GetHit, GetMiss, GetExpired, LiveKeys
<1>2. ASSUME NEW t \in Threads, NEW new, MapTyped(new), Write(t, new)
      PROVE  TypeOK'
  BY <1>2 DEF TypeOK, MapTyped, Write
<1>3. ASSUME NEW t \in Threads, NEW k \in Keys, NEW v \in Vals, DoSet(t, k, v)
      PROVE  TypeOK'
  BY <1>0, <1>2, <1>3, Writes DEF DoSet
<1>4. ASSUME NEW t \in Threads, NEW k \in Keys, NEW v \in Vals, NEW ttl \in TTLs,
             DoSetWithTTL(t, k, v, ttl)
      PROVE  TypeOK'
  BY <1>0, <1>2, <1>4, Writes DEF DoSetWithTTL
<1>5. ASSUME NEW t \in Threads, NEW k \in Keys, Delete(t, k)
      PROVE  TypeOK'
  BY <1>0, <1>2, <1>5, MapOps DEF Delete
<1>6. ASSUME NEW t \in Threads, Clear(t)
      PROVE  TypeOK'
  BY <1>6 DEF TypeOK, Clear, Write, EmptyMap
<1>7. ASSUME NEW t \in Threads, Reap(t)
      PROVE  TypeOK'
  BY <1>7 DEF TypeOK, Reap, Without
<1>8. CASE Tick
  <2>1. MapTyped(m')
    BY <1>0, <1>8, MapOps DEF Tick
  <2> QED BY <1>8, <2>1 DEF TypeOK, MapTyped, Tick
<1>9. CASE UNCHANGED vars
  BY <1>9 DEF TypeOK, vars
<1> QED BY <1>1, <1>3, <1>4, <1>5, <1>6, <1>7, <1>8, <1>9 DEF Next

\* The map holds keys with values and with a time life that they were given.
THEOREM StoreTyping == Spec => []TypeOK
BY InitTyped, NextTyped, PTL DEF Spec

-----------------------------------------------------------------------------
(* Refinement: each step of the store is a step of the map, or none.       *)

LEMMA RefinementInit == Init => LossyMap!Init
<1>1. Cleanup(EmptyMap) = EmptyMap
  BY DEF Cleanup, EmptyMap, LiveKeys
<1> QED BY <1>1 DEF Init, LiveContent, LossyMap!Init, LossyMap!EmptyMap, EmptyMap, Entry

LEMMA RefinementStep == TypeOK /\ [Next]_vars => [LossyMap!Next]_LossyMap!vars
<1> SUFFICES ASSUME TypeOK, [Next]_vars PROVE [LossyMap!Next]_LossyMap!vars
  OBVIOUS
<1> DEFINE live == Cleanup(m)
<1>0. /\ MapTyped(m)
      /\ DOMAIN live = LiveKeys(m) /\ LiveKeys(m) \subseteq DOMAIN m /\ DOMAIN live \subseteq Keys
      /\ \A k \in LiveKeys(m) : live[k] = m[k]
      /\ \A k : k \notin DOMAIN live => Without(live, {k}) = live
      /\ Without(live, Keys) = EmptyMap
  BY DEF TypeOK, MapTyped, Cleanup, LiveKeys, Without, EmptyMap
<1>1. ASSUME NEW t \in Threads, NEW k \in Keys, GetHit(t, k)
      PROVE  LossyMap!Found(t, k)
  BY <1>0, <1>1 DEF GetHit, LossyMap!Found, LiveContent
<1>2. ASSUME NEW t \in Threads, NEW k \in Keys, GetMiss(t, k)
      PROVE  LossyMap!NotFound(t, k)
  <2>1. Cleanup(m)' = Cleanup(m)
    BY <1>2 DEF GetMiss
  <2> QED BY <1>0, <1>2, <2>1 DEF GetMiss, LossyMap!NotFound, LiveContent, LossyMap!Without, Without
<1>3. ASSUME NEW t \in Threads, NEW k \in Keys, GetExpired(t, k)
      PROVE  UNCHANGED LossyMap!vars
  BY <1>3 DEF GetExpired, LossyMap!vars, LiveContent
<1>4. ASSUME NEW t \in Threads, Reap(t)
      PROVE  \E k \in Keys : LossyMap!NotFound(t, k)
  <2>1. reaping[t] \in Keys
    BY <1>4 DEF Reap, Free, TypeOK
  <2>2. Cleanup(m)' = Without(Cleanup(m), {reaping[t]})
    BY <1>4, CleanupWithout DEF Reap
  <2>3. LossyMap!NotFound(t, reaping[t])
    BY <1>4, <2>2 DEF Reap, LossyMap!NotFound, LiveContent, LossyMap!Without, Without
  <2> QED BY <2>1, <2>3
<1>5. ASSUME NEW t \in Threads, NEW k \in Keys, NEW v \in Vals, NEW life \in Lifetimes \cup {Forever},
             NEW new, Write(t, new), Cleanup(new) = With(Cleanup(m), k, Entry(v, life))
      PROVE  LossyMap!Write(k, v, life)
  BY <1>5 DEF Write, LossyMap!Write, LiveContent, LossyMap!With, LossyMap!Entry, With, Entry
<1>6. ASSUME NEW t \in Threads, NEW ks \in SUBSET Keys, NEW new, Write(t, new),
             Cleanup(new) = Without(Cleanup(m), ks)
      PROVE  LossyMap!Erase(ks)
  BY <1>6 DEF Write, LossyMap!Erase, LiveContent, LossyMap!Without, Without
<1>7. ASSUME NEW t \in Threads, NEW k \in Keys, NEW v \in Vals, DoSet(t, k, v)
      PROVE  LossyMap!Next
  <2>1. PICK life \in Lifetimes \cup {Forever} :
            Cleanup(Set(m, k, v, DefaultTTL)) = With(Cleanup(m), k, Entry(v, life))
    BY <1>0, Writes
  <2>2. LossyMap!Write(k, v, life)
    BY <1>5, <1>7, <2>1 DEF DoSet
  <2> QED BY <2>2 DEF LossyMap!Next, LossyMap!Forever, Forever
<1>8. ASSUME NEW t \in Threads, NEW k \in Keys, NEW v \in Vals, NEW ttl \in TTLs,
             DoSetWithTTL(t, k, v, ttl)
      PROVE  LossyMap!Next
  <2>1. CASE ttl \in Lifetimes
             /\ Cleanup(SetWithTTL(m, k, v, ttl)) = With(Cleanup(m), k, Entry(v, ttl))
    <3>1. LossyMap!Write(k, v, ttl)
      BY <1>5, <1>8, <2>1 DEF DoSetWithTTL
    <3> QED BY <2>1, <3>1 DEF LossyMap!Next
  <2>2. CASE Cleanup(SetWithTTL(m, k, v, ttl)) = Without(Cleanup(m), {k})
    <3>1. LossyMap!Erase({k}) /\ {k} \in SUBSET Keys
      BY <1>6, <1>8, <2>2 DEF DoSetWithTTL
    <3> QED BY <3>1 DEF LossyMap!Next
  <2> QED BY <1>0, <2>1, <2>2, Writes
<1>9. ASSUME NEW t \in Threads, NEW k \in Keys, Delete(t, k)
      PROVE  LossyMap!Next
  <2>1. LossyMap!Erase({k}) /\ {k} \in SUBSET Keys
    BY <1>6, <1>9, CleanupWithout DEF Delete
  <2> QED BY <2>1 DEF LossyMap!Next
<1>10. ASSUME NEW t \in Threads, Clear(t)
       PROVE  LossyMap!Next
  <2>1. Cleanup(EmptyMap) = Without(Cleanup(m), Keys)
    BY <1>0 DEF Cleanup, EmptyMap, LiveKeys
  <2>2. LossyMap!Erase(Keys) /\ Keys \in SUBSET Keys
    BY <1>6, <1>10, <2>1 DEF Clear
  <2> QED BY <2>2 DEF LossyMap!Next
<1>11. CASE Tick
  <2>1. m \in [DOMAIN m -> [val : Vals, left : {Forever} \cup Nat]]
    BY LeftsTyped DEF TypeOK
  <2>2. Cleanup(m)' = Cleanup(Aged(Cleanup(m)))
    BY <1>11, <2>1, CleanupAged DEF Tick
  <2>3. LossyMap!Elapse
    BY <1>11, <2>2 DEF Tick, LossyMap!Elapse, LiveContent, LossyMap!Cleanup, LossyMap!Aged,
       LossyMap!LiveKeys, LossyMap!Expired, LossyMap!Entry, Cleanup, Aged, LiveKeys, Expired, Entry
  <2> QED BY <2>3 DEF LossyMap!Next
<1>12. CASE UNCHANGED vars
  BY <1>12 DEF vars, LossyMap!vars, LiveContent
<1>13. ASSUME NEW t \in Threads, NEW k \in Keys, GetHit(t, k) \/ GetMiss(t, k)
       PROVE  LossyMap!Next
  BY <1>1, <1>2, <1>13 DEF LossyMap!Next
<1>14. ASSUME NEW t \in Threads, Reap(t)
       PROVE  LossyMap!Next
  BY <1>4, <1>14 DEF LossyMap!Next
<1> QED
  BY <1>3, <1>7, <1>8, <1>9, <1>10, <1>11, <1>12, <1>13, <1>14 DEF Next

\* The store implements the lossy map: every answer is one the map could have given.
THEOREM StoreImplementsLossyMap == Spec => ImplementsLossyMap
BY InitTyped, NextTyped, RefinementInit, RefinementStep, PTL
   DEF Spec, ImplementsLossyMap, LossyMap!Spec

-----------------------------------------------------------------------------
(* The lock.                                                               *)


\* The key and its holder's lease run out together.
KeyIsLease ==
    /\ holder = Nobody <=> left = 0
    /\ holder # Nobody => lease[holder] = left

\* A lease ends early only once its call has turned to unlocking.
LeaseKept == \A c \in Calls : call[c].pc \notin {"unlock", "over"} /\ lease[c] > 0 => holder = c

\* That goes for unlock commands that come late, too.
LateUnlocks == \A c \in Calls : <<c, "unlock">> \in late => call[c].pc \in {"unlock", "over"}

LockInv == LockTypeOK /\ KeyIsLease /\ LeaseKept /\ LateUnlocks

LEMMA LockInitial == LockInit => LockInv
BY TTLAssumption, MaxRetriesAssumption, NobodyAssumption
   DEF LockInit, LockInv, LockTypeOK, Call, KeyIsLease, LeaseKept, LateUnlocks

-----------------------------------------------------------------------------
(* The server.                                                             *)

\* What a command does to the key and the leases.
Key == /\ holder \in Calls \cup {Nobody} /\ left \in 0..TTL /\ lease \in [Calls -> 0..TTL]
       /\ KeyIsLease

\* A command executed for a call keeps every other lease, and its own unless it unlocks.
LEMMA Executed ==
    ASSUME LockInv, NEW c \in Calls, NEW cmd \in Commands, Execute(c, cmd),
           cmd = "unlock" => call[c].pc \in {"unlock", "over"}
    PROVE  /\ Key'
           /\ \A d \in Calls : call[d].pc \notin {"unlock", "over"} /\ lease'[d] > 0 => holder' = d
<1>1. Key /\ c # Nobody /\ TTL > 0 /\ TTL \in Nat
  BY TTLAssumption, NobodyAssumption DEF LockInv, LockTypeOK, Key
<1>2. ASSUME Grant(c), holder \in {c, Nobody}
      PROVE  /\ Key'
             /\ \A d \in Calls : call[d].pc \notin {"unlock", "over"} /\ lease'[d] > 0 => holder' = d
  <2>1. /\ holder' = c /\ left' = TTL /\ lease' \in [Calls -> 0..TTL]
        /\ lease'[c] = TTL /\ \A d \in Calls : d # c => lease'[d] = lease[d]
    BY <1>1, <1>2 DEF Grant, Key
  <2>2. Key'
    BY <1>1, <2>1 DEF Key, KeyIsLease
  <2> QED BY <1>1, <1>2, <2>1, <2>2, NobodyAssumption DEF LockInv, LeaseKept
<1>3. ASSUME UNCHANGED <<holder, left, lease>>
      PROVE  /\ Key'
             /\ \A d \in Calls : call[d].pc \notin {"unlock", "over"} /\ lease'[d] > 0 => holder' = d
  BY <1>1, <1>3 DEF Key, KeyIsLease, LockInv, LeaseKept
<1>4. CASE cmd = "set"
  BY <1>2, <1>3, <1>4 DEF Execute, SetNX
<1>5. CASE cmd = "refresh"
  BY <1>2, <1>3, <1>5 DEF Execute, Refresh
<1>6. CASE cmd = "unlock"
  <2>1. Unlock(c)
    BY <1>6 DEF Execute
  <2>2. Key'
    BY <1>1, <2>1 DEF Unlock, Key, KeyIsLease
  <2>3. ASSUME NEW d \in Calls, call[d].pc \notin {"unlock", "over"}, lease'[d] > 0 PROVE holder' = d
    <3>1. holder = d /\ d # c
      BY <1>6, <2>1, <2>3 DEF Unlock, LockInv, LeaseKept
    <3> QED BY <2>1, <3>1 DEF Unlock
  <2> QED BY <2>2, <2>3
<1> QED BY <1>4, <1>5, <1>6 DEF Commands

LEMMA ServeKeeps ==
    ASSUME LockInv, NEW c \in Calls, Serve(c)
    PROVE  LockInv'
<1>1. /\ call[c].pc \in Commands /\ Execute(c, call[c].pc) /\ late' = late
      /\ call' = [call EXCEPT ![c].replied = TRUE, ![c].done = Effective(c, call[c].pc)]
  BY DEF Serve
<1>2. Effective(c, call[c].pc) \in BOOLEAN
  BY DEF Effective
<1>3. call' \in [Calls -> Call] /\ \A d \in Calls : call'[d].pc = call[d].pc
  BY <1>1, <1>2 DEF LockInv, LockTypeOK, Call
<1>4. /\ Key'
      /\ \A d \in Calls : call[d].pc \notin {"unlock", "over"} /\ lease'[d] > 0 => holder' = d
  BY <1>1, Executed
<1> QED BY <1>1, <1>3, <1>4 DEF LockInv, LockTypeOK, Key, LeaseKept, LateUnlocks

LEMMA ServeLateKeeps ==
    ASSUME LockInv, NEW c \in Calls, NEW cmd \in Commands, ServeLate(c, cmd)
    PROVE  LockInv'
<1>1. /\ <<c, cmd>> \in late /\ Execute(c, cmd)
      /\ late' = late \ {<<c, cmd>>} /\ UNCHANGED call
  BY DEF ServeLate
<1>2. cmd = "unlock" => call[c].pc \in {"unlock", "over"}
  BY <1>1 DEF LockInv, LateUnlocks
<1>3. /\ Key'
      /\ \A d \in Calls : call[d].pc \notin {"unlock", "over"} /\ lease'[d] > 0 => holder' = d
  BY <1>1, <1>2, Executed
<1> QED BY <1>1, <1>3 DEF LockInv, LockTypeOK, Key, LeaseKept, LateUnlocks

-----------------------------------------------------------------------------
(* The client.                                                             *)

\* A call moves without the key; it may leave its command behind; unlocking and over
\* are left for each other only.
LEMMA CallMoves ==
    ASSUME LockInv, NEW c \in Calls, NEW x \in Call, call' = [call EXCEPT ![c] = x],
           call[c].pc \in {"unlock", "over"} => x.pc \in {"unlock", "over"},
           late' \subseteq late \cup {<<c, cmd>> : cmd \in Commands \cap {call[c].pc}},
           UNCHANGED <<holder, left, lease>>
    PROVE  LockInv'
<1>1. /\ call' \in [Calls -> Call] /\ call'[c] = x
      /\ \A d \in Calls : d # c => call'[d] = call[d]
  BY DEF LockInv, LockTypeOK
<1>2. LockTypeOK'
  BY <1>1 DEF LockInv, LockTypeOK
<1>3. LeaseKept'
  BY <1>1 DEF LockInv, LeaseKept
<1>4. LateUnlocks'
  BY <1>1 DEF LockInv, LateUnlocks
<1> QED BY <1>2, <1>3, <1>4 DEF LockInv, KeyIsLease

LEMMA AtTyped ==
    ASSUME LockInv, NEW c \in Calls,
           NEW pc \in {"idle", "wait", "work", "over"} \cup Commands
    PROVE  At(c, pc) \in Call /\ At(c, pc).pc = pc
BY MaxRetriesAssumption DEF At, Ready, Call, LockInv, LockTypeOK

LEMMA GotoKeeps ==
    ASSUME LockInv, NEW c \in Calls,
           NEW pc \in {"idle", "wait", "work", "over"} \cup Commands, Goto(c, pc),
           call[c].pc \in {"unlock", "over"} => pc \in {"unlock", "over"}
    PROVE  LockInv'
BY AtTyped, CallMoves DEF Goto

LEMMA NotObtainedKeeps ==
    ASSUME LockInv, NEW c \in Calls, NotObtained(c)
    PROVE  LockInv'
<1>1. call[c].pc = "set" /\ call[c].attempts \in 0..MaxRetries
  BY DEF NotObtained, Replied, LockInv, LockTypeOK, Call
<1>2. CASE MaxRetries > 0 /\ call[c].attempts + 1 > MaxRetries
  BY <1>1, <1>2, GotoKeeps DEF NotObtained
<1>3. CASE ~ (MaxRetries > 0 /\ call[c].attempts + 1 > MaxRetries)
  <2> DEFINE n == IF MaxRetries > 0 THEN call[c].attempts + 1 ELSE 0
             x == Ready("wait", n)
  <2>1. n \in 0..MaxRetries
    BY <1>1, <1>3, MaxRetriesAssumption
  <2>2. call' = [call EXCEPT ![c] = x] /\ UNCHANGED <<holder, left, late, lease>>
    BY <1>3 DEF NotObtained
  <2> HIDE DEF n
  <2>3. x \in Call /\ x.pc = "wait"
    BY <2>1, MaxRetriesAssumption DEF Ready, Call
  <2> HIDE DEF x
  <2> QED BY <1>1, <2>2, <2>3, CallMoves
<1> QED BY <1>2, <1>3

LEMMA TimesOutKeeps ==
    ASSUME LockInv, NEW c \in Calls, TimesOut(c)
    PROVE  LockInv'
<1>1. /\ call[c] \in Call /\ call[c].pc \in Commands
      /\ late' \subseteq late \cup {<<c, cmd>> : cmd \in Commands \cap {call[c].pc}}
      /\ UNCHANGED <<holder, left, lease>>
  BY DEF TimesOut, LockInv, LockTypeOK
<1>2. CASE /\ call[c].sent < Resends
           /\ call' = [call EXCEPT ![c].sent = @ + 1, ![c].replied = FALSE, ![c].done = FALSE]
  <2> DEFINE n == call[c].sent + 1
             x == [call[c] EXCEPT !.sent = n, !.replied = FALSE, !.done = FALSE]
  <2>3. n \in 0..Resends
    BY <1>1, <1>2, MaxRetriesAssumption DEF Call
  <2>2. call' = [call EXCEPT ![c] = x]
    BY <1>1, <1>2 DEF LockInv, LockTypeOK, Call
  <2> HIDE DEF n
  <2>1. x \in Call /\ x.pc = call[c].pc
    BY <1>1, <2>3 DEF Call
  <2> HIDE DEF x
  <2> QED BY <1>1, <2>1, <2>2, CallMoves
<1>3. CASE call' = [call EXCEPT ![c] = At(c, AfterError(call[c].pc))]
  <2>1. AfterError(call[c].pc) \in {"work", "over"}
        /\ (call[c].pc = "unlock" => AfterError(call[c].pc) = "over")
    BY DEF AfterError
  <2> QED BY <1>1, <1>3, <2>1, AtTyped, CallMoves DEF Commands
<1> QED BY <1>2, <1>3 DEF TimesOut

LEMMA CrashKeeps ==
    ASSUME LockInv, NEW c \in Calls, Crash(c)
    PROVE  LockInv'
BY AtTyped, CallMoves DEF Crash

\* The key and the leases lose the same time.
LEMMA LockTickKeeps == LockInv /\ LockTick => LockInv'
<1> SUFFICES ASSUME LockInv, LockTick PROVE LockInv'
  OBVIOUS
<1>1. /\ holder \in Calls \cup {Nobody} /\ left \in 0..TTL
      /\ \A c \in Calls : lease[c] \in 0..TTL
  BY DEF LockInv, LockTypeOK
<1>2. /\ left' = (IF left > 0 THEN left - 1 ELSE 0) /\ holder' = (IF left > 1 THEN holder ELSE Nobody)
      /\ UNCHANGED <<call, late>>
      /\ DOMAIN lease' = Calls
      /\ \A c \in Calls : lease'[c] = IF lease[c] > 0 THEN lease[c] - 1 ELSE 0
  BY DEF LockTick
<1>3. lease' \in [Calls -> 0..TTL]
  <2>1. \A c \in Calls : lease'[c] \in 0..TTL
    BY <1>1, <1>2, TTLAssumption
  <2> QED BY <2>1, TTLAssumption DEF LockTick
<1>4. LockTypeOK'
  BY <1>1, <1>2, <1>3, TTLAssumption DEF LockInv, LockTypeOK
<1>5. KeyIsLease'
  BY <1>1, <1>2, TTLAssumption, NobodyAssumption DEF LockInv, KeyIsLease
<1>6. LeaseKept'
  <2> SUFFICES ASSUME NEW c \in Calls, call[c].pc \notin {"unlock", "over"}, lease'[c] > 0
               PROVE  holder' = c
    BY <1>2 DEF LeaseKept
  <2>1. lease[c] > 1
    BY <1>1, <1>2, TTLAssumption
  <2>2. holder = c
    BY <1>1, <2>1, TTLAssumption DEF LockInv, LeaseKept
  <2>3. left > 1
    BY <2>1, <2>2, NobodyAssumption DEF LockInv, KeyIsLease
  <2> QED BY <1>2, <2>2, <2>3
<1> QED BY <1>2, <1>4, <1>5, <1>6 DEF LockInv, LateUnlocks

-----------------------------------------------------------------------------
LEMMA LockStep == LockInv /\ [LockNext]_lockVars => LockInv'
<1> SUFFICES ASSUME LockInv, [LockNext]_lockVars PROVE LockInv'
  OBVIOUS
<1>1. ASSUME NEW c \in Calls, Serve(c) PROVE LockInv'
  BY <1>1, ServeKeeps
<1>2. ASSUME NEW c \in Calls, NEW cmd \in Commands, ServeLate(c, cmd) PROVE LockInv'
  BY <1>2, ServeLateKeeps
<1>3. ASSUME NEW c \in Calls,
             \/ Begin(c) \/ Locked(c) \/ Retry(c) \/ Cancelled(c) \/ StartRefresh(c)
             \/ EndRefresh(c) \/ StartUnlock(c) \/ EndUnlock(c)
      PROVE  LockInv'
  BY <1>3, GotoKeeps DEF Begin, Locked, Retry, Cancelled, StartRefresh, EndRefresh, StartUnlock,
     EndUnlock, Replied, Commands
<1>4. ASSUME NEW c \in Calls, NotObtained(c) PROVE LockInv'
  BY <1>4, NotObtainedKeeps
<1>5. ASSUME NEW c \in Calls, TimesOut(c) PROVE LockInv'
  BY <1>5, TimesOutKeeps
<1>6. ASSUME NEW c \in Calls, Crash(c) PROVE LockInv'
  BY <1>6, CrashKeeps
<1>7. CASE LockTick
  BY <1>7, LockTickKeeps
<1>8. CASE UNCHANGED lockVars
  BY <1>8 DEF lockVars, LockInv, LockTypeOK, KeyIsLease, LeaseKept, LateUnlocks
<1> QED BY <1>1, <1>2, <1>3, <1>4, <1>5, <1>6, <1>7, <1>8 DEF LockNext, Progress

LEMMA LockInvariant == LockSpec => []LockInv
BY LockInitial, LockStep, PTL DEF LockSpec

\* The state always has its type.
THEOREM LockTyping == LockSpec => []LockTypeOK
<1>1. LockInv => LockTypeOK
  BY DEF LockInv
<1> QED BY <1>1, LockInvariant, PTL

\* fn keeps the key for the whole lease it was last granted, whatever is lost, repeated,
\* delayed or crashes.
THEOREM LeasesAreHonoured == LockSpec => []LeaseHonoured
<1>1. LockInv => LeaseHonoured
  BY DEF LockInv, LeaseKept, LeaseHonoured, Working
<1> QED BY <1>1, LockInvariant, PTL

\* No two fns run at the same time within their leases.
THEOREM LockExcludes == LockSpec => []MutualExclusion
<1>1. LockInv => MutualExclusion
  BY DEF LockInv, LeaseKept, MutualExclusion, Working
<1> QED BY <1>1, LockInvariant, PTL
=============================================================================
