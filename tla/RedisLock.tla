----------------------------- MODULE RedisLock -----------------------------
(***************************************************************************)
(* The lock of pkg/redis on one key: SET NX with a time to live to take    *)
(* it, scripts that compare the token before they delete or prolong it.    *)
(* A call is one use of a Lock object with the token of its own: WithLock, *)
(* or Lock, Refresh and Unlock by hand.                                    *)
(*                                                                         *)
(* A command goes to the server, is executed there and its reply comes     *)
(* back.  When no reply comes in time the redis library sends the command  *)
(* once more, at most Resends times, and then reports an error; the first  *)
(* command may still be executed, at any later moment.                     *)
(***************************************************************************)
EXTENDS Integers

CONSTANTS
    Calls,
    TTL,            \* of the lock, in ticks
    MaxRetries,     \* of Lock; 0: as long as the context lasts
    Resends,        \* by the library
    Nobody

ASSUME TTLAssumption == TTL \in Nat \ {0}
ASSUME MaxRetriesAssumption == MaxRetries \in Nat /\ Resends \in Nat
ASSUME NobodyAssumption == Nobody \notin Calls

VARIABLES
    holder,     \* the call whose token is stored under the key
    left,       \* time to live left of the key
    call,       \* progress of each call
    late,       \* commands that nobody waits for and that may still be executed
    lease       \* history: time left of the lease that each call last obtained

lockVars == <<holder, left, call, late, lease>>

Commands == {"set", "refresh", "unlock"}

\* "set", "refresh", "unlock": the command is on its way; replied: its reply is.
\* wait: between two attempts; work: fn runs and no command is out; over: returned
\* or crashed.
Call == [pc : {"idle", "wait", "work", "over"} \cup Commands, replied : BOOLEAN,
         done : BOOLEAN, attempts : 0..MaxRetries, sent : 0..Resends]

LockTypeOK ==
    /\ holder \in Calls \cup {Nobody}
    /\ left \in 0..TTL
    /\ call \in [Calls -> Call]
    /\ late \subseteq Calls \X Commands
    /\ lease \in [Calls -> 0..TTL]

LockInit ==
    /\ holder = Nobody
    /\ left = 0
    /\ call = [c \in Calls |-> [pc |-> "idle", replied |-> FALSE, done |-> FALSE,
                                attempts |-> 0, sent |-> 0]]
    /\ late = {}
    /\ lease = [c \in Calls |-> 0]

-----------------------------------------------------------------------------
(* The server.                                                             *)

Grant(c) ==
    /\ holder' = c
    /\ left' = TTL
    /\ lease' = [lease EXCEPT ![c] = TTL]

\* SET key token PX ttl NX.
SetNX(c) == IF holder = Nobody THEN Grant(c) ELSE UNCHANGED <<holder, left, lease>>

\* Mutant of Refresh: whatever the key holds is prolonged.
RefreshAnybody(c) ==
    /\ left' = IF holder = Nobody THEN 0 ELSE TTL
    /\ lease' = IF holder = Nobody THEN lease ELSE [lease EXCEPT ![c] = TTL]
    /\ UNCHANGED holder

\* refreshScript.
Refresh(c) == IF holder = c THEN Grant(c) ELSE UNCHANGED <<holder, left, lease>>

\* Mutant of Unlock: whatever the key holds is deleted.
UnlockAnybody(c) ==
    /\ holder' = Nobody
    /\ left' = 0
    /\ UNCHANGED lease

\* unlockScript.
Unlock(c) ==
    /\ holder' = IF holder = c THEN Nobody ELSE holder
    /\ left' = IF holder = c THEN 0 ELSE left
    /\ UNCHANGED lease

Execute(c, cmd) ==
    \/ cmd = "set" /\ SetNX(c)
    \/ cmd = "refresh" /\ Refresh(c)
    \/ cmd = "unlock" /\ Unlock(c)

\* What the reply says: the command had its effect.
Effective(c, cmd) == holder = IF cmd = "set" THEN Nobody ELSE c

Serve(c) ==
    /\ call[c].pc \in Commands /\ ~ call[c].replied
    /\ Execute(c, call[c].pc)
    /\ call' = [call EXCEPT ![c].replied = TRUE, ![c].done = Effective(c, call[c].pc)]
    /\ UNCHANGED late

ServeLate(c, cmd) ==
    /\ <<c, cmd>> \in late
    /\ Execute(c, cmd)
    /\ late' = late \ {<<c, cmd>>}
    /\ UNCHANGED call

-----------------------------------------------------------------------------
(* The client.                                                             *)

\* No command is out, or a new one.
Ready(pc, attempts) ==
    [pc |-> pc, replied |-> FALSE, done |-> FALSE, attempts |-> attempts, sent |-> 0]

At(c, pc) == Ready(pc, call[c].attempts)

Goto(c, pc) ==
    /\ call' = [call EXCEPT ![c] = At(c, pc)]
    /\ UNCHANGED <<holder, left, late, lease>>

Begin(c) == call[c].pc = "idle" /\ Goto(c, "set")

Replied(c, cmd) == call[c].pc = cmd /\ call[c].replied

Locked(c) == Replied(c, "set") /\ call[c].done /\ Goto(c, "work")

\* Mutant of NotObtained: the failures are not counted.
NotObtainedUncounted(c) ==
    /\ Replied(c, "set") /\ ~ call[c].done
    /\ Goto(c, "wait")

\* Mutant of NotObtained: one retry too many.
NotObtainedOnceMore(c) ==
    /\ Replied(c, "set") /\ ~ call[c].done
    /\ IF MaxRetries > 0 /\ call[c].attempts > MaxRetries
       THEN Goto(c, "over")
       ELSE /\ call' = [call EXCEPT ![c] =
                          Ready("wait", IF MaxRetries > 0 THEN call[c].attempts + 1 ELSE 0)]
            /\ UNCHANGED <<holder, left, late, lease>>

\* ErrLockNotObtained: attempts counts the failures, and the one after MaxRetries is
\* the last.
NotObtained(c) ==
    /\ Replied(c, "set") /\ ~ call[c].done
    /\ IF MaxRetries > 0 /\ call[c].attempts + 1 > MaxRetries
       THEN Goto(c, "over")
       ELSE /\ call' = [call EXCEPT ![c] =
                          Ready("wait", IF MaxRetries > 0 THEN call[c].attempts + 1 ELSE 0)]
            /\ UNCHANGED <<holder, left, late, lease>>

\* The retry interval is over, or the context is.
Retry(c) == call[c].pc = "wait" /\ Goto(c, "set")

Cancelled(c) == call[c].pc = "wait" /\ Goto(c, "over")

\* fn prolongs the lock, and is told whether it still was its own.
StartRefresh(c) == call[c].pc = "work" /\ Goto(c, "refresh")

EndRefresh(c) == Replied(c, "refresh") /\ Goto(c, "work")

\* fn returns.
StartUnlock(c) == call[c].pc = "work" /\ Goto(c, "unlock")

EndUnlock(c) == Replied(c, "unlock") /\ Goto(c, "over")

\* Where an error takes the call: out of TryLock, Lock and WithLock, and back to fn.
AfterError(cmd) == IF cmd = "refresh" THEN "work" ELSE "over"

\* The reply, or the command, is lost or delayed: the library sends it again or gives up.
TimesOut(c) ==
    /\ call[c].pc \in Commands
    /\ \/ late' = late
       \/ ~ call[c].replied /\ late' = late \cup {<<c, call[c].pc>>}
    /\ \/ /\ call[c].sent < Resends
          /\ call' = [call EXCEPT ![c].sent = @ + 1, ![c].replied = FALSE, ![c].done = FALSE]
       \/ call' = [call EXCEPT ![c] = At(c, AfterError(call[c].pc))]
    /\ UNCHANGED <<holder, left, lease>>

\* The process dies; a command on its way may still arrive.
Crash(c) ==
    /\ call[c].pc \notin {"idle", "over"}
    /\ call' = [call EXCEPT ![c] = At(c, "over")]
    /\ late' = late \cup {<<c, cmd>> : cmd \in Commands \cap {call[c].pc}}
    /\ UNCHANGED <<holder, left, lease>>

\* Mutant of LockTick: the key was stored without a time to live.
LockTickForever ==
    /\ lease' = [c \in Calls |-> IF lease[c] > 0 THEN lease[c] - 1 ELSE 0]
    /\ UNCHANGED <<holder, left, call, late>>

\* The clock moves, and the key goes when its time is up.
LockTick ==
    /\ left' = IF left > 0 THEN left - 1 ELSE 0
    /\ holder' = IF left > 1 THEN holder ELSE Nobody
    /\ lease' = [c \in Calls |-> IF lease[c] > 0 THEN lease[c] - 1 ELSE 0]
    /\ UNCHANGED <<call, late>>

\* What a call does by itself once it has begun, fn aside.
Progress(c) ==
    \/ Serve(c)
    \/ Locked(c) \/ NotObtained(c) \/ Retry(c)
    \/ EndRefresh(c) \/ EndUnlock(c)
    \/ TimesOut(c)

LockNext ==
    \/ \E c \in Calls :
        \/ Progress(c)
        \/ Begin(c) \/ Cancelled(c) \/ StartRefresh(c) \/ StartUnlock(c) \/ Crash(c)
        \/ \E cmd \in Commands : ServeLate(c, cmd)
    \/ LockTick

LockSpec == LockInit /\ [][LockNext]_lockVars

\* Commands are answered or time out, timers fire and the clock moves.
Fairness == WF_lockVars(LockTick) /\ \A c \in Calls : WF_lockVars(Progress(c))

FairLockSpec == LockSpec /\ Fairness

-----------------------------------------------------------------------------
(* Properties.                                                             *)

Working(c) == call[c].pc \in {"work", "refresh"}

\* fn runs with the key in its hands as long as the lease it was last granted lasts: no
\* late, repeated or foreign command takes it away before.
LeaseHonoured == \A c \in Calls : Working(c) /\ lease[c] > 0 => holder = c

\* Two fns run at the same time only if one of them has outlived its lease.
MutualExclusion ==
    \A c, d \in Calls : Working(c) /\ Working(d) /\ lease[c] > 0 /\ lease[d] > 0 => c = d

Locking(c) == call[c].pc \in {"set", "wait"}

\* With a bound on the retries Lock returns, however long another call holds the key.
LockReturns == \A c \in Calls : Locking(c) ~> ~ Locking(c)

\* A call that crashed, gave up or failed to unlock does not keep the key for good.
OrphansExpire == \A c \in Calls : holder = c /\ call[c].pc = "over" ~> holder # c
=============================================================================
