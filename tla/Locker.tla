------------------------------- MODULE Locker -------------------------------
(***************************************************************************)
(* pkg/lock: a lock with a time to live, kept in this process's memory or  *)
(* in Redis.  Callers try once, hold what they got, may be late to release *)
(* it, and may try again.  One key.                                        *)
(***************************************************************************)
EXTENDS Integers, FiniteSets

CONSTANTS
    Lockers,        \* goroutines, or processes with Redis, that use the lock
    TTL,            \* ticks a lock lives
    MaxTime,        \* bound: ticks of the clock
    MaxCalls        \* bound: calls of Lock a caller makes

ASSUME TTLPositive == TTL \in Nat \ {0}

VARIABLES
    lockClock,      \* the time
    backend,        \* "memory" or "redis": what the factory made
    entry,          \* the entry of the key: none, or token and expireAt
    caller          \* of each caller: where it is, its token, its time, its calls

lockVars == <<lockClock, backend, entry, caller>>

NoEntry == [token |-> <<>>, expireAt |-> 0]

LockTypeOK ==
    /\ lockClock \in 0 .. MaxTime /\ backend \in {"memory", "redis"}
    /\ entry = NoEntry \/ (entry.token[1] \in Lockers /\ entry.expireAt \in 0 .. MaxTime + TTL)
    /\ \A p \in Lockers : /\ caller[p].at \in {"idle", "calling", "holding"}
                          /\ caller[p].now \in 0 .. MaxTime
                          /\ caller[p].calls \in 0 .. MaxCalls

\* Create: a client that is nil, typed or not, is degraded to the memory lock.
Create(client) == IF client \in {"nil", "typed nil"} THEN "memory" ELSE "redis"

LockInit ==
    /\ lockClock = 0 /\ entry = NoEntry
    /\ backend \in {Create(c) : c \in {"nil", "typed nil", "client"}}
    /\ caller = [p \in Lockers |-> [at |-> "idle", now |-> 0, calls |-> 0, until |-> 0]]

\* The token of a caller's last call: random, so no two calls share one.
Token(p) == <<p, caller[p].calls>>

Becomes(p, at, now, calls, until) ==
    caller' = [caller EXCEPT ![p] = [at |-> at, now |-> now, calls |-> calls, until |-> until]]

\* Lock is entered: options, token and, in memory, the time.
Call(p) ==
    /\ caller[p].at = "idle" /\ caller[p].calls < MaxCalls
    /\ Becomes(p, "calling", lockClock, caller[p].calls + 1, 0)
    /\ UNCHANGED <<lockClock, backend, entry>>

Returns(p) == Becomes(p, "idle", 0, caller[p].calls, 0)

\* The time the expiry is judged by: Redis has its own clock, the memory lock
\* the one it read before it had the mutex.
TimeOf(p) == IF backend = "redis" THEN lockClock ELSE caller[p].now

Held(now) == entry # NoEntry /\ now < entry.expireAt

\* The entry is set, and the caller is told.
Obtain(p) ==
    /\ caller[p].at = "calling" /\ ~ Held(TimeOf(p))
    /\ entry' = [token |-> Token(p), expireAt |-> TimeOf(p) + TTL]
    /\ Becomes(p, "holding", caller[p].now, caller[p].calls, TimeOf(p) + TTL)
    /\ UNCHANGED <<lockClock, backend>>

\* ErrLockNotHeld.
NotObtained(p) ==
    /\ caller[p].at = "calling" /\ Held(TimeOf(p))
    /\ Returns(p)
    /\ UNCHANGED <<lockClock, backend, entry>>

\* The token cannot be made, or Redis fails: before it set the key or after.
CallFails(p) ==
    /\ caller[p].at = "calling"
    /\ Returns(p)
    /\ entry' \in IF backend = "redis" /\ ~ Held(lockClock)
                  THEN {entry, [token |-> Token(p), expireAt |-> lockClock + TTL]}
                  ELSE {entry}
    /\ UNCHANGED <<lockClock, backend>>

\* Mutant: whoever releases, the entry goes.
ReleaseAny(p) ==
    /\ caller[p].at = "holding"
    /\ entry' = NoEntry
    /\ Returns(p)
    /\ UNCHANGED <<lockClock, backend>>

\* Release, by token, however late.
Release(p) ==
    /\ caller[p].at = "holding"
    /\ entry' = IF entry.token = Token(p) THEN NoEntry ELSE entry
    /\ Returns(p)
    /\ UNCHANGED <<lockClock, backend>>

\* Redis does not answer: the caller is done, the key stays until it expires.
ReleaseFails(p) ==
    /\ caller[p].at = "holding" /\ backend = "redis"
    /\ Returns(p)
    /\ UNCHANGED <<lockClock, backend, entry>>

LockTick ==
    /\ lockClock < MaxTime
    /\ lockClock' = lockClock + 1
    /\ UNCHANGED <<backend, entry, caller>>

LockNext ==
    \/ LockTick
    \/ \E p \in Lockers : \/ Call(p) \/ Obtain(p) \/ NotObtained(p) \/ CallFails(p)
                          \/ Release(p) \/ ReleaseFails(p)

LockSpec == LockInit /\ [][LockNext]_lockVars

\* locker.go 26, "one caller at a time": of the callers that were given the lock
\* and have not released it, at most one is within its time to live; though the
\* memory lock judges by a time read before the mutex, a holder may release after
\* its lock went to another, and an answer of Redis may be lost (memory.go 31-81,
\* redis.go 25-55).
OneHolder ==
    Cardinality({p \in Lockers : caller[p].at = "holding" /\ lockClock < caller[p].until}) <= 1
=============================================================================
