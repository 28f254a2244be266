----------------------------- MODULE Scheduler -----------------------------
(***************************************************************************)
(* pkg/scheduler with the Redis leader lock of redislock.go: several       *)
(* processes, of which the one that obtains the lock runs cron.            *)
(*                                                                         *)
(* Each process has two goroutines.  main calls Start and later Stop; the  *)
(* heartbeat renews the lock on every tick of its ticker and stops cron    *)
(* when Redis says the lock is lost.  Time is counted in ticks: the key    *)
(* expires when its ttl reaches zero, a heartbeat is due when lockRenew    *)
(* Interval ticks have passed since its last one.  A step of a process     *)
(* takes no time by itself; Tick may come between any two steps, except    *)
(* where TickAllowed says otherwise.                                       *)
(***************************************************************************)
EXTENDS Integers, FiniteSets

CONSTANTS
    Instances,          \* processes
    TTL,                \* redisLockOptions.ttl, in ticks
    RenewInterval,      \* lockRenewInterval, in ticks
    MaxIncarnations,    \* bound: times each process is started
    MaxFaults,          \* bound: Redis calls that fail and heartbeats that panic
    PromptStart,        \* no time passes between startHeartbeat and cron.Start
    PromptHeartbeat     \* no time passes while a heartbeat is due or renewing

ASSUME SchedulerAssumption ==
    /\ TTL \in Nat /\ RenewInterval \in Nat /\ 0 < RenewInterval /\ RenewInterval < TTL
    /\ MaxIncarnations \in Nat /\ MaxFaults \in Nat
    /\ PromptStart \in BOOLEAN /\ PromptHeartbeat \in BOOLEAN

VARIABLES
    owner,              \* value of the Redis key: a token, or NoToken
    ttl,                \* ticks until the key expires
    main,               \* where Start or Stop is in each process
    heartbeat,          \* where the heartbeat goroutine is
    cron,               \* TRUE while the cron loop of the process runs
    cronStarted,        \* s.cronStarted
    lockOwned,          \* s.lockOwned
    cancelled,          \* s.heartbeatCancel was called
    since,              \* ticks since the heartbeat's ticker last fired
    incarnation,        \* how often the process was started
    faults,             \* Redis calls that failed and heartbeats that panicked
    faulty              \* history: a call failed, a heartbeat panicked or was late

vars == <<owner, ttl, main, heartbeat, cron, cronStarted, lockOwned, cancelled, since,
          incarnation, faults, faulty>>
locals == <<cronStarted, lockOwned, cancelled>>
bounds == <<incarnation, faults, faulty>>

NoToken == <<>>

\* The random token redislock stores: one per process start.
Token(i) == <<i, incarnation[i]>>

Alive == {"wait", "renew", "lostWait", "lostFlag"}

TypeOK ==
    /\ owner \in {NoToken} \cup (Instances \X (1 .. MaxIncarnations))
    /\ ttl \in 0 .. TTL
    /\ main \in [Instances -> {"new", "follower", "starting", "started", "init", "up", "failWait",
                               "failFlag", "stopWait", "stopFlag", "releaseLock", "hbWait", "release",
                               "exit"}]
    /\ heartbeat \in [Instances -> {"none", "done", "panicked"} \cup Alive]
    /\ cron \in [Instances -> BOOLEAN] /\ cronStarted \in [Instances -> BOOLEAN]
    /\ lockOwned \in [Instances -> BOOLEAN] /\ cancelled \in [Instances -> BOOLEAN]
    /\ since \in [Instances -> 0 .. RenewInterval]
    /\ incarnation \in [Instances -> 1 .. MaxIncarnations]
    /\ faults \in 0 .. MaxFaults /\ faulty \in BOOLEAN

Init ==
    /\ owner = NoToken /\ ttl = 0
    /\ main = [i \in Instances |-> "new"]
    /\ heartbeat = [i \in Instances |-> "none"]
    /\ cron = [i \in Instances |-> FALSE] /\ cronStarted = [i \in Instances |-> FALSE]
    /\ lockOwned = [i \in Instances |-> FALSE] /\ cancelled = [i \in Instances |-> FALSE]
    /\ since = [i \in Instances |-> 0]
    /\ incarnation = [i \in Instances |-> 1]
    /\ faults = 0 /\ faulty = FALSE

----------------------------------------------------------------------------
(* Redis, as redislock uses it.                                            *)

DeleteBlind(i) == owner' = NoToken /\ ttl' = 0                              \* mutant: no token

Obtain(i) == owner = NoToken /\ owner' = Token(i) /\ ttl' = TTL
Refresh(i) == owner = Token(i) /\ ttl' = TTL /\ UNCHANGED owner
Delete(i) == owner = Token(i) /\ owner' = NoToken /\ ttl' = 0

\* A call that fails may have been carried out: only the answer was lost.
Fails(effect) ==
    /\ faults < MaxFaults /\ faults' = faults + 1
    /\ effect \/ UNCHANGED <<owner, ttl>>
    /\ faulty' = TRUE
    /\ UNCHANGED incarnation

Goto(i, label) == main' = [main EXCEPT ![i] = label]
HbGoto(i, label) == heartbeat' = [heartbeat EXCEPT ![i] = label]

----------------------------------------------------------------------------
(* Start.                                                                  *)

\* Acquire succeeds; lockOwned and the heartbeat goroutine follow at once.
AcquireOk(i) ==
    /\ main[i] = "new"
    /\ Obtain(i)
    /\ lockOwned' = [lockOwned EXCEPT ![i] = TRUE]
    /\ HbGoto(i, "wait")
    /\ since' = [since EXCEPT ![i] = 0]
    /\ cancelled' = [cancelled EXCEPT ![i] = FALSE]
    /\ Goto(i, "starting")
    /\ UNCHANGED <<cron, cronStarted, bounds>>

\* Another holder: Start returns nil and cron stays off.
AcquireHeld(i) ==
    /\ main[i] = "new"
    /\ owner # NoToken
    /\ Goto(i, "follower")
    /\ UNCHANGED <<owner, ttl, heartbeat, cron, locals, since, bounds>>

AcquireError(i) ==
    /\ main[i] = "new"
    /\ Fails(Obtain(i))
    /\ Goto(i, "exit")
    /\ UNCHANGED <<heartbeat, cron, locals, since>>

CronStart(i) ==
    /\ main[i] = "starting"
    /\ cron' = [cron EXCEPT ![i] = TRUE]
    /\ Goto(i, "started")
    /\ UNCHANGED <<owner, ttl, heartbeat, locals, since, bounds>>

StoreStarted(i) ==
    /\ main[i] = "started"
    /\ cronStarted' = [cronStarted EXCEPT ![i] = TRUE]
    /\ Goto(i, "init")
    /\ UNCHANGED <<owner, ttl, heartbeat, cron, lockOwned, cancelled, since, bounds>>

InitOk(i) ==
    /\ main[i] = "init"
    /\ Goto(i, "up")
    /\ UNCHANGED <<owner, ttl, heartbeat, cron, locals, since, bounds>>

\* A Job.Init fails: stopCron, then wait (bounded by 5s), then the flag.
InitFails(i) ==
    /\ main[i] = "init"
    /\ cron' = [cron EXCEPT ![i] = FALSE]
    /\ Goto(i, "failWait")
    /\ UNCHANGED <<owner, ttl, heartbeat, locals, since, bounds>>

----------------------------------------------------------------------------
(* Stop and releaseLock.                                                   *)

\* Mutant: the lock is released while cron goes on.
StopLeavesCron(i) ==
    /\ main[i] \in {"up", "follower"}
    /\ Goto(i, "releaseLock")
    /\ UNCHANGED <<owner, ttl, heartbeat, cron, locals, since, bounds>>

StopCall(i) ==
    /\ main[i] \in {"up", "follower"}
    /\ \/ /\ cronStarted[i]
          /\ cron' = [cron EXCEPT ![i] = FALSE]
          /\ Goto(i, "stopWait")
       \/ /\ ~cronStarted[i]
          /\ Goto(i, "releaseLock")
          /\ UNCHANGED cron
    /\ UNCHANGED <<owner, ttl, heartbeat, locals, since, bounds>>

\* stopCron returns: the running jobs ended, or 5s passed, or ctx is done.
StopWaited(i) ==
    /\ \/ main[i] = "stopWait" /\ Goto(i, "stopFlag")
       \/ main[i] = "failWait" /\ Goto(i, "failFlag")
    /\ UNCHANGED <<owner, ttl, heartbeat, cron, locals, since, bounds>>

ClearStarted(i) ==
    /\ main[i] \in {"stopFlag", "failFlag"}
    /\ cronStarted' = [cronStarted EXCEPT ![i] = FALSE]
    /\ Goto(i, "releaseLock")
    /\ UNCHANGED <<owner, ttl, heartbeat, cron, lockOwned, cancelled, since, bounds>>

CancelHeartbeat(i) ==
    /\ main[i] = "releaseLock"
    /\ \/ /\ lockOwned[i]
          /\ cancelled' = [cancelled EXCEPT ![i] = TRUE]
          /\ Goto(i, "hbWait")
       \/ /\ ~lockOwned[i]
          /\ Goto(i, "exit")
          /\ UNCHANGED cancelled
    /\ UNCHANGED <<owner, ttl, heartbeat, cron, cronStarted, lockOwned, since, bounds>>

\* <-s.heartbeatDone
HeartbeatDone(i) ==
    /\ main[i] = "hbWait"
    /\ heartbeat[i] \in {"done", "panicked"}
    /\ Goto(i, "release")
    /\ UNCHANGED <<owner, ttl, heartbeat, cron, locals, since, bounds>>

\* Release; ErrLockNotHeld is no error, any other one is only logged.
Release(i) ==
    /\ main[i] = "release"
    /\ \/ Delete(i) /\ UNCHANGED bounds
       \/ owner # Token(i) /\ UNCHANGED <<owner, ttl, bounds>>
       \/ Fails(Delete(i))
    /\ lockOwned' = [lockOwned EXCEPT ![i] = FALSE]
    /\ Goto(i, "exit")
    /\ UNCHANGED <<heartbeat, cron, cronStarted, cancelled, since>>

----------------------------------------------------------------------------
(* The heartbeat goroutine.                                                *)

HbTick(i) ==
    /\ heartbeat[i] = "wait"
    /\ since[i] = RenewInterval
    /\ since' = [since EXCEPT ![i] = 0]
    /\ HbGoto(i, "renew")
    /\ UNCHANGED <<owner, ttl, main, cron, locals, bounds>>

HbNeverCancelled(i) == FALSE /\ UNCHANGED vars   \* mutant: hbCtx is not watched

HbCancelled(i) ==
    /\ heartbeat[i] = "wait"
    /\ cancelled[i]
    /\ HbGoto(i, "done")
    /\ UNCHANGED <<owner, ttl, main, cron, locals, since, bounds>>

RenewOk(i) ==
    /\ heartbeat[i] = "renew"
    /\ Refresh(i)
    /\ HbGoto(i, "wait")
    /\ UNCHANGED <<main, cron, locals, since, bounds>>

\* Any error but ErrLockNotHeld: a warning, and cron goes on.
RenewError(i) ==
    /\ heartbeat[i] = "renew"
    /\ Fails(Refresh(i))
    /\ HbGoto(i, "wait")
    /\ UNCHANGED <<main, cron, locals, since>>

\* Mutant: a lost lock is logged like any other error.
RenewLostIgnored(i) ==
    /\ heartbeat[i] = "renew"
    /\ owner # Token(i)
    /\ HbGoto(i, "done")
    /\ UNCHANGED <<owner, ttl, main, cron, locals, since, bounds>>

\* ErrLockNotHeld: stopCron, then the flag, then the goroutine ends.
RenewLost(i) ==
    /\ heartbeat[i] = "renew"
    /\ owner # Token(i)
    /\ cron' = [cron EXCEPT ![i] = FALSE]
    /\ HbGoto(i, "lostWait")
    /\ UNCHANGED <<owner, ttl, main, locals, since, bounds>>

LostWaited(i) ==
    /\ heartbeat[i] = "lostWait"
    /\ HbGoto(i, "lostFlag")
    /\ UNCHANGED <<owner, ttl, main, cron, locals, since, bounds>>

LostClearStarted(i) ==
    /\ heartbeat[i] = "lostFlag"
    /\ cronStarted' = [cronStarted EXCEPT ![i] = FALSE]
    /\ HbGoto(i, "done")
    /\ UNCHANGED <<owner, ttl, main, cron, lockOwned, cancelled, since, bounds>>

\* A panic in Renew is recovered and the goroutine ends; cron goes on.
HbPanic(i) ==
    /\ heartbeat[i] = "renew"
    /\ faults < MaxFaults /\ faults' = faults + 1 /\ faulty' = TRUE
    /\ HbGoto(i, "panicked")
    /\ UNCHANGED <<owner, ttl, main, cron, locals, since, incarnation>>

----------------------------------------------------------------------------
(* The environment.                                                        *)

\* The process dies, or ended and is started again.
Restart(i) ==
    /\ incarnation[i] < MaxIncarnations
    /\ incarnation' = [incarnation EXCEPT ![i] = @ + 1]
    /\ Goto(i, "new") /\ HbGoto(i, "none")
    /\ cron' = [cron EXCEPT ![i] = FALSE]
    /\ cronStarted' = [cronStarted EXCEPT ![i] = FALSE]
    /\ lockOwned' = [lockOwned EXCEPT ![i] = FALSE]
    /\ cancelled' = [cancelled EXCEPT ![i] = FALSE]
    /\ since' = [since EXCEPT ![i] = 0]
    /\ UNCHANGED <<owner, ttl, faults, faulty>>

\* A heartbeat is waiting for the processor or for Redis.
HeartbeatBusy(i) ==
    \/ heartbeat[i] \in {"renew", "lostWait", "lostFlag"}
    \/ heartbeat[i] = "wait" /\ since[i] = RenewInterval

TickAllowed ==
    /\ PromptStart => \A i \in Instances : main[i] # "starting"
    /\ PromptHeartbeat => \A i \in Instances : ~HeartbeatBusy(i)

Tick ==
    /\ TickAllowed
    /\ ttl' = IF ttl > 0 THEN ttl - 1 ELSE 0
    /\ owner' = IF ttl > 1 THEN owner ELSE NoToken
    /\ since' = [i \in Instances |->
          IF heartbeat[i] \in Alive /\ since[i] < RenewInterval THEN since[i] + 1 ELSE since[i]]
    /\ faulty' = (faulty \/ \E i \in Instances : HeartbeatBusy(i))
    /\ UNCHANGED <<main, heartbeat, cron, locals, incarnation, faults>>

----------------------------------------------------------------------------
MainStep(i) ==
    \/ AcquireOk(i) \/ AcquireHeld(i) \/ AcquireError(i)
    \/ CronStart(i) \/ StoreStarted(i) \/ InitOk(i) \/ InitFails(i)
    \/ StopWaited(i) \/ ClearStarted(i) \/ CancelHeartbeat(i) \/ HeartbeatDone(i) \/ Release(i)

HeartbeatStep(i) ==
    \/ HbTick(i) \/ HbCancelled(i)
    \/ RenewOk(i) \/ RenewError(i) \/ RenewLost(i) \/ LostWaited(i) \/ LostClearStarted(i)
    \/ HbPanic(i)

Next ==
    \/ \E i \in Instances : MainStep(i) \/ StopCall(i) \/ HeartbeatStep(i) \/ Restart(i)
    \/ Tick

Spec == Init /\ [][Next]_vars

\* Goroutines run and time passes, and a select with two ready cases (the
\* ticker and the cancelled context) picks at random, so it does not pass the
\* second one over for ever.  Nobody has to call Stop or restart.
Fairness ==
    /\ \A i \in Instances : WF_vars(MainStep(i)) /\ WF_vars(HeartbeatStep(i))
                          /\ SF_vars(HbCancelled(i))
    /\ WF_vars(Tick)

FairSpec == Spec /\ Fairness

----------------------------------------------------------------------------
(* Properties.                                                             *)

Running == {i \in Instances : cron[i]}

\* At most one process runs cron: lock.go, "so only one process runs cron".
AtMostOneCron == \A i, j \in Running : i = j

\* And so it is, through crashes, restarts, failed inits and stops at any moment,
\* as long as Redis answers and no heartbeat is late or panics
\* (scheduler.go 71-164, redislock.go 53-101).
LeaderUnlessFaults == ~faulty => AtMostOneCron

\* A process whose Stop (or failed Start) has returned is quiet: cron is off,
\* its heartbeat is gone, and it does not believe it owns the lock; so no late
\* renewal can keep a released lock alive (scheduler.go 139-164).
ExitIsQuiet ==
    \A i \in Instances : main[i] = "exit" =>
        ~cron[i] /\ ~cronStarted[i] /\ ~lockOwned[i] /\ heartbeat[i] \notin Alive

\* When the heartbeat learned that the lock is lost and ended, cron is off:
\* lock.go, "When Renew returns this error, Scheduler stops cron to avoid
\* split-brain".
LostLockStopsCron ==
    \A i \in Instances : heartbeat[i] = "done" /\ ~cancelled[i] => ~cron[i]

\* A lock changes hands only by expiry: whatever a process that lost it does
\* later (renew, release, restart), a lock that was obtained by another token
\* is not shortened, deleted or overwritten (redislock.go 77-101).
OthersLockKept ==
    [][ \A i \in Instances :
          (main[i] # main'[i] \/ heartbeat[i] # heartbeat'[i]) /\ owner # NoToken /\ owner # Token(i)
             => owner' = owner /\ ttl' = ttl ]_vars

\* Two processes may run cron at once after late or failed renewals, but not
\* for good: the one that lost the lock finds out and stops, unless its
\* heartbeat died of a panic (scheduler.go 107-113, 125-130).
SplitBrainHeals ==
    (\E i, j \in Running : i # j) ~>
        AtMostOneCron \/ \E i \in Running : heartbeat[i] = "panicked"

\* Stop always returns; it does not wait for ever for the heartbeat.
StopTerminates == \A i \in Instances : main[i] = "releaseLock" ~> main[i] \in {"exit", "new"}
============================================================================
