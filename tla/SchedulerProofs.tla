--------------------------- MODULE SchedulerProofs ---------------------------
(***************************************************************************)
(* Proofs about Scheduler, for any set of processes, any time to live that *)
(* is longer than the interval of the heartbeats, and any number of lives  *)
(* and of faults.                                                          *)
(***************************************************************************)
EXTENDS Scheduler, TLAPS

MainLabels ==
    {"new", "follower", "starting", "started", "init", "up", "failWait", "failFlag", "stopWait",
     "stopFlag", "releaseLock", "hbWait", "release", "exit"}

Types ==
    /\ ttl \in Nat
    /\ main \in [Instances -> MainLabels]
    /\ heartbeat \in [Instances -> {"none", "done", "panicked"} \cup Alive]
    /\ cron \in [Instances -> BOOLEAN] /\ cronStarted \in [Instances -> BOOLEAN]
    /\ lockOwned \in [Instances -> BOOLEAN] /\ cancelled \in [Instances -> BOOLEAN]
    /\ since \in [Instances -> 0 .. RenewInterval]
    /\ incarnation \in [Instances -> Nat]
    /\ faults \in Nat /\ faulty \in BOOLEAN

Leading == {"starting", "started", "init", "up"}

\* While its heartbeat goes on, the lock is the process's own and lives long enough
\* for the next renewal.
LockKept(i) ==
    /\ heartbeat[i] \in {"wait", "renew"} => owner = Token(i)
    /\ heartbeat[i] = "wait" => ttl + since[i] >= TTL
    /\ heartbeat[i] = "renew" => ttl + RenewInterval >= TTL

\* Cron runs only between its start and the stop, and all that time, and before,
\* the heartbeat goes on; when the lock is to be deleted it has ended.
CronGuarded(i) ==
    /\ cron[i] => main[i] \in {"started", "init", "up"}
    /\ main[i] \in Leading => heartbeat[i] \in {"wait", "renew"} /\ ~ cancelled[i]
    /\ main[i] \in {"init", "up"} => cronStarted[i]
    /\ main[i] = "release" => heartbeat[i] \in {"done", "panicked"}
    /\ heartbeat[i] \notin {"lostWait", "lostFlag"}

HealthInv == ~ faulty => \A i \in Instances : LockKept(i) /\ CronGuarded(i)

LeadInv == Types /\ HealthInv

----------------------------------------------------------------------------
\* The initial states satisfy the invariant.
LEMMA LeadInvInit == Init => LeadInv
<1> SUFFICES ASSUME Init PROVE LeadInv
  OBVIOUS
<1>1. Types
  <2>1. 0 \in 0 .. RenewInterval
    BY SchedulerAssumption
  <2> QED  BY <2>1 DEF Init, Types, MainLabels
<1>2. HealthInv
  BY DEF Init, HealthInv, LockKept, CronGuarded, Leading
<1> QED  BY <1>1, <1>2 DEF LeadInv

\* The calls of Start and Stop keep the types.
LEMMA MainTypes ==
    ASSUME Types, NEW i \in Instances, MainStep(i) \/ StopCall(i)
    PROVE  Types'
<1> USE SchedulerAssumption DEF Types, MainLabels, Alive, bounds, locals, Goto, HbGoto, Fails,
        Obtain, Delete
<1>1. CASE AcquireOk(i)
  BY <1>1 DEF AcquireOk
<1>2. CASE AcquireHeld(i)
  BY <1>2 DEF AcquireHeld
<1>3. CASE AcquireError(i)
  BY <1>3 DEF AcquireError
<1>4. CASE CronStart(i) \/ StoreStarted(i)
  BY <1>4 DEF CronStart, StoreStarted
<1>5. CASE InitOk(i) \/ InitFails(i)
  BY <1>5 DEF InitOk, InitFails
<1>6. CASE StopCall(i)
  BY <1>6 DEF StopCall
<1>7. CASE StopWaited(i) \/ ClearStarted(i)
  BY <1>7 DEF StopWaited, ClearStarted
<1>8. CASE CancelHeartbeat(i) \/ HeartbeatDone(i)
  BY <1>8 DEF CancelHeartbeat, HeartbeatDone
<1>9. CASE Release(i)
  <2>1. /\ ttl' = 0 \/ ttl' = ttl
        /\ faults' = faults \/ faults' = faults + 1
        /\ faulty' = faulty \/ faulty' = TRUE
        /\ incarnation' = incarnation
    BY <1>9 DEF Release
  <2>2. UNCHANGED <<heartbeat, cron, cronStarted, cancelled, since>>
    BY <1>9 DEF Release
  <2>3. main' \in [Instances -> MainLabels] /\ lockOwned' \in [Instances -> BOOLEAN]
    BY <1>9 DEF Release
  <2>4. ttl' \in Nat /\ faults' \in Nat
    BY <2>1
  <2>5. faulty' \in BOOLEAN
    BY <2>1, Zenon
  <2> QED  BY <2>1, <2>2, <2>3, <2>4, <2>5
<1> QED  BY <1>1, <1>2, <1>3, <1>4, <1>5, <1>6, <1>7, <1>8, <1>9 DEF MainStep

\* And so do the heartbeats, restarts and the clock.
LEMMA OtherTypes ==
    ASSUME Types, Tick \/ \E i \in Instances : HeartbeatStep(i) \/ Restart(i)
    PROVE  Types'
<1> USE SchedulerAssumption DEF Types, Alive, bounds, locals, Goto, HbGoto, Fails, Refresh
<1>1. ASSUME NEW i \in Instances, HbTick(i) \/ HbCancelled(i) PROVE Types'
  BY <1>1 DEF HbTick, HbCancelled
<1>2. ASSUME NEW i \in Instances, RenewOk(i) \/ RenewError(i) PROVE Types'
  <2>1. /\ ttl' = TTL \/ ttl' = ttl
        /\ faults' = faults \/ faults' = faults + 1
        /\ faulty' = faulty \/ faulty' = TRUE
    BY <1>2 DEF RenewOk, RenewError
  <2>2. UNCHANGED <<main, cron, locals, since, incarnation>>
    BY <1>2 DEF RenewOk, RenewError
  <2>3. heartbeat' = [heartbeat EXCEPT ![i] = "wait"]
    BY <1>2 DEF RenewOk, RenewError
  <2>4. ttl' \in Nat /\ faults' \in Nat
    BY <2>1
  <2>5. faulty' \in BOOLEAN
    BY <2>1, Zenon
  <2> QED  BY <2>2, <2>3, <2>4, <2>5
<1>3. ASSUME NEW i \in Instances, RenewLost(i) \/ LostWaited(i) PROVE Types'
  BY <1>3 DEF RenewLost, LostWaited
<1>4. ASSUME NEW i \in Instances, LostClearStarted(i) \/ HbPanic(i) PROVE Types'
  <2>1. CASE LostClearStarted(i)
    BY <2>1 DEF LostClearStarted
  <2>2. CASE HbPanic(i)
    <3>1. faults' \in Nat /\ faulty' \in BOOLEAN /\ heartbeat' = [heartbeat EXCEPT ![i] = "panicked"]
      BY <2>2 DEF HbPanic
    <3>2. UNCHANGED <<ttl, main, cron, locals, since, incarnation>>
      BY <2>2 DEF HbPanic
    <3> QED  BY <3>1, <3>2
  <2> QED  BY <1>4, <2>1, <2>2
<1>5. ASSUME NEW i \in Instances, Restart(i) PROVE Types'
  BY <1>5 DEF Restart, MainLabels
<1>6. CASE Tick
  BY <1>6 DEF Tick, HeartbeatBusy
<1> QED  BY <1>1, <1>2, <1>3, <1>4, <1>5, <1>6 DEF HeartbeatStep

----------------------------------------------------------------------------
\* What a step of process i leaves alone in the others.
Apart(j) ==
    /\ main'[j] = main[j] /\ heartbeat'[j] = heartbeat[j] /\ cron'[j] = cron[j]
    /\ cronStarted'[j] = cronStarted[j] /\ cancelled'[j] = cancelled[j] /\ since'[j] = since[j]
    /\ incarnation'[j] = incarnation[j]

LEMMA StepsApart ==
    ASSUME Types, NEW i \in Instances, MainStep(i) \/ StopCall(i) \/ HeartbeatStep(i) \/ Restart(i),
           NEW j \in Instances, j # i
    PROVE  Apart(j)
<1> USE DEF Types, Apart, bounds, locals, Goto, HbGoto, Fails
<1>1. CASE MainStep(i) \/ StopCall(i)
  BY <1>1 DEF MainStep, AcquireOk, AcquireHeld, AcquireError, CronStart, StoreStarted, InitOk,
              InitFails, StopCall, StopWaited, ClearStarted, CancelHeartbeat, HeartbeatDone, Release
<1>2. CASE HeartbeatStep(i)
  BY <1>2 DEF HeartbeatStep, HbTick, HbCancelled, RenewOk, RenewError, RenewLost, LostWaited,
              LostClearStarted, HbPanic
<1>3. CASE Restart(i)
  BY <1>3 DEF Restart
<1> QED  BY <1>1, <1>2, <1>3

\* Without a fault the steps of Start and Stop keep the lock and guard cron.
LEMMA MainHealthy ==
    ASSUME LeadInv, NEW i \in Instances, MainStep(i) \/ StopCall(i), ~ faulty', NEW j \in Instances
    PROVE  LockKept(j)' /\ CronGuarded(j)'
<1> USE SchedulerAssumption DEF LeadInv, HealthInv, LockKept, CronGuarded, Leading, Token
<1>0. Types /\ Types' /\ (j # i => Apart(j))
  BY MainTypes, StepsApart
<1>1. ~ faulty /\ faults' = faults /\ incarnation' = incarnation
  BY <1>0 DEF MainStep, AcquireOk, AcquireHeld, AcquireError, CronStart, StoreStarted, InitOk,
         InitFails, StopCall, StopWaited, ClearStarted, CancelHeartbeat, HeartbeatDone, Release,
         Fails, bounds
<1>2. LockKept(i) /\ CronGuarded(i) /\ LockKept(j) /\ CronGuarded(j)
  BY <1>1
<1>3. CASE AcquireOk(i)
  <2>1. /\ owner = NoToken /\ owner' = Token(i) /\ ttl' = TTL
        /\ heartbeat' = [heartbeat EXCEPT ![i] = "wait"] /\ since' = [since EXCEPT ![i] = 0]
        /\ cancelled' = [cancelled EXCEPT ![i] = FALSE] /\ main' = [main EXCEPT ![i] = "starting"]
        /\ main[i] = "new" /\ UNCHANGED <<cron, cronStarted>>
    BY <1>3 DEF AcquireOk, Obtain, HbGoto, Goto
  <2>2. NoToken # Token(j)
    BY DEF NoToken
  <2>3. heartbeat[j] \notin {"wait", "renew"}
    BY <1>2, <2>1, <2>2
  <2>4. CASE j = i
    BY <1>0, <1>1, <1>2, <2>1, <2>4 DEF Types
  <2>5. CASE j # i
    BY <1>0, <1>2, <2>3, <2>5 DEF Apart
  <2> QED  BY <2>4, <2>5
<1>4. CASE Release(i)
  <2>1. /\ main[i] = "release" /\ main' = [main EXCEPT ![i] = "exit"]
        /\ UNCHANGED <<heartbeat, cron, cronStarted, cancelled, since>>
        /\ owner = Token(i) \/ UNCHANGED <<owner, ttl>>
    BY <1>4, <1>1 DEF Release, Delete, Goto, Fails, bounds
  <2>2. CASE j = i
    BY <1>0, <1>1, <1>2, <2>1, <2>2 DEF Types
  <2>3. CASE j # i
    <3>1. Token(i) # Token(j)
      BY <2>3
    <3> QED  BY <1>0, <1>2, <2>1, <2>3, <3>1 DEF Apart
  <2> QED  BY <2>2, <2>3
<1>5. CASE ~ AcquireOk(i) /\ ~ Release(i)
  <2>1. UNCHANGED <<owner, ttl, heartbeat, since>>
    BY <1>1, <1>5 DEF MainStep, AcquireHeld, AcquireError, CronStart, StoreStarted, InitOk,
       InitFails, StopCall, StopWaited, ClearStarted, CancelHeartbeat, HeartbeatDone, Fails, bounds
  <2>2. LockKept(j)'
    BY <1>1, <1>2, <2>1
  <2>3. ASSUME j # i PROVE CronGuarded(j)'
    BY <1>0, <1>2, <2>3 DEF Apart
  <2>4. CronGuarded(i)'
    <3> USE <1>0, <1>1, <1>2, <2>1 DEF Types, Goto, locals
    <3>1. CASE AcquireHeld(i) \/ AcquireError(i)
      BY <3>1 DEF AcquireHeld, AcquireError, Fails
    <3>2. CASE CronStart(i)
      BY <3>2 DEF CronStart
    <3>3. CASE StoreStarted(i)
      BY <3>3 DEF StoreStarted
    <3>4. CASE InitOk(i) \/ InitFails(i)
      BY <3>4 DEF InitOk, InitFails
    <3>5. CASE StopCall(i)
      BY <3>5 DEF StopCall
    <3>6. CASE StopWaited(i) \/ ClearStarted(i)
      BY <3>6 DEF StopWaited, ClearStarted
    <3>7. CASE CancelHeartbeat(i) \/ HeartbeatDone(i)
      BY <3>7 DEF CancelHeartbeat, HeartbeatDone
    <3> QED  BY <1>5, <3>1, <3>2, <3>3, <3>4, <3>5, <3>6, <3>7 DEF MainStep
  <2> QED  BY <2>2, <2>3, <2>4
<1> QED  BY <1>3, <1>4, <1>5

\* So do the heartbeats: what they renew is their own.
LEMMA HeartbeatHealthy ==
    ASSUME LeadInv, NEW i \in Instances, HeartbeatStep(i), ~ faulty', NEW j \in Instances
    PROVE  LockKept(j)' /\ CronGuarded(j)'
<1> USE SchedulerAssumption DEF LeadInv, HealthInv, LockKept, CronGuarded, Leading, Token
<1>0. Types /\ Types' /\ (j # i => Apart(j))
  BY OtherTypes, StepsApart
<1>1. ~ faulty /\ incarnation' = incarnation /\ main' = main
  BY <1>0 DEF HeartbeatStep, HbTick, HbCancelled, RenewOk, RenewError, RenewLost, LostWaited,
         LostClearStarted, HbPanic, Fails, bounds
<1>2. LockKept(i) /\ CronGuarded(i) /\ LockKept(j) /\ CronGuarded(j)
  BY <1>1
<1>3. CASE HbTick(i) \/ HbCancelled(i)
  <2>1. UNCHANGED <<owner, ttl>>
    BY <1>3 DEF HbTick, HbCancelled
  <2>2. CASE j # i
    BY <1>0, <1>2, <2>1, <2>2 DEF Apart
  <2>3. CASE j = i /\ HbTick(i)
    <3>1. /\ heartbeat[i] = "wait" /\ since[i] = RenewInterval
          /\ heartbeat' = [heartbeat EXCEPT ![i] = "renew"] /\ UNCHANGED <<cron, cronStarted, cancelled>>
      BY <2>3 DEF HbTick, HbGoto, locals
    <3> QED  BY <1>0, <1>1, <1>2, <2>1, <2>3, <3>1 DEF Types
  <2>4. CASE j = i /\ HbCancelled(i)
    <3>1. /\ cancelled[i]
          /\ heartbeat' = [heartbeat EXCEPT ![i] = "done"] /\ UNCHANGED <<cron, cronStarted, cancelled>>
      BY <2>4 DEF HbCancelled, HbGoto, locals
    <3> QED  BY <1>0, <1>1, <1>2, <2>1, <2>4, <3>1 DEF Types
  <2> QED  BY <1>3, <2>2, <2>3, <2>4
<1>4. CASE RenewOk(i)
  <2>1. /\ heartbeat[i] = "renew" /\ owner = Token(i) /\ ttl' = TTL /\ owner' = owner
        /\ heartbeat' = [heartbeat EXCEPT ![i] = "wait"]
        /\ UNCHANGED <<cron, cronStarted, cancelled, since>>
    BY <1>4 DEF RenewOk, Refresh, HbGoto, locals
  <2>2. CASE j = i
    BY <1>0, <1>1, <1>2, <2>1, <2>2 DEF Types
  <2>3. CASE j # i
    <3>1. Token(i) # Token(j)
      BY <2>3
    <3> QED  BY <1>0, <1>2, <2>1, <2>3, <3>1 DEF Apart
  <2> QED  BY <2>2, <2>3
<1>5. ~ (RenewError(i) \/ RenewLost(i) \/ LostWaited(i) \/ LostClearStarted(i) \/ HbPanic(i))
  BY <1>2 DEF RenewError, RenewLost, LostWaited, LostClearStarted, HbPanic, Fails
<1> QED  BY <1>3, <1>4, <1>5 DEF HeartbeatStep

\* A process that is started anew has another token, and no heartbeat.
LEMMA RestartHealthy ==
    ASSUME LeadInv, NEW i \in Instances, Restart(i), ~ faulty', NEW j \in Instances
    PROVE  LockKept(j)' /\ CronGuarded(j)'
<1> USE DEF LeadInv, HealthInv, LockKept, CronGuarded, Leading, Token
<1>0. Types /\ (j # i => Apart(j))
  BY StepsApart
<1>1. ~ faulty /\ UNCHANGED <<owner, ttl>>
  BY DEF Restart
<1>2. CASE j = i
  BY <1>0, <1>2 DEF Types, Restart, Goto, HbGoto
<1>3. CASE j # i
  BY <1>0, <1>1, <1>3 DEF Apart
<1> QED  BY <1>2, <1>3

\* Unless a heartbeat is late, time does not run out on a lock that is renewed:
\* the interval of the heartbeats is shorter than its time to live.
LEMMA TickHealthy ==
    ASSUME LeadInv, Tick, ~ faulty', NEW j \in Instances
    PROVE  LockKept(j)' /\ CronGuarded(j)'
<1> USE SchedulerAssumption
<1>0. Types
  BY DEF LeadInv
<1>1. ~ faulty /\ ~ HeartbeatBusy(j)
  BY DEF Tick
<1>2. LockKept(j) /\ CronGuarded(j)
  BY <1>1 DEF LeadInv, HealthInv
<1>3. /\ UNCHANGED <<main, heartbeat, cron, cronStarted, cancelled, incarnation>>
      /\ ttl' = (IF ttl > 0 THEN ttl - 1 ELSE 0) /\ owner' = (IF ttl > 1 THEN owner ELSE NoToken)
      /\ since'[j] = IF heartbeat[j] \in Alive /\ since[j] < RenewInterval THEN since[j] + 1
                                                                      ELSE since[j]
  BY DEF Tick, locals
<1>4. CronGuarded(j)'
  BY <1>2, <1>3 DEF CronGuarded
<1>5. CASE heartbeat[j] = "wait"
  <2>1. since[j] \in 0 .. RenewInterval /\ since[j] # RenewInterval
    BY <1>0, <1>1, <1>5 DEF Types, HeartbeatBusy
  <2>2. ttl \in Nat /\ ttl + since[j] >= TTL /\ owner = Token(j)
    BY <1>0, <1>2, <1>5 DEF Types, LockKept
  <2>3. ttl > 1
    BY <2>1, <2>2
  <2>4. owner' = owner /\ ttl' = ttl - 1
    BY <1>3, <2>2, <2>3
  <2>5. since'[j] = since[j] + 1
    <3>1. heartbeat[j] \in Alive /\ since[j] < RenewInterval
      BY <1>5, <2>1 DEF Alive
    <3> QED  BY <1>3, <3>1
  <2> QED  BY <1>3, <1>4, <1>5, <2>1, <2>2, <2>4, <2>5 DEF LockKept, Token
<1>6. CASE heartbeat[j] # "wait"
  BY <1>1, <1>3, <1>4, <1>6 DEF LockKept, HeartbeatBusy
<1> QED  BY <1>5, <1>6

\* Every step keeps the invariant.
LEMMA LeadInvStep ==
    ASSUME LeadInv, [Next]_vars
    PROVE  LeadInv'
<1>1. Types'
  <2>1. CASE UNCHANGED vars
    BY <2>1 DEF vars, LeadInv, Types
  <2> QED  BY <2>1, MainTypes, OtherTypes DEF LeadInv, Next
<1>2. ASSUME ~ faulty', NEW j \in Instances PROVE LockKept(j)' /\ CronGuarded(j)'
  <2>1. CASE UNCHANGED vars
    <3>1. LockKept(j) /\ CronGuarded(j)
      BY <1>2, <2>1 DEF LeadInv, HealthInv, vars
    <3> QED  BY <2>1, <3>1 DEF vars, LockKept, CronGuarded, Token
  <2> QED  BY <1>2, <2>1, MainHealthy, HeartbeatHealthy, RestartHealthy, TickHealthy DEF Next
<1> QED  BY <1>1, <1>2 DEF LeadInv, HealthInv

----------------------------------------------------------------------------
\* In every behaviour the invariant holds.
THEOREM LeadInvariant == Spec => []LeadInv
<1> QED  BY LeadInvInit, LeadInvStep, PTL DEF Spec

\* As long as Redis answers and no heartbeat is late or panics, at most one process
\* runs cron (scheduler.go 71-164, redislock.go 53-101).
THEOREM OneLeader == Spec => []LeaderUnlessFaults
<1>1. ASSUME LeadInv, ~ faulty, NEW i \in Running, NEW j \in Running PROVE i = j
  <2>1. heartbeat[i] \in {"wait", "renew"} /\ heartbeat[j] \in {"wait", "renew"}
    BY <1>1 DEF LeadInv, HealthInv, CronGuarded, Running, Leading
  <2>2. owner = Token(i) /\ owner = Token(j)
    BY <1>1, <2>1 DEF LeadInv, HealthInv, LockKept, Running
  <2> QED  BY <2>2 DEF Token
<1>2. LeadInv => LeaderUnlessFaults
  BY <1>1 DEF LeaderUnlessFaults, AtMostOneCron
<1> QED  BY <1>2, LeadInvariant, PTL

----------------------------------------------------------------------------
\* A start that takes no time has its heartbeat before it, and a heartbeat that
\* found the lock lost has stopped cron for good.
LostInv ==
    \A i \in Instances :
        /\ main[i] = "starting" => heartbeat[i] = "wait" /\ since[i] = 0 /\ ~ cancelled[i]
        /\ heartbeat[i] \in {"lostWait", "lostFlag"} => ~ cron[i]
        /\ heartbeat[i] = "done" /\ ~ cancelled[i] => ~ cron[i]

\* Every step keeps it.
LEMMA LostInvStep ==
    ASSUME PromptStart, Types, LostInv, [Next]_vars
    PROVE  LostInv'
<1> USE SchedulerAssumption DEF Types, LostInv
<1>1. ASSUME NEW i \in Instances, MainStep(i) \/ StopCall(i) \/ HeartbeatStep(i) \/ Restart(i)
      PROVE  LostInv'
  <2>1. ASSUME NEW j \in Instances, j # i PROVE Apart(j)
    BY <1>1, <2>1, StepsApart
  <2>2. /\ main'[i] = "starting" => heartbeat'[i] = "wait" /\ since'[i] = 0 /\ ~ cancelled'[i]
        /\ heartbeat'[i] \in {"lostWait", "lostFlag"} => ~ cron'[i]
        /\ heartbeat'[i] = "done" /\ ~ cancelled'[i] => ~ cron'[i]
    <3> USE DEF Goto, HbGoto, locals
    <3>1. CASE AcquireOk(i) \/ AcquireHeld(i) \/ AcquireError(i)
      BY <3>1 DEF AcquireOk, AcquireHeld, AcquireError
    <3>2. CASE CronStart(i) \/ StoreStarted(i)
      BY <3>2 DEF CronStart, StoreStarted
    <3>3. CASE InitOk(i) \/ InitFails(i) \/ StopCall(i)
      BY <3>3 DEF InitOk, InitFails, StopCall
    <3>4. CASE StopWaited(i) \/ ClearStarted(i)
      BY <3>4 DEF StopWaited, ClearStarted
    <3>5. CASE CancelHeartbeat(i) \/ HeartbeatDone(i) \/ Release(i)
      BY <3>5 DEF CancelHeartbeat, HeartbeatDone, Release
    <3>6. CASE HbTick(i) \/ HbCancelled(i)
      BY <3>6 DEF HbTick, HbCancelled
    <3>7. CASE RenewOk(i) \/ RenewError(i) \/ HbPanic(i)
      BY <3>7 DEF RenewOk, RenewError, HbPanic
    <3>8. CASE RenewLost(i) \/ LostWaited(i) \/ LostClearStarted(i)
      BY <3>8 DEF RenewLost, LostWaited, LostClearStarted
    <3>9. CASE Restart(i)
      BY <3>9 DEF Restart
    <3> QED  BY <1>1, <3>1, <3>2, <3>3, <3>4, <3>5, <3>6, <3>7, <3>8, <3>9
             DEF MainStep, HeartbeatStep
  <2> QED  BY <2>1, <2>2 DEF Apart
<1>2. CASE Tick
  <2>1. \A i \in Instances : main[i] # "starting"
    BY <1>2 DEF Tick, TickAllowed
  <2>2. UNCHANGED <<main, heartbeat, cron, cancelled>>
    BY <1>2 DEF Tick, locals
  <2> QED  BY <2>1, <2>2
<1>3. CASE UNCHANGED vars
  BY <1>3 DEF vars
<1> QED  BY <1>1, <1>2, <1>3 DEF Next

\* When a heartbeat has learned that the lock is lost and ended, cron is off, if the
\* process is not suspended for the life of a lock between startHeartbeat and
\* cron.Start (scheduler.go 84-133).
THEOREM LostLockStops ==
    ASSUME PromptStart
    PROVE  Spec => []LostLockStopsCron
<1>1. Init => LostInv
  BY DEF Init, LostInv
<1>2. LeadInv /\ LostInv /\ [Next]_vars => LostInv'
  BY LostInvStep DEF LeadInv
<1>3. LostInv => LostLockStopsCron
  BY DEF LostInv, LostLockStopsCron
<1> QED  BY <1>1, <1>2, <1>3, LeadInvariant, PTL DEF Spec

----------------------------------------------------------------------------
\* A process that lost the lock leaves the one of its successor alone, whatever it
\* does next (redislock.go 77-101).
THEOREM OthersKept == Spec => OthersLockKept
<1> DEFINE Kept(i) ==
        (main[i] # main'[i] \/ heartbeat[i] # heartbeat'[i]) /\ owner # NoToken /\ owner # Token(i)
            => owner' = owner /\ ttl' = ttl
<1>1. ASSUME Types, NEW i \in Instances, NEW j \in Instances,
             MainStep(i) \/ StopCall(i) \/ HeartbeatStep(i) \/ Restart(i)
      PROVE  Kept(j)
  <2>1. CASE j # i
    BY <1>1, <2>1, StepsApart DEF Apart
  <2>2. CASE j = i
    <3>1. CASE MainStep(i) \/ StopCall(i)
      BY <2>2, <3>1 DEF MainStep, AcquireOk, AcquireHeld, AcquireError, CronStart, StoreStarted,
         InitOk, InitFails, StopCall, StopWaited, ClearStarted, CancelHeartbeat, HeartbeatDone,
         Release, Fails, Obtain, Delete
    <3>2. CASE HeartbeatStep(i) \/ Restart(i)
      BY <2>2, <3>2 DEF HeartbeatStep, HbTick, HbCancelled, RenewOk, RenewError, RenewLost,
         LostWaited, LostClearStarted, HbPanic, Fails, Refresh, Restart
    <3> QED  BY <1>1, <3>1, <3>2
  <2> QED  BY <2>1, <2>2
<1>2. ASSUME NEW j \in Instances, Tick \/ UNCHANGED vars PROVE Kept(j)
  BY <1>2 DEF Tick, vars
<1>3. LeadInv /\ [Next]_vars => [\A i \in Instances : Kept(i)]_vars
  BY <1>1, <1>2 DEF Next, LeadInv
<1> QED  BY <1>3, LeadInvariant, PTL DEF Spec, OthersLockKept
==============================================================================
