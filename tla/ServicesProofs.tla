--------------------------- MODULE ServicesProofs ---------------------------
(***************************************************************************)
(* Proofs about the smaller components, each by itself: the lock, the      *)
(* goroutine limiter, the captcha, the migrations, the way of a request to *)
(* its handler; for every value of their constants.                        *)
(***************************************************************************)
EXTENDS Locker, GoLimiter, Captcha, Migrate, HTTPEdge, TLAPS, FiniteSetTheorems,
        WellFoundedInduction

(***************************************************************************)
(* The lock, for any set of callers, time to live, number of calls and     *)
(* length of time.                                                         *)
(***************************************************************************)

\* The types the proofs need; the bounds of TLC's instances do not matter.
LockTypes ==
    /\ lockClock \in Nat
    /\ entry.expireAt \in Nat
    /\ caller \in [Lockers -> [at : {"idle", "calling", "holding"}, now : Nat, calls : Nat,
                               until : Nat]]

\* The time a call was entered at has passed when its expiry is judged by it.
ClockInv == \A p \in Lockers : caller[p].now <= lockClock

\* The entry is that of any caller that is within its time to live.
Valid(p) == caller[p].at = "holding" /\ lockClock < caller[p].until
HolderInv ==
    \A p \in Lockers : Valid(p) => entry.token = Token(p) /\ entry.expireAt = caller[p].until

LockInv == LockTypes /\ ClockInv /\ HolderInv

----------------------------------------------------------------------------
\* The initial states satisfy the invariant.
LEMMA LockInvInit == LockInit => LockInv
<1> SUFFICES ASSUME LockInit PROVE LockInv
  OBVIOUS
<1>1. entry.expireAt = 0
  BY DEF LockInit, NoEntry
<1>2. /\ lockClock = 0
      /\ caller = [p \in Lockers |-> [at |-> "idle", now |-> 0, calls |-> 0, until |-> 0]]
  BY DEF LockInit
<1>3. LockTypes
  BY <1>1, <1>2 DEF LockTypes
<1> QED  BY <1>2, <1>3 DEF LockInv, ClockInv, HolderInv, Valid

\* Whoever finds the key free finds nobody within its time to live: a stale
\* time is never later than the clock.
LEMMA FreeMeansExpired ==
    ASSUME LockInv, NEW p \in Lockers, ~ Held(TimeOf(p)) \/ ~ Held(lockClock)
    PROVE  \A q \in Lockers : ~ Valid(q)
<1> SUFFICES ASSUME NEW q \in Lockers, Valid(q) PROVE FALSE
  OBVIOUS
<1>1. entry.expireAt = caller[q].until /\ lockClock < entry.expireAt
  BY DEF LockInv, HolderInv, Valid
<1>2. entry # NoEntry
  BY <1>1 DEF NoEntry, LockInv, LockTypes
<1>3. TimeOf(p) \in Nat /\ TimeOf(p) <= lockClock
  BY DEF TimeOf, LockInv, LockTypes, ClockInv
<1> QED  BY <1>1, <1>2, <1>3 DEF Held, LockInv, LockTypes

\* Every step keeps the types and the order of times.
LEMMA LockTypesStep ==
    ASSUME LockInv, [LockNext]_lockVars
    PROVE  LockTypes' /\ ClockInv'
<1> USE TTLPositive DEF LockInv, LockTypes, ClockInv
<1>1. CASE LockTick
  BY <1>1 DEF LockTick
<1>2. ASSUME NEW p \in Lockers, Call(p) PROVE LockTypes' /\ ClockInv'
  BY <1>2 DEF Call, Becomes, Becomes
<1>3. ASSUME NEW p \in Lockers, Obtain(p) PROVE LockTypes' /\ ClockInv'
  BY <1>3 DEF Obtain, Becomes, Token, TimeOf
<1>4. ASSUME NEW p \in Lockers, CallFails(p) PROVE LockTypes' /\ ClockInv'
  BY <1>4 DEF CallFails, Returns, Becomes, Token
<1>5. ASSUME NEW p \in Lockers, NotObtained(p) \/ Release(p) \/ ReleaseFails(p)
      PROVE  LockTypes' /\ ClockInv'
  <2>1. lockClock' = lockClock /\ Returns(p) /\ (entry' = entry \/ entry' = NoEntry)
    BY <1>5 DEF NotObtained, Release, ReleaseFails
  <2>2. entry'.expireAt \in Nat
    BY <2>1 DEF NoEntry
  <2> QED  BY <2>1, <2>2 DEF Returns, Becomes
<1>6. CASE UNCHANGED lockVars
  BY <1>6 DEF lockVars
<1> QED  BY <1>1, <1>2, <1>3, <1>4, <1>5, <1>6 DEF LockNext

\* Every step keeps the entry with the caller that is within its time.
LEMMA HolderStep ==
    ASSUME LockInv, [LockNext]_lockVars
    PROVE  HolderInv'
<1> USE TTLPositive DEF LockInv, LockTypes
<1>1. CASE LockTick
  BY <1>1 DEF LockTick, HolderInv, Valid, Token
<1>2. ASSUME NEW p \in Lockers, Call(p) PROVE HolderInv'
  BY <1>2 DEF Call, Becomes, HolderInv, Valid, Token
<1>3. ASSUME NEW p \in Lockers, Obtain(p) PROVE HolderInv'
  <2>1. \A q \in Lockers : ~ Valid(q)
    BY <1>3, FreeMeansExpired DEF Obtain
  <2> QED  BY <1>3, <2>1 DEF Obtain, Becomes, HolderInv, Valid, Token
<1>4. ASSUME NEW p \in Lockers, CallFails(p) PROVE HolderInv'
  <2>1. CASE entry' = entry
    BY <1>4, <2>1 DEF CallFails, Returns, Becomes, HolderInv, Valid, Token
  <2>2. CASE entry' # entry
    <3>1. \A q \in Lockers : ~ Valid(q)
      BY <1>4, <2>2, FreeMeansExpired DEF CallFails
    <3> QED  BY <1>4, <3>1 DEF CallFails, Returns, Becomes, HolderInv, Valid
  <2> QED  BY <2>1, <2>2
<1>5. ASSUME NEW p \in Lockers, NotObtained(p) \/ ReleaseFails(p) PROVE HolderInv'
  BY <1>5 DEF NotObtained, ReleaseFails, Returns, Becomes, HolderInv, Valid, Token
<1>6. ASSUME NEW p \in Lockers, Release(p) PROVE HolderInv'
  <2>1. ASSUME NEW q \in Lockers, q # p, Valid(q) PROVE entry' = entry
    BY <1>6, <2>1 DEF Release, HolderInv, Token
  <2>2. ASSUME NEW q \in Lockers, Valid(q)' PROVE q # p /\ Valid(q) /\ UNCHANGED caller[q]
    BY <1>6, <2>2 DEF Release, Returns, Becomes, Valid
  <2> QED  BY <2>1, <2>2 DEF HolderInv, Token
<1>7. CASE UNCHANGED lockVars
  BY <1>7 DEF lockVars, HolderInv, Valid, Token
<1> QED  BY <1>1, <1>2, <1>3, <1>4, <1>5, <1>6, <1>7 DEF LockNext

\* The inductive invariant of the lock holds in every reachable state.
THEOREM LockInvariant == LockSpec => []LockInv
<1>1. LockInit => LockInv
  BY LockInvInit
<1>2. LockInv /\ [LockNext]_lockVars => LockInv'
  BY LockTypesStep, HolderStep DEF LockInv
<1> QED  BY <1>1, <1>2, PTL DEF LockSpec

\* memory.go 31-81, redis.go 25-55: at most one caller is within the time to
\* live of a lock it was given, whoever judges by an old time or releases late.
THEOREM OneHolderHolds == LockSpec => []OneHolder
<1>1. LockInv => OneHolder
  <2> SUFFICES ASSUME LockInv PROVE OneHolder
    OBVIOUS
  <2> DEFINE H == {p \in Lockers : caller[p].at = "holding" /\ lockClock < caller[p].until}
  <2>1. \A p, q \in H : p = q
    BY DEF LockInv, HolderInv, Valid, Token
  <2>2. CASE H = {}
    BY <2>2, FS_EmptySet DEF OneHolder
  <2>3. CASE H # {}
    <3>1. PICK p \in H : H = {p}
      BY <2>1, <2>3
    <3>2. Cardinality(H) = 1
      BY <3>1, FS_Singleton
    <3> QED  BY <3>2 DEF OneHolder
  <2> QED  BY <2>2, <2>3
<1> QED  BY <1>1, LockInvariant, PTL

(***************************************************************************)
(* The goroutine limiter, for any finite set of tasks, any limit and any   *)
(* number of retries and resizes.                                          *)
(***************************************************************************)

\* Goroutines that have a signal in the semaphore.
Holders == {t \in Tasks : task[t] \in {"running", "ended", "receiving"}}

GoTypes ==
    /\ maxGoroutines \in Nat /\ semaphore \in Nat
    /\ mu \in [readers : SUBSET Tasks, writer : {"none", "waiting", "migrating"}, size : Nat]
    /\ task \in [Tasks -> {"new", "called", "sending", "running", "ended", "receiving", "done"}]

\* The lock excludes: who sends or receives holds it for reading, and while a
\* resize has it nobody does.
GoLockInv ==
    /\ \A t \in Tasks : task[t] \in {"sending", "receiving"} => t \in mu.readers
    /\ mu.writer = "migrating" => mu.readers = {} /\ maxGoroutines = mu.size

SlotInv ==
    /\ semaphore = Cardinality(Holders)
    /\ mu.writer # "migrating" => semaphore <= maxGoroutines

GoInv == GoTypes /\ GoLockInv /\ SlotInv

----------------------------------------------------------------------------
\* The holders are a finite set, whose cardinality is a number.
LEMMA HoldersFinite == IsFiniteSet(Holders) /\ Cardinality(Holders) \in Nat
<1>1. Holders \subseteq Tasks
  BY DEF Holders
<1> QED  BY <1>1, GoAssumption, FS_Subset, FS_CardinalityType

\* The initial states satisfy the invariant.
LEMMA GoInvInit == GoInit => GoInv
<1> SUFFICES ASSUME GoInit PROVE GoInv
  OBVIOUS
<1>1. Holders = {}
  BY DEF GoInit, Holders
<1>2. GoTypes /\ GoLockInv
  BY GoAssumption DEF GoInit, GoTypes, GoLockInv
<1> QED  BY <1>1, <1>2, GoAssumption, FS_EmptySet DEF GoInit, GoInv, SlotInv

\* Every step keeps the types and the exclusion.
LEMMA GoLockStep ==
    ASSUME GoInv, [GoNext]_goVars
    PROVE  GoTypes' /\ GoLockInv'
<1> USE GoAssumption DEF GoInv, GoTypes, GoLockInv
<1>1. ASSUME NEW t \in Tasks, GoCalled(t) \/ Retry(t) \/ Ends(t) PROVE GoTypes' /\ GoLockInv'
  BY <1>1 DEF GoCalled, Retry, Ends, Moves
<1>2. ASSUME NEW t \in Tasks, GoLocks(t) \/ DeferLocks(t) PROVE GoTypes' /\ GoLockInv'
  BY <1>2 DEF GoLocks, DeferLocks, Moves, RLock
<1>3. ASSUME NEW t \in Tasks, GoSends(t) \/ DeferReceives(t) PROVE GoTypes' /\ GoLockInv'
  BY <1>3 DEF GoSends, DeferReceives, Moves, RUnlock
<1>4. ASSUME NEW n \in 1 .. Limit, Resize(n) PROVE GoTypes' /\ GoLockInv'
  <2>1. /\ mu'.readers = mu.readers /\ mu'.writer = "waiting" /\ mu'.size = n
        /\ mu' \in [readers : SUBSET Tasks, writer : {"none", "waiting", "migrating"}, size : Nat]
    BY <1>4 DEF Resize
  <2> QED  BY <1>4, <2>1 DEF Resize
<1>5. CASE ResizeLocks \/ Migrate
  BY <1>5 DEF ResizeLocks, Migrate
<1>6. CASE Wait \/ WaitReturns \/ UNCHANGED goVars
  BY <1>6 DEF Wait, WaitReturns, goVars
<1> QED  BY <1>1, <1>2, <1>3, <1>4, <1>5, <1>6 DEF GoNext, TaskStep

\* Every step keeps the semaphore and its holders together.
LEMMA SlotStep ==
    ASSUME GoInv, [GoNext]_goVars
    PROVE  SlotInv'
<1> USE GoAssumption DEF GoInv, GoTypes, SlotInv
<1>1. ASSUME NEW t \in Tasks, GoCalled(t) \/ Retry(t) \/ Ends(t) \/ GoLocks(t) \/ DeferLocks(t)
      PROVE  SlotInv'
  <2>1. Holders' = Holders
    BY <1>1 DEF GoCalled, Retry, Ends, GoLocks, DeferLocks, Moves, Holders
  <2>2. UNCHANGED <<semaphore, maxGoroutines, mu.writer>>
    BY <1>1 DEF GoCalled, Retry, Ends, GoLocks, DeferLocks, RLock
  <2> QED  BY <2>1, <2>2
<1>2. ASSUME NEW t \in Tasks, GoSends(t) PROVE SlotInv'
  <2>1. t \notin Holders /\ Holders' = Holders \cup {t}
    BY <1>2 DEF GoSends, Moves, Holders
  <2>2. Cardinality(Holders') = Cardinality(Holders) + 1
    BY <2>1, HoldersFinite, FS_AddElement
  <2>3. semaphore < maxGoroutines /\ semaphore' = semaphore + 1 /\ maxGoroutines' = maxGoroutines
    BY <1>2 DEF GoSends
  <2> QED  BY <2>2, <2>3
<1>3. ASSUME NEW t \in Tasks, DeferReceives(t) PROVE SlotInv'
  <2>1. t \in Holders /\ Holders' = Holders \ {t}
    BY <1>3 DEF DeferReceives, Moves, Holders
  <2>2. Cardinality(Holders') = Cardinality(Holders) - 1
    BY <2>1, HoldersFinite, FS_RemoveElement
  <2>3. semaphore' = semaphore - 1 /\ maxGoroutines' = maxGoroutines /\ mu'.writer = mu.writer
    BY <1>3 DEF DeferReceives, RUnlock
  <2> QED  BY <2>2, <2>3
<1>4. ASSUME NEW n \in 1 .. Limit, Resize(n) PROVE SlotInv'
  BY <1>4 DEF Resize, Holders
<1>5. CASE ResizeLocks
  BY <1>5 DEF ResizeLocks, Holders
<1>6. CASE Migrate
  BY <1>6 DEF Migrate, Holders, GoLockInv
<1>7. CASE Wait \/ WaitReturns \/ UNCHANGED goVars
  BY <1>7 DEF Wait, WaitReturns, goVars, Holders
<1> QED  BY <1>1, <1>2, <1>3, <1>4, <1>5, <1>6, <1>7 DEF GoNext, TaskStep

\* The inductive invariant of the limiter holds in every reachable state.
THEOREM GoInvariant == GoSpec => []GoInv
<1>1. GoInit => GoInv
  BY GoInvInit
<1>2. GoInv /\ [GoNext]_goVars => GoInv'
  BY GoLockStep, SlotStep DEF GoInv
<1> QED  BY <1>1, <1>2, PTL DEF GoSpec

\* goroutine.go 32-86: the semaphore counts the goroutines that run, and stays
\* within the limit, over any number of resizes in the middle of them.
THEOREM SlotsExact == GoSpec => []SlotsMatch
<1>1. GoInv => SlotsMatch
  BY DEF GoInv, SlotInv, SlotsMatch, Holders
<1> QED  BY <1>1, GoInvariant, PTL

(***************************************************************************)
(* The captcha, for any instances and any number of verifications.         *)
(***************************************************************************)

Calls == [at : {"before", "probe", "reget", "delete", "done"},
          inst : Instances \cup {CHOOSE i \in Instances : TRUE},
          right : BOOLEAN, after : BOOLEAN, result : {"", "ok", "not_found", "not_matched"}]

CaptchaTypes ==
    /\ driver \in {"memory", "redis", "multi"}
    /\ l1 \subseteq Instances /\ verify \in [Verifiers -> Calls]
    /\ image \in BOOLEAN /\ l2 \in BOOLEAN /\ failed \in BOOLEAN

\* The answer is nowhere.
Gone == l1 = {} /\ ~ l2

\* With one cache that does not fail: nothing puts the answer back, it is at one
\* instance at most, that of every verification that found it, and when one has
\* ended it is gone for those that are called later.
SpentInv ==
    driver # "multi" /\ ~ failed =>
        /\ warming = {}
        /\ driver = "redis" => l1 = {}
        /\ driver = "memory" => ~ l2
        /\ ~ image => Gone /\ \A v \in Verifiers : verify[v].at = "before"
        /\ \A i, j \in l1 : i = j
        /\ \A v \in Verifiers : verify[v].at \in {"reget", "delete"} => l1 \subseteq {verify[v].inst}
        /\ Spent => Gone
        /\ \A v \in Verifiers : verify[v].at \in {"before", "probe"} => verify[v].result = ""
        /\ \A v \in Verifiers : verify[v].after =>
             /\ Gone /\ verify[v].at \in {"probe", "done"} /\ verify[v].result \in {"", "not_found"}

CaptchaInv == CaptchaTypes /\ SpentInv

----------------------------------------------------------------------------
\* The initial states satisfy the invariant.
LEMMA CaptchaInvInit == CaptchaInit => CaptchaInv
<1> SUFFICES ASSUME CaptchaInit PROVE CaptchaInv
  OBVIOUS
<1>1. CaptchaTypes
  BY DEF CaptchaInit, CaptchaTypes, Calls
<1>2. SpentInv
  BY DEF CaptchaInit, SpentInv, Gone, Spent
<1> QED  BY <1>1, <1>2 DEF CaptchaInv

\* What Go2 makes of a call.
LEMMA Go2Is ==
    ASSUME CaptchaTypes, NEW v \in Verifiers,
           NEW at \in {"before", "probe", "reget", "delete", "done"},
           NEW result \in {"", "ok", "not_found", "not_matched"}, Go2(v, at, result)
    PROVE  /\ verify' \in [Verifiers -> Calls]
           /\ \A w \in Verifiers \ {v} : verify'[w] = verify[w]
           /\ verify'[v].at = at /\ verify'[v].result = result
           /\ verify'[v].inst = verify[v].inst /\ verify'[v].after = verify[v].after
<1>1. verify[v] \in Calls
  BY DEF CaptchaTypes
<1>2. verify' = [verify EXCEPT ![v] = [[verify[v] EXCEPT !.at = at] EXCEPT !.result = result]]
  BY DEF Go2, CaptchaTypes, Calls
<1>3. [[verify[v] EXCEPT !.at = at] EXCEPT !.result = result] \in Calls
  BY <1>1 DEF Calls
<1> QED  BY <1>1, <1>2, <1>3 DEF CaptchaTypes, Calls

\* The steps of the world and of Generate.
LEMMA CaptchaWorldStep ==
    ASSUME CaptchaInv,
           Expire2 \/ \E i \in Instances : Generate(i) \/ WarmUp(i) \/ Expire1(i)
    PROVE  CaptchaInv'
<1> USE DEF CaptchaInv
<1>1. CASE Expire2
  BY <1>1 DEF Expire2, CaptchaTypes, SpentInv, Gone, Spent
<1>2. ASSUME NEW i \in Instances, Expire1(i) PROVE CaptchaInv'
  <2>1. l1' = l1 \ {i} /\ UNCHANGED <<driver, l2, warming, image, verify, failed>>
    BY <1>2 DEF Expire1
  <2> QED  BY <2>1 DEF CaptchaTypes, SpentInv, Gone, Spent
<1>3. ASSUME NEW i \in Instances, Generate(i) PROVE CaptchaInv'
  <2>1. CaptchaTypes'
    BY <1>3 DEF Generate, CaptchaTypes
  <2>2. SpentInv'
    BY <1>3 DEF Generate, CaptchaTypes, SpentInv, Gone, Spent
  <2> QED  BY <2>1, <2>2
<1>4. ASSUME NEW i \in Instances, WarmUp(i) PROVE CaptchaInv'
  <2>1. CaptchaTypes'
    BY <1>4 DEF WarmUp, CaptchaTypes
  <2>2. SpentInv'
    BY <1>4 DEF WarmUp, SpentInv
  <2> QED  BY <2>1, <2>2
<1> QED  BY <1>1, <1>2, <1>3, <1>4

\* A verification is called; who is called after one has ended finds nothing.
LEMMA VerifyCallStep ==
    ASSUME CaptchaInv, NEW v \in Verifiers, NEW i \in Instances, NEW right \in BOOLEAN,
           VerifyCall(v, i, right)
    PROVE  CaptchaInv'
<1> USE DEF CaptchaInv
<1> DEFINE new == [at |-> "probe", inst |-> i, right |-> right, after |-> Spent, result |-> ""]
<1>1. Spent \in BOOLEAN
  BY Zenon DEF Spent
<1>2. new \in Calls
  BY <1>1 DEF Calls
<1>3. /\ verify' = [verify EXCEPT ![v] = new] /\ image /\ verify[v].at = "before"
      /\ UNCHANGED <<driver, l1, l2, warming, image, failed>>
  BY DEF VerifyCall
<1>4. CaptchaTypes'
  BY <1>2, <1>3 DEF CaptchaTypes
<1>5. /\ \A w \in Verifiers \ {v} : verify'[w] = verify[w]
      /\ verify'[v].at = "probe" /\ verify'[v].result = "" /\ verify'[v].after = Spent
  BY <1>3 DEF CaptchaTypes
<1>6. Spent' = Spent
  BY <1>3, <1>5 DEF Spent
<1>7. SpentInv'
  BY <1>3, <1>5, <1>6 DEF SpentInv, Gone
<1> QED  BY <1>4, <1>7

\* A verification reads, reads again, deletes, or meets a failure.
LEMMA VerifyStep ==
    ASSUME CaptchaInv, NEW v \in Verifiers, Probe(v) \/ Reget(v) \/ Delete(v) \/ CacheFault(v)
    PROVE  CaptchaInv'
<1> USE DEF CaptchaInv
<1>1. verify[v] \in Calls
  BY DEF CaptchaTypes
<1>2. CASE Probe(v)
  <2>1. PICK at \in {"reget", "done"}, result \in {"ok", "not_matched", "not_found"} :
          /\ Go2(v, at, result) /\ verify[v].at = "probe"
          /\ (at = "reget" => CacheHas(verify[v].inst))
          /\ (at = "done" => result = "not_found")
          /\ UNCHANGED <<driver, l1, l2, image, failed>>
    BY <1>2 DEF Probe
  <2>2. CaptchaTypes'
    BY <2>1, Go2Is DEF CaptchaTypes
  <2>3. driver # "multi" => warming' = warming
    BY <1>2 DEF Probe, Warms
  <2>4. SpentInv'
    <3> SUFFICES ASSUME driver # "multi", ~ failed PROVE SpentInv'
      BY <2>1 DEF SpentInv
    <3>1. at = "reget" => l1 \subseteq {verify[v].inst} /\ ~ Gone
      BY <2>1 DEF CacheHas, Has1, Has2, SpentInv, Gone, CaptchaTypes
    <3>2. Spent' => Spent
      BY <2>1, Go2Is DEF Spent
    <3>3. verify[v].after => at = "done"
      BY <3>1 DEF SpentInv
    <3>4. /\ \A w \in Verifiers \ {v} : verify'[w] = verify[w]
          /\ verify'[v].at = at /\ verify'[v].result = result
          /\ verify'[v].inst = verify[v].inst /\ verify'[v].after = verify[v].after
      BY <2>1, Go2Is
    <3> QED  BY <2>1, <2>3, <3>1, <3>2, <3>3, <3>4 DEF SpentInv, Gone
  <2> QED  BY <2>2, <2>4
<1>3. CASE Reget(v)
  <2>1. PICK at \in {"delete", "done"} :
          /\ Go2(v, at, verify[v].result) /\ verify[v].at = "reget"
          /\ (at = "done" => ~ CacheHas(verify[v].inst))
          /\ UNCHANGED <<driver, l1, l2, image, failed>>
    BY <1>3 DEF Reget
  <2>2. verify[v].result \in {"", "ok", "not_found", "not_matched"}
    BY <1>1 DEF Calls
  <2>3. CaptchaTypes'
    BY <2>1, <2>2, Go2Is DEF CaptchaTypes
  <2>4. driver # "multi" => warming' = warming
    BY <1>3 DEF Reget, Warms
  <2>5. SpentInv'
    <3> SUFFICES ASSUME driver # "multi", ~ failed PROVE SpentInv'
      BY <2>1 DEF SpentInv
    <3>1. at = "done" => Gone
      BY <2>1 DEF CacheHas, Has1, Has2, SpentInv, Gone, CaptchaTypes
    <3>2. /\ \A w \in Verifiers \ {v} : verify'[w] = verify[w]
          /\ verify'[v].at = at /\ verify'[v].result = verify[v].result
          /\ verify'[v].inst = verify[v].inst /\ verify'[v].after = verify[v].after
      BY <2>1, <2>2, Go2Is
    <3>3. Spent' => Gone
      BY <2>1, <3>1, <3>2 DEF Spent, SpentInv
    <3> QED  BY <2>1, <2>4, <3>1, <3>2, <3>3 DEF SpentInv, Gone
  <2> QED  BY <2>3, <2>5
<1>4. CASE Delete(v)
  <2>1. /\ Go2(v, "done", verify[v].result) /\ verify[v].at = "delete"
        /\ l1' = IF driver = "redis" THEN l1 ELSE l1 \ {verify[v].inst}
        /\ l2' = (driver = "memory" /\ l2)
        /\ UNCHANGED <<driver, warming, image, failed>>
    BY <1>4 DEF Delete
  <2>2. verify[v].result \in {"", "ok", "not_found", "not_matched"}
    BY <1>1 DEF Calls
  <2>3. CaptchaTypes'
    BY <2>1, <2>2, Go2Is DEF CaptchaTypes
  <2>4. SpentInv'
    <3> SUFFICES ASSUME driver # "multi", ~ failed PROVE SpentInv'
      BY <2>1 DEF SpentInv
    <3>1. l1' = {} /\ ~ l2'
      BY <2>1 DEF SpentInv, CaptchaTypes
    <3>2. /\ \A w \in Verifiers \ {v} : verify'[w] = verify[w]
          /\ verify'[v].at = "done" /\ verify'[v].after = verify[v].after
          /\ verify'[v].inst = verify[v].inst
      BY <2>1, <2>2, Go2Is
    <3> QED  BY <2>1, <3>1, <3>2 DEF SpentInv, Gone, Spent
  <2> QED  BY <2>3, <2>4
<1>5. CASE CacheFault(v)
  <2>1. PICK result \in {"", "ok", "not_found", "not_matched"} :
          Go2(v, "done", result) /\ failed' = TRUE /\ UNCHANGED <<driver, l1, l2, warming, image>>
    BY <1>1, <1>5 DEF CacheFault, Calls
  <2> QED  BY <2>1, Go2Is DEF CaptchaTypes, SpentInv
<1> QED  BY <1>2, <1>3, <1>4, <1>5

\* png.go 175-199, "void after verification": none that is called after one has
\* ended succeeds, with a single cache that did not fail.
THEOREM SpentForGood == CaptchaSpec => []SpentStaysSpent
<1>1. CaptchaInv /\ [CaptchaNext]_captchaVars => CaptchaInv'
  <2>1. CaptchaInv /\ CaptchaNext => CaptchaInv'
    BY CaptchaWorldStep, VerifyCallStep, VerifyStep DEF CaptchaNext
  <2>2. ASSUME CaptchaInv, UNCHANGED captchaVars PROVE CaptchaInv'
    <3>1. UNCHANGED <<driver, l1, l2, warming, image, verify, failed>>
      BY <2>2 DEF captchaVars
    <3>2. (Spent' <=> Spent) /\ (Gone' <=> Gone) /\ (CaptchaTypes' <=> CaptchaTypes)
      BY <3>1 DEF Spent, Gone, CaptchaTypes
    <3>3. SpentInv'
      BY <2>2, <3>1, <3>2 DEF CaptchaInv, SpentInv
    <3> QED  BY <2>2, <3>2, <3>3 DEF CaptchaInv
  <2> QED  BY <2>1, <2>2
<1>2. CaptchaInv => SpentStaysSpent
  BY DEF CaptchaInv, SpentInv, SpentStaysSpent
<1> QED  BY <1>1, <1>2, CaptchaInvInit, PTL DEF CaptchaSpec

(***************************************************************************)
(* The migrations, for any processes, migrations and commands.             *)
(***************************************************************************)

Procs == [at : Stages, command : {"up", "down"}, listed : SUBSET Migrations, todo : SUBSET Migrations,
          id : Nat, marked : Migrations \cup {0}, commands : Nat]

MigrateTypes ==
    /\ group \in [Migrations -> Nat] /\ schema \in [Migrations -> Int]
    /\ lockRow \in BOOLEAN /\ torn \subseteq {"up", "down"}
    /\ proc \in [Migrators -> Procs]

\* There is a greatest group, so that a next one has a number of its own.
GroupsBounded == \E B \in Nat : \A m \in Migrations : group[m] <= B

\* One process at a time is between Lock and Unlock.
Inside == {p \in Migrators : proc[p].at \in {"locked", "run", "unlock"}}
Exclusive == \A p \in Inside : lockRow /\ \A q \in Inside : q = p

\* A migration is marked, and its SQL not yet run.
Busy(p, m) == proc[p].at = "run" /\ proc[p].marked = m
Free(m) == \A p \in Migrators : ~ Busy(p, m)

\* What is left to do is still to do.
TodoInv ==
    \A p \in Migrators :
        /\ proc[p].at \in {"listed", "locked"} => proc[p].marked = 0
        /\ proc[p].at = "run" =>
            /\ proc[p].id > 0 /\ proc[p].marked \in proc[p].todo \cup {0}
            /\ \A m \in proc[p].todo \ {proc[p].marked} : group[m] = 0 <=> proc[p].command = "up"

\* While no roll-back was torn, SQL is run up only where it was not.
NoDouble(m) ==
    /\ schema[m] <= 1
    /\ Free(m) /\ group[m] = 0 => schema[m] <= 0
    /\ \A p \in Migrators : Busy(p, m) /\ proc[p].command = "up" => group[m] # 0 /\ schema[m] <= 0

\* While nothing was torn, the schema is what the table says.
Exact(m) ==
    /\ Free(m) => schema[m] = IF group[m] = 0 THEN 0 ELSE 1
    /\ \A p \in Migrators : Busy(p, m) =>
        IF proc[p].command = "up" THEN group[m] # 0 /\ schema[m] = 0 ELSE group[m] = 0 /\ schema[m] = 1

SchemaInv ==
    /\ "down" \notin torn => \A m \in Migrations : NoDouble(m)
    /\ torn = {} => \A m \in Migrations : Exact(m)

MigrateInv == MigrateTypes /\ GroupsBounded /\ Exclusive /\ TodoInv /\ SchemaInv

----------------------------------------------------------------------------
\* The initial states satisfy the invariant.
LEMMA MigrateInvInit == MigrateInit => MigrateInv
<1> SUFFICES ASSUME MigrateInit PROVE MigrateInv
  OBVIOUS
<1> USE MigrateAssumption DEF MigrateInit
<1>1. MigrateTypes
  <2>1. [at |-> "idle", command |-> "up", listed |-> {}, todo |-> {}, id |-> 0, marked |-> 0,
         commands |-> 0] \in Procs
    BY DEF Procs, Stages
  <2>2. proc \in [Migrators -> Procs]
    BY <2>1
  <2>3. group \in [Migrations -> Nat] /\ schema \in [Migrations -> Int]
    OBVIOUS
  <2> QED  BY <2>2, <2>3 DEF MigrateTypes
<1>2. GroupsBounded
  BY DEF GroupsBounded
<1>3. Exclusive /\ TodoInv
  BY DEF Exclusive, Inside, TodoInv
<1>4. ASSUME NEW m \in Migrations PROVE NoDouble(m) /\ Exact(m)
  BY DEF NoDouble, Exact, Busy
<1>5. SchemaInv
  BY <1>4 DEF SchemaInv
<1> QED  BY <1>1, <1>2, <1>3, <1>5 DEF MigrateInv

\* A set of natural numbers has a least element.
LEMMA LeastNat ==
    ASSUME NEW T, T \subseteq Nat, T # {}
    PROVE  \E t \in T : \A u \in T : ~(u < t)
<1> DEFINE R == {ss \in Nat \X Nat : ss[1] < ss[2]}
<1>1. IsWellFoundedOn(R, Nat)
  BY NatLessThanWellFounded DEF OpToRel
<1>2. \A t \in T, u \in T : u < t => <<u, t>> \in R
  OBVIOUS
<1> HIDE DEF R
<1>3. \E t \in T : \A u \in T : ~(<<u, t>> \in R)
  BY <1>1, WFMin
<1> QED  BY <1>2, <1>3

\* Min is the minimum of a set of natural numbers.
LEMMA MinOfNats ==
    ASSUME NEW S, S \subseteq Nat, S # {}
    PROVE  Min(S) \in S /\ \A x \in S : Min(S) <= x
<1>1. PICK t \in S : \A u \in S : ~(u < t)
  BY LeastNat
<1>2. \A u \in S : t <= u
  BY <1>1
<1> QED  BY <1>2 DEF Min

\* Max is the maximum of a bounded set of natural numbers.
LEMMA MaxOfBounded ==
    ASSUME NEW B \in Nat, NEW S, S \subseteq 0 .. B, S # {}
    PROVE  Max(S) \in S /\ \A x \in S : x <= Max(S)
<1> DEFINE T == {B - x : x \in S}
<1>1. T \subseteq Nat /\ T # {}
  <2>1. \A x \in S : B - x \in Nat
    OBVIOUS
  <2> QED  BY <2>1
<1>2. \A x \in S : B - x \in T
  OBVIOUS
<1>3. \A t \in T : \E x \in S : t = B - x
  OBVIOUS
<1> HIDE DEF T
<1>4. PICK t \in T : \A u \in T : ~(u < t)
  BY <1>1, LeastNat
<1>5. PICK x \in S : t = B - x
  BY <1>3
<1>6. ASSUME NEW y \in S PROVE x >= y
  <2>1. ~(B - y < B - x)
    BY <1>2, <1>4, <1>5
  <2>2. x \in 0 .. B /\ y \in 0 .. B
    OBVIOUS
  <2> QED  BY <2>1, <2>2
<1>7. Max(S) \in S /\ \A y \in S : Max(S) >= y
  BY <1>6 DEF Max
<1> QED  BY <1>7

\* The number of the last group is one, and that of every later migration is not.
LEMMA LastGroupIs ==
    ASSUME MigrateTypes, GroupsBounded
    PROVE  LastGroupID \in Nat
<1> DEFINE S == {0} \cup {group[m] : m \in Migrations}
<1>1. PICK B \in Nat : \A m \in Migrations : group[m] <= B
  BY DEF GroupsBounded
<1>2. S \subseteq 0 .. B /\ S # {} /\ \A m \in Migrations : group[m] \in S
  BY <1>1 DEF MigrateTypes
<1> HIDE DEF S
<1>3. Max(S) \in S /\ \A x \in S : x <= Max(S)
  BY <1>2, MaxOfBounded
<1>4. \E g \in S : \A m \in Migrations : group[m] <= g
  BY <1>2, <1>3
<1>5. LastGroupID \in S
  BY <1>4 DEF LastGroupID, S
<1> QED  BY <1>2, <1>5

\* A process that only moves on keeps the rest of its record.
LEMMA StageIs ==
    ASSUME MigrateTypes, NEW p \in Migrators, NEW at \in Stages, proc' = [proc EXCEPT ![p].at = at]
    PROVE  /\ proc' \in [Migrators -> Procs] /\ \A q \in Migrators \ {p} : proc'[q] = proc[q]
           /\ proc'[p].at = at
           /\ proc'[p].marked = proc[p].marked /\ proc'[p].command = proc[p].command
<1>1. proc[p] \in Procs
  BY DEF MigrateTypes
<1>2. proc' = [proc EXCEPT ![p] = [proc[p] EXCEPT !.at = at]]
  BY <1>1 DEF MigrateTypes, Procs
<1>3. [proc[p] EXCEPT !.at = at] \in Procs
  BY <1>1 DEF Procs
<1> QED  BY <1>1, <1>2, <1>3 DEF MigrateTypes, Procs

\* A step of a process that is not marking or running SQL, before or after it.
LEMMA AsideStep ==
    ASSUME MigrateInv, NEW p \in Migrators, UNCHANGED <<group, schema>>,
           proc' \in [Migrators -> Procs], \A q \in Migrators \ {p} : proc'[q] = proc[q],
           torn' \subseteq {"up", "down"}, torn \subseteq torn',
           proc[p].at = "run" /\ proc[p].marked # 0 => proc[p].command \in torn',
           proc'[p].at # "run" \/ proc'[p].marked = 0
    PROVE  SchemaInv'
<1> USE MigrateAssumption DEF MigrateInv
<1>1. ASSUME NEW m \in Migrations, "down" \notin torn' PROVE NoDouble(m)'
  <2>1. NoDouble(m) /\ m # 0 /\ ~ Busy(p, m)'
    BY <1>1 DEF SchemaInv, Busy, Migrations
  <2>2. \A q \in Migrators : Busy(q, m)' => Busy(q, m) /\ q # p
    BY <2>1 DEF Busy
  <2>3. Busy(p, m) => proc[p].command = "up"
    BY <1>1, <2>1 DEF Busy, MigrateTypes, Procs
  <2>4. Free(m)' /\ group[m] = 0 => schema[m] <= 0
    BY <2>1, <2>3 DEF Free, Busy, NoDouble
  <2> QED  BY <2>1, <2>2, <2>4 DEF NoDouble, Busy
<1>2. ASSUME NEW m \in Migrations, torn' = {} PROVE Exact(m)'
  <2>1. Exact(m) /\ m # 0 /\ ~ Busy(p, m)' /\ ~ Busy(p, m)
    BY <1>2 DEF SchemaInv, Busy, Migrations
  <2>2. \A q \in Migrators : Busy(q, m)' <=> Busy(q, m)
    BY <2>1 DEF Busy
  <2>3. \A q \in Migrators : Busy(q, m)' => proc'[q] = proc[q]
    BY <2>1
  <2>4. Free(m)' <=> Free(m)
    BY <2>2 DEF Free
  <2>5. Free(m)' => schema'[m] = IF group'[m] = 0 THEN 0 ELSE 1
    BY <2>1, <2>4 DEF Exact
  <2>6. \A q \in Migrators : Busy(q, m)' =>
          IF proc'[q].command = "up" THEN group'[m] # 0 /\ schema'[m] = 0
                                     ELSE group'[m] = 0 /\ schema'[m] = 1
    BY <2>1, <2>2, <2>3 DEF Exact
  <2> QED  BY <2>5, <2>6 DEF Exact
<1> QED  BY <1>1, <1>2 DEF SchemaInv

\* Listing, and what comes after the SQL.
LEMMA ListStep ==
    ASSUME MigrateInv, NEW p \in Migrators, NEW command \in {"up", "down"}, NEW dryRun \in BOOLEAN,
           List(p, command, dryRun)
    PROVE  MigrateInv'
<1> USE MigrateAssumption DEF MigrateInv
<1>1. proc[p] \in Procs /\ proc[p].at = "idle" /\ UNCHANGED <<group, lockRow, schema, torn>>
  BY DEF List, MigrateTypes
<1>2. Listed(command) \in SUBSET Migrations
  BY DEF Listed, pendingMigrations, lastMigrationGroup
<1>3. PICK at \in {"idle", "listed"} :
        proc' = [proc EXCEPT ![p] =
                  [at |-> at, command |-> command, listed |-> Listed(command), todo |-> {}, id |-> 0,
                   marked |-> 0, commands |-> proc[p].commands + 1]]
  BY DEF List
<1>4. proc[p].commands + 1 \in Nat
  BY <1>1 DEF Procs
<1>5. [at |-> at, command |-> command, listed |-> Listed(command), todo |-> {}, id |-> 0,
       marked |-> 0, commands |-> proc[p].commands + 1] \in Procs
  BY <1>2, <1>4 DEF Procs, Stages
<1>6. /\ proc' \in [Migrators -> Procs] /\ \A q \in Migrators \ {p} : proc'[q] = proc[q]
      /\ proc'[p].at = at /\ proc'[p].marked = 0
  BY <1>3, <1>5 DEF MigrateTypes
<1>7. MigrateTypes' /\ GroupsBounded'
  BY <1>1, <1>6 DEF MigrateTypes, GroupsBounded
<1>8. Exclusive'
  BY <1>1, <1>6 DEF Exclusive, Inside
<1>9. TodoInv'
  BY <1>1, <1>6 DEF TodoInv
<1>10. SchemaInv'
  BY <1>1, <1>6, AsideStep DEF MigrateTypes
<1> QED  BY <1>7, <1>8, <1>9, <1>10

\* A process moves on, with the lock taken or given back.
LEMMA StageStep ==
    ASSUME MigrateInv, NEW p \in Migrators,
           Lock(p) \/ LockFails(p) \/ RunNothing(p) \/ Unlock(p) \/ RunFails(p) \/ Kill(p)
    PROVE  MigrateInv'
<1> USE MigrateAssumption DEF MigrateInv
<1>1. PICK at \in Stages :
        /\ proc' = [proc EXCEPT ![p].at = at] /\ at # "run"
        /\ at \in {"listed", "locked"} => proc[p].at = "listed"
        /\ p \in Inside /\ at \notin {"unlock", "dead"} => at = "idle" /\ proc[p].at = "unlock"
        /\ at = "unlock" => p \in Inside
        /\ at = "locked" => ~ lockRow /\ lockRow' = TRUE
        /\ at = "idle" /\ p \in Inside => lockRow' = FALSE
        /\ at # "locked" /\ ~ (at = "idle" /\ p \in Inside) => lockRow' = lockRow
        /\ lockRow' \in BOOLEAN /\ UNCHANGED <<group, schema>>
  <2>1. CASE Lock(p) \/ LockFails(p)
    BY <2>1 DEF Lock, LockFails, Stages, Inside, MigrateTypes
  <2>2. CASE RunNothing(p) \/ Unlock(p)
    BY <2>2 DEF RunNothing, Unlock, Stages, Inside, MigrateTypes
  <2>3. CASE RunFails(p) \/ Kill(p)
    BY <2>3 DEF RunFails, Kill, Stages, Inside, MigrateTypes
  <2> QED  BY <2>1, <2>2, <2>3
<1>2. /\ proc' \in [Migrators -> Procs] /\ \A q \in Migrators \ {p} : proc'[q] = proc[q]
      /\ proc'[p].at = at /\ proc'[p].marked = proc[p].marked
  BY <1>1, StageIs
<1>3. /\ torn' \subseteq {"up", "down"} /\ torn \subseteq torn'
      /\ proc[p].at = "run" /\ proc[p].marked # 0 => proc[p].command \in torn'
  <2>1. proc[p].command \in {"up", "down"} /\ proc[p].marked \in Migrations \cup {0}
        /\ proc[p].todo \subseteq Migrations
    BY DEF MigrateTypes, Procs
  <2>2. CASE RunFails(p) \/ Kill(p)
    BY <2>1, <2>2 DEF RunFails, Kill, Tears, MigrateTypes
  <2>3. CASE RunNothing(p)
    BY <2>1, <2>3 DEF RunNothing, TodoInv, MigrateTypes
  <2>4. CASE Lock(p) \/ LockFails(p) \/ Unlock(p)
    BY <2>4 DEF Lock, LockFails, Unlock, MigrateTypes
  <2> QED  BY <2>2, <2>3, <2>4
<1>4. MigrateTypes' /\ GroupsBounded'
  BY <1>1, <1>2, <1>3 DEF MigrateTypes, GroupsBounded
<1>5. Exclusive'
  BY <1>1, <1>2 DEF Exclusive, Inside
<1>6. TodoInv'
  BY <1>1, <1>2 DEF TodoInv
<1>7. SchemaInv'
  BY <1>1, <1>2, <1>3, AsideStep
<1> QED  BY <1>4, <1>5, <1>6, <1>7

\* bun lists again, under the lock.
LEMMA ReadStep ==
    ASSUME MigrateInv, NEW p \in Migrators, Read(p)
    PROVE  MigrateInv'
<1> USE MigrateAssumption DEF MigrateInv
<1> DEFINE todo == Listed(proc[p].command)
           id == LastGroupID + 1
           new == [[[proc[p] EXCEPT !.at = "run"] EXCEPT !.todo = todo] EXCEPT !.id = id]
<1>1. /\ proc[p] \in Procs /\ proc[p].at = "locked" /\ proc[p].marked = 0
      /\ UNCHANGED <<group, lockRow, schema, torn>>
  BY DEF Read, MigrateTypes, TodoInv
<1>2. todo \in SUBSET Migrations /\ id \in Nat /\ id > 0
  BY LastGroupIs DEF Listed, pendingMigrations, lastMigrationGroup
<1>3. \A m \in todo : group[m] = 0 <=> proc[p].command = "up"
  BY <1>1 DEF Listed, pendingMigrations, lastMigrationGroup, Procs
<1>4. proc' = [proc EXCEPT ![p] = new]
  BY <1>1 DEF Read, MigrateTypes, Procs
<1> HIDE DEF todo, id
<1>5. /\ new \in Procs /\ new.at = "run" /\ new.todo = todo /\ new.id = id
      /\ new.command = proc[p].command /\ new.marked = 0
  BY <1>1, <1>2 DEF Procs, Stages
<1> HIDE DEF new
<1>6. /\ proc' \in [Migrators -> Procs] /\ \A q \in Migrators \ {p} : proc'[q] = proc[q]
      /\ proc'[p] = new
  BY <1>4, <1>5 DEF MigrateTypes
<1>7. MigrateTypes' /\ GroupsBounded'
  BY <1>1, <1>6 DEF MigrateTypes, GroupsBounded
<1>8. Exclusive'
  BY <1>1, <1>5, <1>6 DEF Exclusive, Inside
<1>9. TodoInv'
  BY <1>1, <1>2, <1>3, <1>5, <1>6 DEF TodoInv
<1>10. SchemaInv'
  BY <1>1, <1>5, <1>6, AsideStep DEF MigrateTypes
<1> QED  BY <1>7, <1>8, <1>9, <1>10

\* Only the process with the lock can be marking or running.
LEMMA AloneAtWork ==
    ASSUME MigrateInv, NEW p \in Migrators, proc[p].at = "run"
    PROVE  \A q \in Migrators \ {p} : proc[q].at \notin {"locked", "run", "unlock"}
BY DEF MigrateInv, Exclusive, Inside

\* A migration is marked: up only if it was not applied, down only if it was.
LEMMA MarkStep ==
    ASSUME MigrateInv, NEW p \in Migrators, NEW m \in Migrations, Mark(p, m)
    PROVE  MigrateInv'
<1> USE MigrateAssumption DEF MigrateInv
<1> DEFINE value == IF proc[p].command = "up" THEN proc[p].id ELSE 0
<1>1. /\ proc[p] \in Procs /\ proc[p].at = "run" /\ proc[p].marked = 0 /\ m \in proc[p].todo
      /\ group' = [group EXCEPT ![m] = value] /\ UNCHANGED <<lockRow, schema, torn>>
      /\ m # 0
  BY DEF Mark, Ordered, MigrateTypes, Migrations
<1>2. /\ proc' \in [Migrators -> Procs] /\ \A q \in Migrators \ {p} : proc'[q] = proc[q]
      /\ proc'[p].at = "run" /\ proc'[p].marked = m /\ proc'[p].command = proc[p].command
      /\ proc'[p].todo = proc[p].todo /\ proc'[p].id = proc[p].id
  <2>1. proc' = [proc EXCEPT ![p] = [proc[p] EXCEPT !.marked = m]]
    BY <1>1 DEF Mark, MigrateTypes, Procs
  <2>2. [proc[p] EXCEPT !.marked = m] \in Procs
    BY <1>1 DEF Procs
  <2> QED  BY <1>1, <2>1, <2>2 DEF MigrateTypes, Procs
<1>3. value \in Nat /\ (value = 0 <=> proc[p].command # "up") /\ (group[m] = 0 <=> proc[p].command = "up")
  BY <1>1 DEF Procs, TodoInv
<1> HIDE DEF value
<1>4. MigrateTypes'
  BY <1>1, <1>2, <1>3 DEF MigrateTypes
<1>5. GroupsBounded'
  <2>1. PICK B \in Nat : \A n \in Migrations : group[n] <= B
    BY DEF GroupsBounded
  <2>2. \A n \in Migrations : group'[n] <= B + value
    BY <1>1, <1>3, <2>1 DEF MigrateTypes
  <2>3. B + value \in Nat
    BY <1>3, <2>1
  <2> QED  BY <2>2, <2>3 DEF GroupsBounded
<1>6. Exclusive'
  BY <1>1, <1>2 DEF Exclusive, Inside
<1>7. TodoInv'
  <2>1. \A n \in proc[p].todo \ {m} : group'[n] = group[n] /\ (group[n] = 0 <=> proc[p].command = "up")
    <3> TAKE n \in proc[p].todo \ {m}
    <3>1. n \in Migrations /\ n # 0
      BY <1>1 DEF Procs, Migrations
    <3>2. group[n] = 0 <=> proc[p].command = "up"
      BY <1>1, <3>1 DEF TodoInv
    <3> QED  BY <1>1, <3>1, <3>2 DEF MigrateTypes
  <2>2. \A q \in Migrators \ {p} : proc'[q].at # "run"
    BY <1>1, <1>2, AloneAtWork
  <2> QED  BY <1>1, <1>2, <2>1, <2>2 DEF TodoInv
<1>8. /\ Busy(p, m)' /\ ~ Free(m)' /\ Free(m)
      /\ \A q \in Migrators, n \in Migrations : Busy(q, n)' => q = p /\ n = m
      /\ \A n \in Migrations \ {m} : Free(n) /\ Free(n)'
  BY <1>1, <1>2, AloneAtWork DEF Busy, Free, Migrations
<1>9. ASSUME NEW n \in Migrations, "down" \notin torn PROVE NoDouble(n)'
  <2>1. NoDouble(n)
    BY <1>9 DEF SchemaInv
  <2>2. CASE n # m
    BY <1>1, <1>8, <2>1, <2>2 DEF NoDouble, MigrateTypes
  <2>3. CASE n = m
    BY <1>1, <1>2, <1>3, <1>8, <2>1, <2>3 DEF NoDouble, MigrateTypes
  <2> QED  BY <2>2, <2>3
<1>10. ASSUME NEW n \in Migrations, torn = {} PROVE Exact(n)'
  <2>1. Exact(n)
    BY <1>10 DEF SchemaInv
  <2>2. CASE n # m
    BY <1>1, <1>8, <2>1, <2>2 DEF Exact, MigrateTypes
  <2>3. CASE n = m
    <3>1. schema[m] = IF proc[p].command = "up" THEN 0 ELSE 1
      BY <1>3, <1>8, <2>1, <2>3 DEF Exact
    <3>2. group'[m] = value /\ schema' = schema
      BY <1>1 DEF MigrateTypes
    <3> QED  BY <1>2, <1>3, <1>8, <2>3, <3>1, <3>2 DEF Exact
  <2> QED  BY <2>2, <2>3
<1>11. SchemaInv'
  BY <1>1, <1>9, <1>10 DEF SchemaInv
<1> QED  BY <1>4, <1>5, <1>6, <1>7, <1>11

\* Its SQL is run.
LEMMA RunStep ==
    ASSUME MigrateInv, NEW p \in Migrators, NEW m \in Migrations, Run(p, m)
    PROVE  MigrateInv'
<1> USE MigrateAssumption DEF MigrateInv
<1> DEFINE at == IF proc[p].todo = {m} THEN "unlock" ELSE "run"
           new == [[[proc[p] EXCEPT !.todo = proc[p].todo \ {m}] EXCEPT !.marked = 0] EXCEPT !.at = at]
           value == IF proc[p].command = "up" THEN schema[m] + 1
                    ELSE IF schema[m] > 0 THEN schema[m] - 1 ELSE schema[m]
<1>1. /\ proc[p] \in Procs /\ proc[p].at = "run" /\ proc[p].marked = m /\ m # 0
      /\ UNCHANGED <<group, lockRow, torn>> /\ schema' = [schema EXCEPT ![m] = value]
      /\ schema[m] \in Int
  BY DEF Run, MigrateTypes, Migrations
<1>2. proc' = [proc EXCEPT ![p] = new]
  BY <1>1 DEF Run, MigrateTypes, Procs
<1>3. at \in {"unlock", "run"}
  OBVIOUS
<1> HIDE DEF at
<1>4. /\ new \in Procs /\ new.at = at /\ new.todo = proc[p].todo \ {m} /\ new.id = proc[p].id
      /\ new.command = proc[p].command /\ new.marked = 0
  BY <1>1, <1>3 DEF Procs, Stages
<1> HIDE DEF new
<1>5. /\ proc' \in [Migrators -> Procs] /\ \A q \in Migrators \ {p} : proc'[q] = proc[q]
      /\ proc'[p] = new
  BY <1>2, <1>4 DEF MigrateTypes
<1>6. MigrateTypes' /\ GroupsBounded'
  <2>1. value \in Int
    BY <1>1
  <2> HIDE DEF value
  <2> QED  BY <1>1, <1>5, <2>1 DEF MigrateTypes, GroupsBounded
<1>7. Exclusive'
  BY <1>1, <1>3, <1>4, <1>5 DEF Exclusive, Inside
<1>8. TodoInv'
  BY <1>1, <1>3, <1>4, <1>5, AloneAtWork DEF TodoInv
<1>9. /\ Busy(p, m) /\ ~ Free(m)
      /\ \A q \in Migrators, n \in Migrations : ~ Busy(q, n)'
      /\ \A n \in Migrations \ {m} : Free(n)
  BY <1>1, <1>4, <1>5, AloneAtWork DEF Busy, Free, Migrations
<1>10. schema'[m] = value /\ \A n \in Migrations \ {m} : schema'[n] = schema[n]
  BY <1>1 DEF MigrateTypes
<1>11. ASSUME NEW n \in Migrations, "down" \notin torn PROVE NoDouble(n)'
  <2>1. NoDouble(n) /\ NoDouble(m)
    BY <1>11 DEF SchemaInv
  <2>2. CASE n # m
    BY <1>1, <1>9, <1>10, <2>1, <2>2 DEF NoDouble
  <2>3. CASE n = m
    <3>1. proc[p].command = "up" => group[m] # 0 /\ schema[m] <= 0
      BY <1>9, <2>1 DEF NoDouble
    <3>2. schema[m] <= 1 /\ value <= 1 /\ (proc[p].command # "up" => value <= 0)
      BY <1>1, <2>1, <3>1 DEF NoDouble
    <3> QED  BY <1>1, <1>9, <1>10, <2>3, <3>1, <3>2 DEF NoDouble
  <2> QED  BY <2>2, <2>3
<1>12. ASSUME NEW n \in Migrations, torn = {} PROVE Exact(n)'
  <2>1. Exact(n) /\ Exact(m)
    BY <1>12 DEF SchemaInv
  <2>2. CASE n # m
    BY <1>1, <1>9, <1>10, <2>1, <2>2 DEF Exact
  <2>3. CASE n = m
    <3>1. IF proc[p].command = "up" THEN group[m] # 0 /\ schema[m] = 0
                                    ELSE group[m] = 0 /\ schema[m] = 1
      BY <1>9, <2>1 DEF Exact
    <3>2. value = IF group[m] = 0 THEN 0 ELSE 1
      BY <3>1
    <3> QED  BY <1>1, <1>9, <1>10, <2>3, <3>2 DEF Exact
  <2> QED  BY <2>2, <2>3
<1>13. SchemaInv'
  BY <1>1, <1>11, <1>12 DEF SchemaInv
<1> QED  BY <1>6, <1>7, <1>8, <1>13

\* runner.go 56-139: no migration's SQL is run on top of itself, and the schema is
\* what the table says, whichever processes migrate and roll back at the same time
\* and wherever one of them stops, but for what a command tore.
THEOREM MigratedOnce == MigrateSpec => []AppliedOnce
<1>1. MigrateInv /\ [MigrateNext]_migrateVars => MigrateInv'
  <2>1. MigrateInv /\ MigrateNext => MigrateInv'
    BY ListStep, StageStep, ReadStep, MarkStep, RunStep DEF MigrateNext
  <2>2. ASSUME MigrateInv, UNCHANGED migrateVars PROVE MigrateInv'
    <3>1. UNCHANGED <<group, lockRow, schema, torn, proc>>
      BY <2>2 DEF migrateVars
    <3> QED  BY <2>2, <3>1 DEF MigrateInv, MigrateTypes, GroupsBounded, Exclusive, Inside, TodoInv,
                SchemaInv, NoDouble, Exact, Free, Busy
  <2> QED  BY <2>1, <2>2
<1>2. MigrateInv => AppliedOnce
  BY DEF MigrateInv, SchemaInv, NoDouble, Exact, Free, Busy, AppliedOnce
<1> QED  BY <1>1, <1>2, MigrateInvInit, PTL DEF MigrateSpec

(***************************************************************************)
(* The way of a request to its handler, for any set of requests, with any  *)
(* credentials and in any configuration, any rates, any size of the LRU    *)
(* and any number of seconds.                                              *)
(***************************************************************************)

EdgeStages == {"new", "jwt", "limit", "get", "add", "reserve", "cancel", "group", "handler",
               "refused", "limited"}

EdgeRequest ==
    [at : EdgeStages, group : Groups, token : Tokens, key : BOOLEAN,
     claims : {NoClaims, "access", "refresh"}, layer : {1, 2, 3}, bucket : Nat, due : Int]

EdgeTypes ==
    /\ conf \in Confs
    /\ request \in [Requests -> EdgeRequest]
    /\ bucket \in Seq([rate : Nat, tokens : Int, last : Int])
    /\ lru \in Seq([key : DOMAIN RPS, bucket : Nat])
    /\ passed \in [DOMAIN RPS -> Nat]

\* Claims are those of the request's own token, and are there only if there is a
\* JWT manager.
ClaimsInv ==
    \A r \in Requests :
        /\ request[r].claims = "access" => request[r].token = "access" /\ conf.jwt = TRUE
        /\ request[r].at = "jwt" => conf.jwt = TRUE

\* A layer is entered only if it has a rate, and buckets are those of the memory store.
LayerInv ==
    \A r \in Requests :
        /\ request[r].at \in {"get", "add", "cancel"} => conf.limit = "memory"
        /\ request[r].at \in {"get", "add", "reserve", "cancel"} => RPS[Key(r)] > 0

\* The pairs of a key and its bucket that the LRU holds, and those that requests hold.
Cached == {lru[i] : i \in DOMAIN lru}
Holds(r) == request[r].at = "cancel" \/ (request[r].at = "reserve" /\ conf.limit = "memory")
HeldPair(r) == [key |-> Key(r), bucket |-> request[r].bucket]
Pairs == Cached \cup {HeldPair(r) : r \in {s \in Requests : Holds(s)}}

\* A bucket was made for one key, with the rate of this key; the LRU holds at most one
\* bucket of a key, and as long as it was not evicted, all requests hold this one.
PairsInv ==
    /\ \A e \in Pairs : e.bucket \in DOMAIN bucket /\ bucket[e.bucket].rate = RPS[e.key]
    /\ \A e \in Pairs, f \in Pairs : e.bucket = f.bucket => e.key = f.key
    /\ \A e \in Cached, f \in Cached : e.key = f.key => e = f
    /\ \A r \in Requests : Holds(r) /\ Key(r) \notin spoilt => HeldPair(r) \in Cached

\* A token that is still to come is part of the debt of its bucket; two requests
\* never wait for the same one.
DebtInv ==
    \A r \in Requests : request[r].at = "cancel" =>
        /\ LET b == bucket[request[r].bucket] IN
            request[r].due >= b.last => b.tokens <= b.last - request[r].due
        /\ \A s \in Requests : s # r /\ request[s].at = "cancel"
                               /\ request[s].bucket = request[r].bucket =>
            request[s].due # request[r].due

\* What a key let through in this second and what its bucket still holds make no
\* more than its rate; while a token that is due now can be given back, nothing was
\* let through.
BudgetInv ==
    \A k \in DOMAIN RPS \ spoilt :
        /\ RPS[k] > 0 => passed[k] <= RPS[k]
        /\ conf.limit = "memory" =>
            /\ (\A e \in Cached : e.key # k) => passed[k] = 0
            /\ \A e \in Cached : e.key = k => passed[k] + bucket[e.bucket].tokens <= RPS[k]
            /\ \A r \in Requests : request[r].at = "cancel" /\ Key(r) = k
                                   /\ request[r].due = bucket[request[r].bucket].last =>
                passed[k] = 0

EdgeInv ==
    /\ EdgeTypes /\ ClaimsInv /\ LayerInv /\ HandlerNeedsCredentials
    /\ PairsInv /\ DebtInv /\ BudgetInv

----------------------------------------------------------------------------

\* The initial states satisfy the invariant.
LEMMA EdgeInvInit == EdgeInit => EdgeInv
<1> SUFFICES ASSUME EdgeInit PROVE EdgeInv
  OBVIOUS
<1>1. /\ request = [r \in Requests |->
                    [at |-> "new", group |-> "system", token |-> "none", key |-> FALSE,
                     claims |-> NoClaims, layer |-> 1, bucket |-> 0, due |-> 0]]
      /\ bucket = <<>> /\ lru = <<>> /\ passed = [k \in DOMAIN RPS |-> 0]
      /\ conf \in Confs
  BY EdgeAssumption DEF EdgeInit
<1>2. \A r \in Requests : request[r].at = "new" /\ request[r].claims = NoClaims
  BY <1>1
<1>3. EdgeTypes
  BY <1>1 DEF EdgeTypes, EdgeRequest, EdgeStages, Groups, Tokens
<1>4. ClaimsInv /\ LayerInv /\ HandlerNeedsCredentials
  BY <1>2 DEF ClaimsInv, LayerInv, HandlerNeedsCredentials, NoClaims
<1>5. Cached = {} /\ \A r \in Requests : ~ Holds(r)
  BY <1>1, <1>2 DEF Cached, Holds
<1>6. PairsInv /\ DebtInv
  BY <1>2, <1>5 DEF PairsInv, DebtInv, Pairs
<1>7. BudgetInv
  BY <1>1, <1>2, <1>5, EdgeAssumption DEF BudgetInv
<1> QED  BY <1>3, <1>4, <1>6, <1>7 DEF EdgeInv

\* What Moved does to the request that moves, and to the others.
LEMMA MovedIs ==
    ASSUME EdgeTypes, NEW r \in Requests, NEW at \in EdgeStages,
           NEW claims \in {NoClaims, "access", "refresh"}, NEW layer \in {1, 2, 3},
           NEW b \in Nat, NEW due \in Int, Moved(r, at, claims, layer, b, due)
    PROVE  /\ request' \in [Requests -> EdgeRequest]
           /\ request'[r].at = at /\ request'[r].claims = claims /\ request'[r].layer = layer
           /\ request'[r].bucket = b /\ request'[r].due = due
           /\ request'[r].group = request[r].group /\ request'[r].token = request[r].token
           /\ request'[r].key = request[r].key
           /\ \A s \in Requests : s # r => request'[s] = request[s]
<1> DEFINE new == [at |-> at, group |-> request[r].group, token |-> request[r].token,
                   key |-> request[r].key, claims |-> claims, layer |-> layer,
                   bucket |-> b, due |-> due]
<1>1. request[r] \in EdgeRequest
  BY DEF EdgeTypes
<1>2. new \in EdgeRequest
  BY <1>1 DEF EdgeRequest
<1>3. request' = [request EXCEPT ![r] = new]
  BY DEF Moved
<1>4. request'[r] = new /\ \A s \in Requests : s # r => request'[s] = request[s]
  BY <1>3 DEF EdgeTypes
<1>5. request' \in [Requests -> EdgeRequest]
  BY <1>2, <1>3 DEF EdgeTypes
<1>6. /\ new.at = at /\ new.claims = claims /\ new.layer = layer
      /\ new.bucket = b /\ new.due = due /\ new.group = request[r].group
      /\ new.token = request[r].token /\ new.key = request[r].key
  OBVIOUS
<1> HIDE DEF new
<1> QED  BY <1>4, <1>5, <1>6

\* A request that goes to another stage is there, and the others are where they were.
LEMMA GoesIs ==
    ASSUME EdgeTypes, NEW r \in Requests, NEW at, Goes(r, at)
    PROVE  request'[r].at = at /\ \A s \in Requests : s # r => request'[s] = request[s]
<1> DEFINE new == [at |-> at, group |-> request[r].group, token |-> request[r].token,
                   key |-> request[r].key, claims |-> request[r].claims,
                   layer |-> request[r].layer, bucket |-> request[r].bucket,
                   due |-> request[r].due]
<1>1. request' = [request EXCEPT ![r] = new]
  BY DEF Goes, Moved
<1>2. request'[r] = new /\ \A s \in Requests : s # r => request'[s] = request[s]
  BY <1>1 DEF EdgeTypes
<1> QED  BY <1>2

\* After a layer the request is at the next one with a rate that applies to it, or
\* through.
LEMMA AfterLayerIs ==
    ASSUME EdgeTypes, NEW r \in Requests, NEW done, AfterLayer(r, done)
    PROVE  \E at \in {"get", "reserve", "group"}, l \in {1, 2, 3}, b \in Nat, d \in Int :
             /\ Moved(r, at, request[r].claims, l, b, d)
             /\ at = "get" => conf.limit = "memory"
             /\ at = "reserve" => conf.limit # "memory"
             /\ at # "group" => RPS[Layers[l]] > 0
<1> DEFINE rest == {l \in DOMAIN Layers : l > done /\ Applies(r, l)}
<1>1. request[r].layer \in {1, 2, 3} /\ request[r].bucket \in Nat /\ request[r].due \in Int
  BY DEF EdgeTypes, EdgeRequest
<1>2. CASE rest = {}
  <2>1. Moved(r, "group", request[r].claims, request[r].layer, request[r].bucket, request[r].due)
    BY <1>2 DEF AfterLayer, Goes
  <2> QED  BY <1>1, <2>1
<1>3. CASE rest # {}
  <2>1. DOMAIN Layers = {1, 2, 3}
    BY DEF Layers
  <2>2. Min(rest) \in rest
    BY <1>3, <2>1, MinOfNats
  <2>3. Min(rest) \in {1, 2, 3} /\ RPS[Layers[Min(rest)]] > 0
    BY <2>1, <2>2 DEF Applies
  <2>4. Moved(r, IF conf.limit = "memory" THEN "get" ELSE "reserve", request[r].claims,
              Min(rest), 0, 0)
    BY <1>3 DEF AfterLayer
  <2> HIDE DEF rest
  <2>5. CASE conf.limit = "memory"
    BY <2>3, <2>4, <2>5
  <2>6. CASE conf.limit # "memory"
    BY <2>3, <2>4, <2>6
  <2> QED  BY <2>5, <2>6
<1> QED  BY <1>2, <1>3

\* A step that sends one request on inside the middleware, with the claims it has.
GoesOn(r) ==
    \E at \in {"get", "add", "reserve", "cancel", "group", "limited"}, l \in {1, 2, 3}, b \in Nat,
       d \in Int, claims \in {NoClaims, request[r].claims} :
        /\ Moved(r, at, claims, l, b, d)
        /\ at \in {"get", "add", "cancel"} => conf.limit = "memory"
        /\ at \in {"get", "add", "reserve", "cancel"} => RPS[Layers[l]] > 0

LEMMA AfterGoesOn ==
    ASSUME EdgeTypes, NEW r \in Requests, NEW done, AfterLayer(r, done)
    PROVE  GoesOn(r)
BY AfterLayerIs DEF GoesOn

\* Elements of the two sequences have their types.
LEMMA SeqElement ==
    ASSUME NEW S, NEW q \in Seq(S), NEW i \in DOMAIN q
    PROVE  q[i] \in S /\ i \in Nat /\ DOMAIN q = 1 .. Len(q)
OBVIOUS

\* A bucket that a request holds is there, and has the rate of the request's key.
LEMMA HeldBucket ==
    ASSUME EdgeInv, NEW r \in Requests, Holds(r)
    PROVE  /\ request[r].bucket \in DOMAIN bucket
           /\ bucket[request[r].bucket] \in [rate : Nat, tokens : Int, last : Int]
           /\ bucket[request[r].bucket].rate = RPS[Key(r)]
<1>1. HeldPair(r) \in Pairs
  BY DEF Pairs
<1>2. HeldPair(r).bucket = request[r].bucket /\ HeldPair(r).key = Key(r)
  BY DEF HeldPair
<1>3. request[r].bucket \in DOMAIN bucket /\ bucket[request[r].bucket].rate = RPS[Key(r)]
  BY <1>1, <1>2 DEF EdgeInv, PairsInv
<1>4. bucket \in Seq([rate : Nat, tokens : Int, last : Int])
  BY DEF EdgeInv, EdgeTypes
<1> QED  BY <1>3, <1>4, SeqElement

\* On its way through the layers a request keeps the claims it has, and reaches no
\* handler.
LEMMA GoesOnStep ==
    ASSUME EdgeInv, NEW r \in Requests, GoesOn(r), UNCHANGED conf
    PROVE  /\ request' \in [Requests -> EdgeRequest]
           /\ ClaimsInv' /\ LayerInv' /\ HandlerNeedsCredentials'
<1>1. PICK at \in {"get", "add", "reserve", "cancel", "group", "limited"}, l \in {1, 2, 3},
           b \in Nat, d \in Int, claims \in {NoClaims, request[r].claims} :
        /\ Moved(r, at, claims, l, b, d)
        /\ at \in {"get", "add", "cancel"} => conf.limit = "memory"
        /\ at \in {"get", "add", "reserve", "cancel"} => RPS[Layers[l]] > 0
  BY DEF GoesOn
<1>2. EdgeTypes
  BY DEF EdgeInv
<1>3. claims \in {NoClaims, "access", "refresh"} /\ at \in EdgeStages
  BY <1>2 DEF EdgeTypes, EdgeRequest, EdgeStages
<1>4. /\ request' \in [Requests -> EdgeRequest]
      /\ request'[r].at = at /\ request'[r].claims = claims /\ request'[r].layer = l
      /\ request'[r].token = request[r].token
      /\ \A s \in Requests : s # r => request'[s] = request[s]
  BY <1>1, <1>2, <1>3, MovedIs
<1>5. ClaimsInv'
  BY <1>4 DEF EdgeInv, ClaimsInv, NoClaims
<1>6. LayerInv'
  BY <1>1, <1>4 DEF EdgeInv, LayerInv, Key
<1>7. HandlerNeedsCredentials'
  BY <1>4 DEF EdgeInv, HandlerNeedsCredentials
<1> QED  BY <1>4, <1>5, <1>6, <1>7

\* The layers' steps send the request on.
LEMMA LayersGoOn ==
    ASSUME EdgeInv, NEW r \in Requests,
           RateLimit(r) \/ GetLimiter(r) \/ AddLimiter(r) \/ Reserve(r) \/ Cancel(r)
           \/ RedisAllow(r) \/ RedisFails(r)
    PROVE  GoesOn(r) /\ UNCHANGED conf
<1>1. EdgeTypes /\ LayerInv
  BY DEF EdgeInv
<1>2. /\ request[r].layer \in {1, 2, 3} /\ request[r].bucket \in Nat /\ request[r].due \in Int
      /\ request[r].claims \in {NoClaims, request[r].claims}
  BY <1>1 DEF EdgeTypes, EdgeRequest
<1>3. ASSUME NEW a \in {"get", "add", "reserve", "cancel", "group", "limited"}, Goes(r, a),
             a \in {"get", "add", "cancel"} => conf.limit = "memory",
             a \in {"get", "add", "reserve", "cancel"} => RPS[Key(r)] > 0
      PROVE  GoesOn(r)
  BY <1>2, <1>3 DEF GoesOn, Goes, Key
<1>4. ASSUME NEW b \in Nat, Takes(r, b), RPS[Key(r)] > 0
      PROVE  GoesOn(r)
  BY <1>2, <1>4 DEF GoesOn, Takes, Key
<1>5. Ended(r, "limited") => GoesOn(r)
  BY <1>2 DEF GoesOn, Ended
<1>6. CASE RateLimit(r)
  <2>1. Goes(r, "group") \/ AfterLayer(r, 0)
    BY <1>6 DEF RateLimit
  <2> QED  BY <1>1, <1>3, <1>6, <2>1, AfterGoesOn DEF RateLimit, EdgeSame
<1>7. \A i \in DOMAIN lru : lru[i].bucket \in Nat
  <2>1. lru \in Seq([key : DOMAIN RPS, bucket : Nat])
    BY <1>1 DEF EdgeTypes
  <2>2. \A i \in DOMAIN lru : lru[i] \in [key : DOMAIN RPS, bucket : Nat]
    BY <2>1, SeqElement
  <2> QED  BY <2>2
<1>8. InLRU(Key(r)) => IndexOf(Key(r)) \in DOMAIN lru
  BY DEF InLRU, IndexOf
<1>9. CASE GetLimiter(r)
  <2>1. RPS[Key(r)] > 0 /\ conf.limit = "memory"
    BY <1>1, <1>9 DEF GetLimiter, LayerInv
  <2>2. CASE InLRU(Key(r))
    <3>1. Takes(r, lru[IndexOf(Key(r))].bucket)
      BY <1>9, <2>2 DEF GetLimiter
    <3> QED  BY <1>4, <1>7, <1>8, <1>9, <2>1, <2>2, <3>1 DEF GetLimiter
  <2>3. CASE ~ InLRU(Key(r))
    BY <1>3, <1>9, <2>1, <2>3 DEF GetLimiter
  <2> QED  BY <2>2, <2>3
<1>10. CASE AddLimiter(r)
  <2>1. RPS[Key(r)] > 0
    BY <1>1, <1>10 DEF AddLimiter, LayerInv
  <2>2. CASE InLRU(Key(r))
    <3>1. Takes(r, lru[IndexOf(Key(r))].bucket)
      BY <1>10, <2>2 DEF AddLimiter
    <3> QED  BY <1>4, <1>7, <1>8, <1>10, <2>1, <2>2, <3>1 DEF AddLimiter
  <2>3. CASE ~ InLRU(Key(r))
    <3>1. Takes(r, Len(bucket) + 1)
      BY <1>10, <2>3 DEF AddLimiter
    <3>2. Len(bucket) + 1 \in Nat
      BY <1>1 DEF EdgeTypes
    <3> QED  BY <1>4, <1>10, <2>1, <3>1, <3>2 DEF AddLimiter
  <2> QED  BY <2>2, <2>3
<1>11. CASE Reserve(r)
  <2>1. RPS[Key(r)] > 0 /\ conf.limit = "memory"
    BY <1>1, <1>11 DEF Reserve, LayerInv
  <2>2. CASE bucket[request[r].bucket].tokens - 1 >= 0
    BY <1>1, <1>11, <2>2, AfterGoesOn DEF Reserve
  <2>3. CASE ~ (bucket[request[r].bucket].tokens - 1 >= 0)
    <3> DEFINE d == bucket[request[r].bucket].last - (bucket[request[r].bucket].tokens - 1)
    <3>1. Moved(r, "cancel", request[r].claims, request[r].layer, request[r].bucket, d)
      BY <1>11, <2>3 DEF Reserve
    <3>2. d \in Int
      BY <1>11, HeldBucket DEF Reserve, Holds
    <3> QED  BY <1>2, <1>11, <2>1, <3>1, <3>2 DEF GoesOn, Reserve, Key
  <2> QED  BY <2>2, <2>3
<1>12. CASE Cancel(r)
  BY <1>5, <1>12 DEF Cancel
<1>13. CASE RedisAllow(r)
  BY <1>1, <1>5, <1>13, AfterGoesOn DEF RedisAllow
<1>14. CASE RedisFails(r)
  BY <1>1, <1>14, AfterGoesOn DEF RedisFails
<1> QED  BY <1>6, <1>9, <1>10, <1>11, <1>12, <1>13, <1>14

----------------------------------------------------------------------------
\* Setting the tokens of one bucket leaves rates, times and the other buckets alone.
LEMMA HoldingIs ==
    ASSUME EdgeTypes, NEW b \in DOMAIN bucket, NEW n \in Int,
           bucket' = [bucket EXCEPT ![b] = Holding(bucket[b], n)]
    PROVE  /\ bucket' \in Seq([rate : Nat, tokens : Int, last : Int])
           /\ DOMAIN bucket' = DOMAIN bucket
           /\ \A c \in DOMAIN bucket : bucket'[c].rate = bucket[c].rate
           /\ \A c \in DOMAIN bucket : bucket'[c].last = bucket[c].last
           /\ \A c \in DOMAIN bucket : c # b => bucket'[c].tokens = bucket[c].tokens
           /\ bucket'[b].tokens = n
<1> DEFINE T == [rate : Nat, tokens : Int, last : Int]
           h == Holding(bucket[b], n)
<1>1. bucket \in Seq(T)
  BY DEF EdgeTypes
<1>2. bucket[b] \in T
  BY <1>1, SeqElement
<1>3. h \in T /\ h.rate = bucket[b].rate /\ h.last = bucket[b].last /\ h.tokens = n
  BY <1>2 DEF Holding
<1> HIDE DEF T, h
<1>4. /\ bucket' = [bucket EXCEPT ![b] = h]
      /\ DOMAIN bucket' = DOMAIN bucket
      /\ bucket'[b] = h /\ \A c \in DOMAIN bucket : c # b => bucket'[c] = bucket[c]
  BY <1>1 DEF h
<1>5. bucket' \in Seq(T)
  BY <1>1, <1>3, <1>4
<1> QED  BY <1>3, <1>4, <1>5 DEF T

\* No request holds a pair of a key and a bucket that it did not hold, unless it is
\* one of the LRU.
PairsKept ==
    /\ \A e \in Cached : e \in Cached'
    /\ \A e \in Cached' : e \in Cached
    /\ \A s \in Requests : Holds(s)' =>
        HeldPair(s)' \in Cached \/ (Holds(s) /\ HeldPair(s)' = HeldPair(s))
    /\ DOMAIN bucket' = DOMAIN bucket
    /\ \A c \in DOMAIN bucket : bucket'[c].rate = bucket[c].rate
    /\ \A k \in spoilt : k \in spoilt'

LEMMA PairsKeptStep ==
    ASSUME EdgeInv, PairsKept, request' \in [Requests -> EdgeRequest]
    PROVE  PairsInv'
<1>1. ASSUME NEW e \in Pairs' PROVE e \in Pairs
  BY <1>1 DEF PairsKept, Pairs
<1>2. \A e \in Pairs' : e.bucket \in DOMAIN bucket' /\ bucket'[e.bucket].rate = RPS[e.key]
  BY <1>1 DEF EdgeInv, PairsInv, PairsKept
<1>3. \A e \in Pairs', f \in Pairs' : e.bucket = f.bucket => e.key = f.key
  BY <1>1 DEF EdgeInv, PairsInv
<1>4. \A e \in Cached', f \in Cached' : e.key = f.key => e = f
  BY DEF EdgeInv, PairsInv, PairsKept
<1>5. ASSUME NEW s \in Requests, Holds(s)', (Key(s) \notin spoilt)'
      PROVE  HeldPair(s)' \in Cached'
  <2>1. CASE HeldPair(s)' \in Cached
    BY <2>1 DEF PairsKept
  <2>2. CASE Holds(s) /\ HeldPair(s)' = HeldPair(s)
    <3>1. HeldPair(s).key = Key(s) /\ HeldPair(s)'.key = Key(s)'
      BY DEF HeldPair
    <3>2. Key(s) \notin spoilt
      BY <1>5, <2>2, <3>1 DEF PairsKept
    <3>3. HeldPair(s) \in Cached
      BY <2>2, <3>2 DEF EdgeInv, PairsInv
    <3> QED  BY <2>2, <3>3 DEF PairsKept
  <2> QED  BY <1>5, <2>1, <2>2 DEF PairsKept
<1> QED  BY <1>2, <1>3, <1>4, <1>5 DEF PairsInv

\* Nobody comes to wait for a token, and no bucket gets one.
DebtKept ==
    \A s \in Requests : request'[s].at = "cancel" =>
        /\ request[s].at = "cancel" /\ request'[s].bucket = request[s].bucket
        /\ request'[s].due = request[s].due
        /\ bucket'[request[s].bucket].last = bucket[request[s].bucket].last
        /\ bucket'[request[s].bucket].tokens <= bucket[request[s].bucket].tokens
        /\ bucket'[request[s].bucket].tokens \in Int

LEMMA DebtKeptStep ==
    ASSUME EdgeInv, DebtKept
    PROVE  DebtInv'
<1> SUFFICES ASSUME NEW r \in Requests, request'[r].at = "cancel"
             PROVE  /\ request'[r].due >= bucket'[request'[r].bucket].last
                       => bucket'[request'[r].bucket].tokens
                            <= bucket'[request'[r].bucket].last - request'[r].due
                    /\ \A s \in Requests : s # r /\ request'[s].at = "cancel"
                               /\ request'[s].bucket = request'[r].bucket =>
                            request'[s].due # request'[r].due
  BY DEF DebtInv
<1>1. /\ request[r].at = "cancel" /\ request'[r].bucket = request[r].bucket
      /\ request'[r].due = request[r].due
      /\ bucket'[request[r].bucket].last = bucket[request[r].bucket].last
      /\ bucket'[request[r].bucket].tokens <= bucket[request[r].bucket].tokens
      /\ bucket'[request[r].bucket].tokens \in Int
  BY DEF DebtKept
<1>2. bucket[request[r].bucket] \in [rate : Nat, tokens : Int, last : Int] /\ request[r].due \in Int
  BY <1>1, HeldBucket DEF Holds, EdgeInv, EdgeTypes, EdgeRequest
<1>3. request[r].due >= bucket[request[r].bucket].last
        => bucket[request[r].bucket].tokens <= bucket[request[r].bucket].last - request[r].due
  BY <1>1 DEF EdgeInv, DebtInv
<1>4. request'[r].due >= bucket'[request'[r].bucket].last
        => bucket'[request'[r].bucket].tokens <= bucket'[request'[r].bucket].last - request'[r].due
  BY <1>1, <1>2, <1>3
<1>5. \A s \in Requests : s # r /\ request'[s].at = "cancel"
                          /\ request'[s].bucket = request'[r].bucket =>
            request'[s].due # request'[r].due
  BY <1>1 DEF DebtKept, EdgeInv, DebtInv
<1> QED  BY <1>4, <1>5

\* No bucket of the LRU gets a token, nothing is let through.
BudgetKept ==
    /\ UNCHANGED <<conf, passed, spoilt>>
    /\ \A e \in Cached : e \in Cached'
    /\ \A e \in Cached' : e \in Cached
    /\ \A e \in Cached : bucket'[e.bucket].tokens \in Int
                         /\ bucket'[e.bucket].tokens <= bucket[e.bucket].tokens
    /\ \A s \in Requests : request'[s].at = "cancel" =>
        \/ /\ request[s].at = "cancel" /\ request'[s].bucket = request[s].bucket
           /\ request'[s].due = request[s].due /\ request'[s].layer = request[s].layer
           /\ bucket'[request[s].bucket].last = bucket[request[s].bucket].last
        \/ request'[s].due # bucket'[request'[s].bucket].last

LEMMA CachedBucket ==
    ASSUME EdgeInv, NEW e \in Cached
    PROVE  /\ e.key \in DOMAIN RPS /\ e.bucket \in DOMAIN bucket
           /\ bucket[e.bucket] \in [rate : Nat, tokens : Int, last : Int]
           /\ bucket[e.bucket].rate = RPS[e.key]
<1>1. e \in [key : DOMAIN RPS, bucket : Nat]
  <2>1. PICK i \in DOMAIN lru : e = lru[i]
    BY DEF Cached
  <2>2. lru \in Seq([key : DOMAIN RPS, bucket : Nat])
    BY DEF EdgeInv, EdgeTypes
  <2> QED  BY <2>1, <2>2, SeqElement
<1>2. e.bucket \in DOMAIN bucket /\ bucket[e.bucket].rate = RPS[e.key]
  BY DEF EdgeInv, PairsInv, Pairs
<1>3. bucket \in Seq([rate : Nat, tokens : Int, last : Int])
  BY DEF EdgeInv, EdgeTypes
<1> QED  BY <1>1, <1>2, <1>3, SeqElement

LEMMA BudgetKeptStep ==
    ASSUME EdgeInv, BudgetKept
    PROVE  BudgetInv'
<1> SUFFICES ASSUME NEW k \in DOMAIN RPS, k \notin spoilt
             PROVE  /\ RPS[k] > 0 => passed[k] <= RPS[k]
                    /\ conf.limit = "memory" =>
                        /\ (\A e \in Cached' : e.key # k) => passed[k] = 0
                        /\ \A e \in Cached' : e.key = k =>
                            passed[k] + bucket'[e.bucket].tokens <= RPS[k]
                        /\ \A r \in Requests : request'[r].at = "cancel" /\ Layers[request'[r].layer] = k
                                   /\ request'[r].due = bucket'[request'[r].bucket].last =>
                            passed[k] = 0
  BY DEF BudgetInv, BudgetKept, Key
<1>1. passed[k] \in Nat /\ RPS[k] \in Nat
  BY EdgeAssumption DEF EdgeInv, EdgeTypes
<1>2. /\ RPS[k] > 0 => passed[k] <= RPS[k]
      /\ conf.limit = "memory" =>
            /\ (\A e \in Cached : e.key # k) => passed[k] = 0
            /\ \A e \in Cached : e.key = k => passed[k] + bucket[e.bucket].tokens <= RPS[k]
            /\ \A r \in Requests : request[r].at = "cancel" /\ Layers[request[r].layer] = k
                                   /\ request[r].due = bucket[request[r].bucket].last =>
                passed[k] = 0
  BY DEF EdgeInv, BudgetInv, Key
<1>3. ASSUME conf.limit = "memory", NEW e \in Cached', e.key = k
      PROVE  passed[k] + bucket'[e.bucket].tokens <= RPS[k]
  <2>1. e \in Cached /\ bucket[e.bucket].tokens \in Int
    BY <1>3, CachedBucket DEF BudgetKept
  <2>2. bucket'[e.bucket].tokens \in Int /\ bucket'[e.bucket].tokens <= bucket[e.bucket].tokens
    BY <2>1 DEF BudgetKept
  <2> QED  BY <1>1, <1>2, <1>3, <2>1, <2>2
<1>4. conf.limit = "memory" => ((\A e \in Cached' : e.key # k) => passed[k] = 0)
  BY <1>2 DEF BudgetKept
<1>5. ASSUME conf.limit = "memory", NEW r \in Requests, request'[r].at = "cancel",
             Layers[request'[r].layer] = k, request'[r].due = bucket'[request'[r].bucket].last
      PROVE  passed[k] = 0
  BY <1>2, <1>5 DEF BudgetKept
<1> QED  BY <1>2, <1>3, <1>4, <1>5

----------------------------------------------------------------------------
\* A request that holds no bucket afterwards, and touches none, disturbs nobody.
LEMMA QuietStep ==
    ASSUME EdgeInv, NEW r \in Requests, request' \in [Requests -> EdgeRequest],
           \A s \in Requests : s # r => request'[s] = request[s],
           ~ Holds(r)', UNCHANGED <<conf, bucket, lru>>, \A k \in spoilt : k \in spoilt'
    PROVE  /\ PairsInv' /\ DebtInv'
           /\ UNCHANGED <<passed, spoilt>> => BudgetInv'
<1>1. request'[r].at # "cancel"
  BY DEF Holds
<1>2. Cached' = Cached
  BY DEF Cached
<1>3. \A s \in Requests : Holds(s)' => Holds(s) /\ HeldPair(s)' = HeldPair(s)
  <2> SUFFICES ASSUME NEW s \in Requests, Holds(s)' PROVE Holds(s) /\ HeldPair(s)' = HeldPair(s)
    OBVIOUS
  <2>1. request'[s] = request[s]
    OBVIOUS
  <2> QED  BY <2>1 DEF Holds, HeldPair, Key
<1>4. PairsInv'
  <2>1. PairsKept
    BY <1>2, <1>3 DEF PairsKept
  <2> QED  BY <2>1, PairsKeptStep
<1>5. \A s \in Requests : request'[s].at = "cancel" =>
        /\ request[s].at = "cancel" /\ request'[s] = request[s]
        /\ bucket[request[s].bucket].tokens \in Int
  BY <1>1, HeldBucket DEF Holds
<1>6. DebtInv'
  <2>1. DebtKept
    BY <1>5 DEF DebtKept
  <2> QED  BY <2>1, DebtKeptStep
<1>7. UNCHANGED <<passed, spoilt>> => BudgetInv'
  <2>1. \A e \in Cached : bucket[e.bucket].tokens \in Int
    BY CachedBucket
  <2>2. UNCHANGED <<passed, spoilt>> => BudgetKept
    BY <1>2, <1>5, <2>1 DEF BudgetKept
  <2> QED  BY <2>2, BudgetKeptStep
<1> QED  BY <1>4, <1>6, <1>7

\* Using a key of the LRU only changes the order.
LEMMA UsedIs ==
    ASSUME EdgeTypes, NEW i \in DOMAIN lru, lru' = Used(i)
    PROVE  /\ lru' \in Seq([key : DOMAIN RPS, bucket : Nat])
           /\ \A e \in Cached : e \in Cached'
           /\ \A e \in Cached' : e \in Cached
<1> DEFINE T == [key : DOMAIN RPS, bucket : Nat]
<1>1. lru \in Seq(T)
  BY DEF EdgeTypes
<1> HIDE DEF T
<1>2. DOMAIN lru = 1 .. Len(lru) /\ Len(lru) \in Nat /\ \A j \in DOMAIN lru : lru[j] \in T
  BY <1>1, SeqElement
<1>3. /\ DOMAIN lru' = 1 .. Len(lru)
      /\ \A j \in 1 .. Len(lru) :
            lru'[j] = IF j < i THEN lru[j] ELSE IF j < Len(lru) THEN lru[j + 1] ELSE lru[i]
  BY <1>2 DEF Used
<1>4. \A j \in 1 .. Len(lru) : \E n \in DOMAIN lru : lru'[j] = lru[n]
  <2> SUFFICES ASSUME NEW j \in 1 .. Len(lru) PROVE \E n \in DOMAIN lru : lru'[j] = lru[n]
    OBVIOUS
  <2>1. CASE j < i
    BY <1>2, <1>3, <2>1
  <2>2. CASE ~ (j < i) /\ j < Len(lru)
    <3>1. j + 1 \in DOMAIN lru
      BY <1>2, <2>2
    <3> QED  BY <1>3, <2>2, <3>1
  <2>3. CASE ~ (j < i) /\ ~ (j < Len(lru))
    BY <1>3, <2>3
  <2> QED  BY <2>1, <2>2, <2>3
<1>5. \A n \in DOMAIN lru : \E j \in 1 .. Len(lru) : lru'[j] = lru[n]
  <2> SUFFICES ASSUME NEW n \in DOMAIN lru PROVE \E j \in 1 .. Len(lru) : lru'[j] = lru[n]
    OBVIOUS
  <2>1. CASE n < i
    BY <1>2, <1>3, <2>1
  <2>2. CASE n = i
    <3>1. Len(lru) \in 1 .. Len(lru) /\ ~ (Len(lru) < i)
      BY <1>2
    <3>2. lru'[Len(lru)] = lru[i]
      BY <1>2, <1>3, <3>1
    <3> QED  BY <2>2, <3>1, <3>2
  <2>3. CASE n > i
    <3>1. n - 1 \in 1 .. Len(lru) /\ ~ (n - 1 < i) /\ n - 1 < Len(lru) /\ n - 1 + 1 = n
      BY <1>2, <2>3
    <3>2. lru'[n - 1] = lru[n]
      BY <1>3, <3>1
    <3> QED  BY <3>1, <3>2
  <2> QED  BY <1>2, <2>1, <2>2, <2>3
<1>6. lru' \in Seq(T)
  <2>1. lru' = [j \in 1 .. Len(lru) |-> lru'[j]]
    BY <1>2 DEF Used
  <2>2. \A j \in 1 .. Len(lru) : lru'[j] \in T
    BY <1>2, <1>4
  <2>3. lru' \in [1 .. Len(lru) -> T]
    BY <2>1, <2>2
  <2> QED  BY <1>2, <2>3
<1>7. \A e \in Cached : e \in Cached'
  BY <1>3, <1>5 DEF Cached
<1>8. \A e \in Cached' : e \in Cached
  BY <1>3, <1>4 DEF Cached
<1> QED  BY <1>6, <1>7, <1>8 DEF T

\* A request that finds the bucket of its key holds the one the LRU holds.
LEMMA HitStep ==
    ASSUME EdgeInv, NEW r \in Requests, InLRU(Key(r)), lru' = Used(IndexOf(Key(r))),
           Takes(r, lru[IndexOf(Key(r))].bucket),
           UNCHANGED <<conf, bucket, passed, spoilt>>
    PROVE  /\ lru' \in Seq([key : DOMAIN RPS, bucket : Nat])
           /\ PairsInv' /\ DebtInv' /\ BudgetInv'
<1> DEFINE i == IndexOf(Key(r))
<1>1. i \in DOMAIN lru /\ lru[i].key = Key(r)
  BY DEF InLRU, IndexOf
<1>2. EdgeTypes
  BY DEF EdgeInv
<1>3. /\ lru' \in Seq([key : DOMAIN RPS, bucket : Nat])
      /\ \A e \in Cached : e \in Cached'
      /\ \A e \in Cached' : e \in Cached
  BY <1>1, <1>2, UsedIs
<1>4. lru[i] \in [key : DOMAIN RPS, bucket : Nat]
  BY <1>1, <1>2, SeqElement DEF EdgeTypes
<1>5. /\ request[r].claims \in {NoClaims, "access", "refresh"} /\ request[r].layer \in {1, 2, 3}
      /\ "reserve" \in EdgeStages
  BY <1>2 DEF EdgeTypes, EdgeRequest, EdgeStages
<1>6. Moved(r, "reserve", request[r].claims, request[r].layer, lru[i].bucket, 0)
  BY DEF Takes
<1>7. lru[i].bucket \in Nat /\ 0 \in Int
  BY <1>4
<1>8. /\ request' \in [Requests -> EdgeRequest]
      /\ request'[r].at = "reserve" /\ request'[r].layer = request[r].layer
      /\ request'[r].bucket = lru[i].bucket
      /\ \A s \in Requests : s # r => request'[s] = request[s]
  BY <1>2, <1>5, <1>6, <1>7, MovedIs
<1>9. HeldPair(r)' = lru[i]
  <2>1. Key(r)' = Key(r)
    BY <1>8 DEF Key
  <2> QED  BY <1>1, <1>4, <1>8, <2>1 DEF HeldPair
<1>10. \A s \in Requests : s # r /\ Holds(s)' => Holds(s) /\ HeldPair(s)' = HeldPair(s)
  <2> SUFFICES ASSUME NEW s \in Requests, s # r, Holds(s)'
               PROVE  Holds(s) /\ HeldPair(s)' = HeldPair(s)
    OBVIOUS
  <2>1. request'[s] = request[s]
    BY <1>8
  <2> QED  BY <2>1 DEF Holds, HeldPair, Key
<1>11. lru[i] \in Cached
  BY <1>1 DEF Cached
<1>12. PairsInv'
  <2>1. PairsKept
    BY <1>3, <1>9, <1>10, <1>11 DEF PairsKept
  <2> QED  BY <1>8, <2>1, PairsKeptStep
<1>13. \A s \in Requests : request'[s].at = "cancel" =>
        /\ request[s].at = "cancel" /\ request'[s] = request[s]
        /\ bucket[request[s].bucket].tokens \in Int
  BY <1>8, HeldBucket DEF Holds
<1>14. DebtInv'
  <2>1. DebtKept
    BY <1>13 DEF DebtKept
  <2> QED  BY <2>1, DebtKeptStep
<1>15. BudgetInv'
  <2>1. \A e \in Cached : bucket[e.bucket].tokens \in Int
    BY CachedBucket
  <2>2. BudgetKept
    BY <1>3, <1>13, <2>1 DEF BudgetKept
  <2> QED  BY <2>2, BudgetKeptStep
<1> QED  BY <1>3, <1>12, <1>14, <1>15

\* A new bucket of a key that the LRU does not hold.
Missed(r) ==
    /\ ~ InLRU(Key(r))
    /\ IF Len(lru) = MaxKeys
       THEN lru' = Tail(lru) \o <<Added(r)>> /\ spoilt' = spoilt \cup {lru[1].key}
       ELSE lru' = lru \o <<Added(r)>> /\ UNCHANGED spoilt
    /\ bucket' = Append(bucket, Full(Key(r)))
    /\ Takes(r, Len(bucket) + 1)
    /\ UNCHANGED <<conf, passed>>

\* A sequence with one more element.
LEMMA OneMore ==
    ASSUME NEW S, NEW q \in Seq(S), NEW e \in S
    PROVE  /\ q \o <<e>> \in Seq(S) /\ Len(q \o <<e>>) = Len(q) + 1
           /\ (q \o <<e>>)[Len(q) + 1] = e
           /\ \A j \in 1 .. Len(q) : (q \o <<e>>)[j] = q[j]
OBVIOUS

\* The key of a request is one of the layers, and has a rate.
LEMMA KeyIs ==
    ASSUME EdgeInv, NEW r \in Requests
    PROVE  Key(r) \in DOMAIN RPS /\ RPS[Key(r)] \in Nat
<1>1. request[r].layer \in {1, 2, 3}
  BY DEF EdgeInv, EdgeTypes, EdgeRequest
<1>2. Layers[1] = "global" /\ Layers[2] = "ip" /\ Layers[3] = "user"
  BY DEF Layers
<1>3. Key(r) \in {"global", "ip", "user"}
  BY <1>1, <1>2 DEF Key
<1>4. DOMAIN RPS = {"global", "ip", "user"} /\ \A k \in DOMAIN RPS : RPS[k] \in Nat
  BY EdgeAssumption
<1> QED  BY <1>3, <1>4

\* What is made, what is kept and what is evicted.
LEMMA MissedIs ==
    ASSUME EdgeInv, NEW r \in Requests, Missed(r)
    PROVE  /\ bucket' \in Seq([rate : Nat, tokens : Int, last : Int])
           /\ lru' \in Seq([key : DOMAIN RPS, bucket : Nat])
           /\ DOMAIN bucket \subseteq DOMAIN bucket'
           /\ \A c \in DOMAIN bucket : bucket'[c] = bucket[c]
           /\ Len(bucket) + 1 \in DOMAIN bucket' /\ Len(bucket) + 1 \notin DOMAIN bucket
           /\ bucket'[Len(bucket) + 1] = Full(Key(r))
           /\ Added(r) \in Cached' /\ Key(r) \in DOMAIN RPS
           /\ \A e \in Cached' : e \in Cached \/ e = Added(r)
           /\ \A e \in Cached : e \in Cached' \/ e.key \in spoilt'
           /\ \A e \in Cached : e.key # Key(r)
           /\ \A k \in spoilt : k \in spoilt'
<1> DEFINE T == [rate : Nat, tokens : Int, last : Int]
           E == [key : DOMAIN RPS, bucket : Nat]
<1>1. bucket \in Seq(T) /\ lru \in Seq(E)
  BY DEF EdgeInv, EdgeTypes
<1>2. Key(r) \in DOMAIN RPS
  BY KeyIs
<1>3. Len(bucket) \in Nat
  BY <1>1
<1>4. Full(Key(r)) \in T /\ Added(r) \in E
  <2>1. RPS[Key(r)] \in Nat
    BY <1>2, EdgeAssumption
  <2> QED  BY <1>2, <1>3, <2>1 DEF Full, Added
<1> HIDE DEF T, E
<1> DEFINE a == Added(r)
           f == Full(Key(r))
<1> HIDE DEF a, f
<1>5. /\ bucket' \in Seq(T) /\ DOMAIN bucket \subseteq DOMAIN bucket'
      /\ \A c \in DOMAIN bucket : bucket'[c] = bucket[c]
      /\ Len(bucket) + 1 \in DOMAIN bucket' /\ Len(bucket) + 1 \notin DOMAIN bucket
      /\ bucket'[Len(bucket) + 1] = f
  <2>1. bucket' = Append(bucket, f) /\ f \in T
    BY <1>4 DEF Missed, f
  <2> QED  BY <1>1, <2>1
<1>6. \A e \in Cached : e.key # Key(r)
  BY DEF Missed, InLRU, Cached
<1>7. CASE Len(lru) = MaxKeys
  <2>1. lru' = Tail(lru) \o <<a>> /\ spoilt' = spoilt \cup {lru[1].key} /\ a \in E
    BY <1>4, <1>7 DEF Missed, a
  <2>2. Len(lru) \in Nat /\ Len(lru) > 0
    BY <1>1, <1>7, EdgeAssumption
  <2>3. /\ Tail(lru) \in Seq(E) /\ Len(Tail(lru)) = Len(lru) - 1
        /\ \A j \in 1 .. Len(lru) - 1 : Tail(lru)[j] = lru[j + 1]
    BY <1>1, <2>2
  <2>4. /\ lru' \in Seq(E) /\ Len(lru') = Len(lru)
        /\ \A j \in 1 .. Len(lru) - 1 : lru'[j] = lru[j + 1]
        /\ lru'[Len(lru)] = a
    <3>1. PICK t \in Seq(E) : Len(t) = Len(lru) - 1 /\ lru' = t \o <<a>>
                              /\ \A j \in 1 .. Len(lru) - 1 : t[j] = lru[j + 1]
      BY <2>1, <2>3
    <3>2. lru' \in Seq(E) /\ Len(lru') = Len(t) + 1 /\ lru'[Len(t) + 1] = a
          /\ \A j \in 1 .. Len(t) : lru'[j] = t[j]
      <4>1. a \in E
        BY <2>1
      <4>2. /\ t \o <<a>> \in Seq(E) /\ Len(t \o <<a>>) = Len(t) + 1
            /\ (t \o <<a>>)[Len(t) + 1] = a
            /\ \A j \in 1 .. Len(t) : (t \o <<a>>)[j] = t[j]
        BY <4>1, OneMore
      <4>3. lru' = t \o <<a>>
        BY <3>1
      <4> QED  BY <4>2, <4>3, Zenon
    <3>3. Len(t) + 1 = Len(lru) /\ 1 .. Len(t) = 1 .. Len(lru) - 1
      BY <2>2, <3>1
    <3>4. lru' \in Seq(E) /\ Len(lru') = Len(lru) /\ lru'[Len(lru)] = a
      BY <3>2, <3>3, Zenon
    <3>5. ASSUME NEW j \in 1 .. Len(lru) - 1 PROVE lru'[j] = lru[j + 1]
      BY <3>1, <3>2, <3>3, Zenon
    <3> QED  BY <3>4, <3>5
  <2>5. DOMAIN lru = 1 .. Len(lru) /\ DOMAIN lru' = 1 .. Len(lru)
    BY <1>1, <2>4
  <2>6. a \in Cached'
    BY <2>2, <2>4, <2>5 DEF Cached
  <2>7. ASSUME NEW e \in Cached' PROVE e \in Cached \/ e = a
    <3>1. PICK j \in 1 .. Len(lru) : e = lru'[j]
      BY <2>5, <2>7 DEF Cached
    <3>2. CASE j = Len(lru)
      BY <2>4, <3>1, <3>2
    <3>3. CASE j # Len(lru)
      <4>1. j \in 1 .. Len(lru) - 1 /\ j + 1 \in 1 .. Len(lru)
        BY <2>2, <3>3
      <4> QED  BY <2>4, <2>5, <3>1, <4>1 DEF Cached
    <3> QED  BY <3>2, <3>3
  <2>8. ASSUME NEW e \in Cached PROVE e \in Cached' \/ e.key \in spoilt'
    <3>1. PICK j \in 1 .. Len(lru) : e = lru[j]
      BY <2>5, <2>8 DEF Cached
    <3>2. CASE j = 1
      BY <2>1, <3>1, <3>2
    <3>3. CASE j # 1
      <4>1. j - 1 \in 1 .. Len(lru) - 1 /\ j - 1 \in 1 .. Len(lru) /\ j - 1 + 1 = j
        BY <2>2, <3>3
      <4>2. lru'[j - 1] = e
        BY <2>4, <3>1, <4>1
      <4> QED  BY <2>5, <4>1, <4>2 DEF Cached
    <3> QED  BY <3>2, <3>3
  <2> QED  BY <1>2, <1>5, <1>6, <2>1, <2>4, <2>6, <2>7, <2>8 DEF T, E, a, f
<1>8. CASE Len(lru) # MaxKeys
  <2>1. lru' = lru \o <<a>> /\ spoilt' = spoilt /\ a \in E
    BY <1>4, <1>8 DEF Missed, a
  <2>2. lru' \in Seq(E) /\ Len(lru') = Len(lru) + 1 /\ lru'[Len(lru) + 1] = a
        /\ \A j \in 1 .. Len(lru) : lru'[j] = lru[j]
    BY <1>1, <2>1, OneMore
  <2>3. DOMAIN lru = 1 .. Len(lru) /\ DOMAIN lru' = 1 .. Len(lru) + 1 /\ Len(lru) \in Nat
    BY <1>1, <2>2
  <2>4. a \in Cached'
    BY <2>2, <2>3 DEF Cached
  <2>5. ASSUME NEW e \in Cached' PROVE e \in Cached \/ e = a
    <3>1. PICK j \in 1 .. Len(lru) + 1 : e = lru'[j]
      BY <2>3, <2>5 DEF Cached
    <3>2. j = Len(lru) + 1 \/ j \in 1 .. Len(lru)
      BY <2>3
    <3> QED  BY <2>2, <2>3, <3>1, <3>2 DEF Cached
  <2>6. ASSUME NEW e \in Cached PROVE e \in Cached'
    BY <2>2, <2>3, <2>6 DEF Cached
  <2> QED  BY <1>2, <1>5, <1>6, <2>1, <2>2, <2>4, <2>5, <2>6 DEF T, E, a, f
<1> QED  BY <1>7, <1>8

LEMMA MissStep ==
    ASSUME EdgeInv, NEW r \in Requests, Missed(r)
    PROVE  PairsInv' /\ DebtInv' /\ BudgetInv'
<1> DEFINE n == Len(bucket) + 1
           new == Added(r)
<1>1. /\ DOMAIN bucket \subseteq DOMAIN bucket'
      /\ \A c \in DOMAIN bucket : bucket'[c] = bucket[c]
      /\ n \in DOMAIN bucket' /\ n \notin DOMAIN bucket
      /\ bucket'[n] = Full(Key(r))
      /\ new \in Cached' /\ Key(r) \in DOMAIN RPS
      /\ \A e \in Cached' : e \in Cached \/ e = new
      /\ \A e \in Cached : e \in Cached' \/ e.key \in spoilt'
      /\ \A e \in Cached : e.key # Key(r)
      /\ \A k \in spoilt : k \in spoilt'
  BY MissedIs
<1>2. new.key = Key(r) /\ new.bucket = n
  BY DEF Added
<1>3. bucket'[n].rate = RPS[Key(r)] /\ bucket'[n].tokens = RPS[Key(r)] /\ RPS[Key(r)] \in Nat
  BY <1>1, EdgeAssumption DEF Full
<1>4. EdgeTypes /\ n \in Nat
  BY DEF EdgeInv, EdgeTypes
<1>5. /\ request[r].claims \in {NoClaims, "access", "refresh"} /\ request[r].layer \in {1, 2, 3}
      /\ "reserve" \in EdgeStages /\ 0 \in Int
  BY <1>4 DEF EdgeTypes, EdgeRequest, EdgeStages
<1>6. Moved(r, "reserve", request[r].claims, request[r].layer, n, 0)
  BY DEF Missed, Takes
<1>7. /\ request' \in [Requests -> EdgeRequest]
      /\ request'[r].at = "reserve" /\ request'[r].layer = request[r].layer
      /\ request'[r].bucket = n
      /\ \A s \in Requests : s # r => request'[s] = request[s]
  BY <1>4, <1>5, <1>6, MovedIs
<1>8. Key(r)' = Key(r)
  BY <1>7 DEF Key
<1>9. HeldPair(r)' = new
  BY <1>7, <1>8 DEF HeldPair, Added
<1> HIDE DEF n, new
<1>10. \A s \in Requests : s # r /\ Holds(s)' => Holds(s) /\ HeldPair(s)' = HeldPair(s)
                                                /\ Key(s)' = Key(s)
  <2> SUFFICES ASSUME NEW s \in Requests, s # r, Holds(s)'
               PROVE  Holds(s) /\ HeldPair(s)' = HeldPair(s) /\ Key(s)' = Key(s)
    OBVIOUS
  <2>1. request'[s] = request[s]
    BY <1>7
  <2> QED  BY <2>1 DEF Holds, HeldPair, Key, Missed
<1>11. ASSUME NEW e \in Pairs' PROVE e \in Pairs \/ e = new
  BY <1>1, <1>9, <1>10 DEF Pairs
<1>12. \A e \in Pairs : e.bucket \in DOMAIN bucket /\ bucket'[e.bucket] = bucket[e.bucket]
                        /\ e.bucket # n
  BY <1>1 DEF EdgeInv, PairsInv
<1>13. PairsInv'
  <2>1. \A e \in Pairs' : e.bucket \in DOMAIN bucket' /\ bucket'[e.bucket].rate = RPS[e.key]
    BY <1>1, <1>2, <1>3, <1>11, <1>12 DEF EdgeInv, PairsInv
  <2>2. \A e \in Pairs', f \in Pairs' : e.bucket = f.bucket => e.key = f.key
    BY <1>2, <1>11, <1>12 DEF EdgeInv, PairsInv
  <2>3. \A e \in Cached', f \in Cached' : e.key = f.key => e = f
    BY <1>1, <1>2 DEF EdgeInv, PairsInv
  <2>4. ASSUME NEW s \in Requests, Holds(s)', (Key(s) \notin spoilt)'
        PROVE  HeldPair(s)' \in Cached'
    <3>1. CASE s = r
      BY <1>1, <1>9, <3>1
    <3>2. CASE s # r
      <4>1. Holds(s) /\ HeldPair(s)' = HeldPair(s) /\ Key(s)' = Key(s)
        BY <1>10, <2>4, <3>2
      <4>2. Key(s) \notin spoilt /\ Key(s) \notin spoilt' /\ HeldPair(s).key = Key(s)
        BY <1>1, <2>4, <4>1 DEF HeldPair
      <4>3. HeldPair(s) \in Cached
        BY <4>1, <4>2 DEF EdgeInv, PairsInv
      <4> QED  BY <1>1, <4>1, <4>2, <4>3
    <3> QED  BY <3>1, <3>2
  <2> QED  BY <2>1, <2>2, <2>3, <2>4 DEF PairsInv
<1>14. \A s \in Requests : request'[s].at = "cancel" =>
        /\ request[s].at = "cancel" /\ request'[s] = request[s]
        /\ bucket[request[s].bucket].tokens \in Int /\ request[s].bucket \in DOMAIN bucket
        /\ bucket'[request[s].bucket] = bucket[request[s].bucket]
  BY <1>1, <1>7, HeldBucket DEF Holds
<1>15. DebtInv'
  <2>1. DebtKept
    BY <1>14 DEF DebtKept
  <2> QED  BY <2>1, DebtKeptStep
<1>16. BudgetInv'
  <2> SUFFICES ASSUME NEW k \in DOMAIN RPS, k \notin spoilt'
               PROVE  /\ RPS[k] > 0 => passed[k] <= RPS[k]
                      /\ conf.limit = "memory" =>
                        /\ (\A e \in Cached' : e.key # k) => passed[k] = 0
                        /\ \A e \in Cached' : e.key = k =>
                            passed[k] + bucket'[e.bucket].tokens <= RPS[k]
                        /\ \A s \in Requests : request'[s].at = "cancel" /\ Layers[request'[s].layer] = k
                                   /\ request'[s].due = bucket'[request'[s].bucket].last =>
                            passed[k] = 0
    BY DEF BudgetInv, Key, Missed
  <2>1. k \notin spoilt
    BY <1>1
  <2>2. /\ RPS[k] > 0 => passed[k] <= RPS[k]
        /\ conf.limit = "memory" =>
            /\ (\A e \in Cached : e.key # k) => passed[k] = 0
            /\ \A e \in Cached : e.key = k => passed[k] + bucket[e.bucket].tokens <= RPS[k]
            /\ \A s \in Requests : request[s].at = "cancel" /\ Layers[request[s].layer] = k
                                   /\ request[s].due = bucket[request[s].bucket].last =>
                passed[k] = 0
    BY <2>1 DEF EdgeInv, BudgetInv, Key
  <2>3. conf.limit = "memory" /\ (\A e \in Cached' : e.key # k) => passed[k] = 0
    BY <1>1, <2>2
  <2>4. ASSUME conf.limit = "memory", NEW e \in Cached', e.key = k
        PROVE  passed[k] + bucket'[e.bucket].tokens <= RPS[k]
    <3>1. CASE e \in Cached
      BY <1>12, <2>2, <2>4, <3>1 DEF Pairs
    <3>2. CASE e = new
      <4>1. k = Key(r) /\ passed[k] = 0
        BY <1>1, <1>2, <2>2, <2>4, <3>2
      <4> QED  BY <1>2, <1>3, <3>2, <4>1
    <3> QED  BY <1>1, <2>4, <3>1, <3>2
  <2>5. ASSUME conf.limit = "memory", NEW s \in Requests, request'[s].at = "cancel",
               Layers[request'[s].layer] = k, request'[s].due = bucket'[request'[s].bucket].last
        PROVE  passed[k] = 0
    BY <1>14, <2>2, <2>5
  <2> QED  BY <2>2, <2>3, <2>4, <2>5
<1> QED  BY <1>13, <1>15, <1>16

\* What a step that sets the tokens of the bucket of r, and moves r, does to the pairs.
LEMMA TokensStep ==
    ASSUME EdgeInv, NEW r \in Requests, Holds(r), request' \in [Requests -> EdgeRequest],
           \A s \in Requests : s # r => request'[s] = request[s],
           Holds(r)' => request'[r].layer = request[r].layer
                        /\ request'[r].bucket = request[r].bucket,
           NEW n \in Int,
           bucket' = [bucket EXCEPT ![request[r].bucket] = Holding(bucket[request[r].bucket], n)],
           UNCHANGED <<conf, lru, spoilt>>
    PROVE  /\ bucket' \in Seq([rate : Nat, tokens : Int, last : Int])
           /\ PairsInv' /\ Cached' = Cached
           /\ \A c \in DOMAIN bucket : bucket'[c].last = bucket[c].last
           /\ \A c \in DOMAIN bucket : c # request[r].bucket => bucket'[c].tokens = bucket[c].tokens
           /\ bucket'[request[r].bucket].tokens = n
<1>1. EdgeTypes /\ request[r].bucket \in DOMAIN bucket
  BY HeldBucket DEF EdgeInv
<1>2. /\ bucket' \in Seq([rate : Nat, tokens : Int, last : Int])
      /\ DOMAIN bucket' = DOMAIN bucket
      /\ \A c \in DOMAIN bucket : bucket'[c].rate = bucket[c].rate
      /\ \A c \in DOMAIN bucket : bucket'[c].last = bucket[c].last
      /\ \A c \in DOMAIN bucket : c # request[r].bucket => bucket'[c].tokens = bucket[c].tokens
      /\ bucket'[request[r].bucket].tokens = n
  BY <1>1, HoldingIs
<1>3. Cached' = Cached
  BY DEF Cached
<1>4. \A s \in Requests : Holds(s)' => Holds(s) /\ HeldPair(s)' = HeldPair(s)
  <2> SUFFICES ASSUME NEW s \in Requests, Holds(s)' PROVE Holds(s) /\ HeldPair(s)' = HeldPair(s)
    OBVIOUS
  <2>1. CASE s = r
    BY <2>1 DEF HeldPair, Key
  <2>2. CASE s # r
    <3>1. request'[s] = request[s]
      BY <2>2
    <3> QED  BY <3>1 DEF Holds, HeldPair, Key
  <2> QED  BY <2>1, <2>2
<1>5. PairsKept
  BY <1>2, <1>3, <1>4 DEF PairsKept
<1> QED  BY <1>2, <1>3, <1>5, PairsKeptStep

\* The bucket of r is the only one of its key that counts, and of no other key.
LEMMA OneBucket ==
    ASSUME EdgeInv, NEW r \in Requests, Holds(r)
    PROVE  /\ \A e \in Cached : e.bucket = request[r].bucket => e.key = Key(r)
           /\ Key(r) \notin spoilt =>
                /\ HeldPair(r) \in Cached
                /\ \A e \in Cached : e.key = Key(r) => e.bucket = request[r].bucket
                /\ \A s \in Requests : Holds(s) /\ Key(s) = Key(r) =>
                    request[s].bucket = request[r].bucket
<1>1. \A s \in Requests : HeldPair(s).key = Key(s) /\ HeldPair(s).bucket = request[s].bucket
  BY DEF HeldPair
<1>2. HeldPair(r) \in Pairs /\ \A e \in Cached : e \in Pairs
  BY DEF Pairs
<1>3. \A e \in Cached : e.bucket = request[r].bucket => e.key = Key(r)
  BY <1>1, <1>2 DEF EdgeInv, PairsInv
<1>4. ASSUME Key(r) \notin spoilt
      PROVE  /\ HeldPair(r) \in Cached
             /\ \A e \in Cached : e.key = Key(r) => e.bucket = request[r].bucket
             /\ \A s \in Requests : Holds(s) /\ Key(s) = Key(r) =>
                    request[s].bucket = request[r].bucket
  <2>1. HeldPair(r) \in Cached
    BY <1>4 DEF EdgeInv, PairsInv
  <2>2. \A e \in Cached : e.key = Key(r) => e.bucket = request[r].bucket
    BY <1>1, <2>1 DEF EdgeInv, PairsInv
  <2>3. \A s \in Requests : Holds(s) /\ Key(s) = Key(r) => HeldPair(s) \in Cached
    BY <1>4 DEF EdgeInv, PairsInv
  <2> QED  BY <1>1, <2>1, <2>2, <2>3
<1> QED  BY <1>3, <1>4

\* The invariant of the budget, spelled out for a state that follows.
LEMMA BudgetNext ==
    ASSUME EdgeInv, UNCHANGED <<conf, lru, spoilt>>,
           \A k \in DOMAIN RPS : k \notin spoilt =>
               /\ RPS[k] > 0 => passed'[k] <= RPS[k]
               /\ conf.limit = "memory" =>
                    /\ (\A e \in Cached : e.key # k) => passed'[k] = 0
                    /\ \A e \in Cached : e.key = k => passed'[k] + bucket'[e.bucket].tokens <= RPS[k]
                    /\ \A s \in Requests : request'[s].at = "cancel" /\ Layers[request'[s].layer] = k
                               /\ request'[s].due = bucket'[request'[s].bucket].last =>
                        passed'[k] = 0
    PROVE  BudgetInv'
BY DEF BudgetInv, Cached, Key

\* A token that is there is taken: the request is let through.
LEMMA PassStep ==
    ASSUME EdgeInv, NEW r \in Requests, Reserve(r), bucket[request[r].bucket].tokens - 1 >= 0
    PROVE  /\ bucket' \in Seq([rate : Nat, tokens : Int, last : Int])
           /\ PairsInv' /\ DebtInv' /\ BudgetInv'
<1> DEFINE b == request[r].bucket
           left == bucket[b].tokens - 1
<1>1. Holds(r) /\ EdgeTypes
  BY DEF Reserve, Holds, EdgeInv
<1>2. /\ b \in DOMAIN bucket /\ bucket[b] \in [rate : Nat, tokens : Int, last : Int]
      /\ Key(r) \in DOMAIN RPS /\ RPS[Key(r)] \in Nat
  BY <1>1, HeldBucket, KeyIs
<1>3. left \in Int /\ left >= 0 /\ bucket[b].tokens = left + 1
  BY <1>2
<1>4. /\ bucket' = [bucket EXCEPT ![b] = Holding(bucket[b], left)]
      /\ AfterLayer(r, request[r].layer) /\ passed' = [passed EXCEPT ![Key(r)] = @ + 1]
      /\ UNCHANGED <<conf, lru, spoilt>> /\ conf.limit = "memory"
  BY DEF Reserve
<1>5. PICK at \in {"get", "reserve", "group"}, l \in {1, 2, 3}, new \in Nat, d \in Int :
             /\ Moved(r, at, request[r].claims, l, new, d)
             /\ at = "reserve" => conf.limit # "memory"
  BY <1>1, <1>4, AfterLayerIs
<1>6. at \in EdgeStages /\ request[r].claims \in {NoClaims, "access", "refresh"}
  BY <1>1 DEF EdgeTypes, EdgeRequest, EdgeStages
<1>7. /\ request' \in [Requests -> EdgeRequest] /\ request'[r].at = at
      /\ \A s \in Requests : s # r => request'[s] = request[s]
  BY <1>1, <1>5, <1>6, MovedIs
<1>8. request'[r].at # "cancel" /\ ~ Holds(r)'
  BY <1>4, <1>5, <1>7 DEF Holds
<1>9. /\ bucket' \in Seq([rate : Nat, tokens : Int, last : Int])
      /\ PairsInv'
      /\ \A c \in DOMAIN bucket : bucket'[c].last = bucket[c].last
      /\ \A c \in DOMAIN bucket : c # b => bucket'[c].tokens = bucket[c].tokens
      /\ bucket'[b].tokens = left
  BY <1>1, <1>3, <1>4, <1>7, <1>8, TokensStep
<1> HIDE DEF b, left
<1>10. \A s \in Requests : request'[s].at = "cancel" =>
        /\ request[s].at = "cancel" /\ request'[s] = request[s] /\ Holds(s)
        /\ request[s].bucket \in DOMAIN bucket
        /\ bucket[request[s].bucket].tokens \in Int /\ bucket[request[s].bucket].last \in Int
  BY <1>7, <1>8, HeldBucket DEF Holds
<1>11. DebtInv'
  <2>1. ASSUME NEW c \in DOMAIN bucket, bucket[c].tokens \in Int
        PROVE  bucket'[c].tokens \in Int /\ bucket'[c].tokens <= bucket[c].tokens
    <3>1. CASE c = b
      <4>1. bucket'[c].tokens = left /\ bucket[c].tokens = left + 1
        BY <1>3, <1>9, <3>1
      <4> QED  BY <1>3, <4>1
    <3>2. CASE c # b
      <4>1. bucket'[c].tokens = bucket[c].tokens
        BY <1>9, <3>2
      <4> QED  BY <2>1, <4>1
    <3> QED  BY <3>1, <3>2
  <2>2. \A s \in Requests : request'[s].at = "cancel" =>
          /\ bucket'[request[s].bucket].last = bucket[request[s].bucket].last
          /\ bucket'[request[s].bucket].tokens <= bucket[request[s].bucket].tokens
          /\ bucket'[request[s].bucket].tokens \in Int
    BY <1>9, <1>10, <2>1
  <2>3. DebtKept
    BY <1>10, <2>2 DEF DebtKept
  <2> QED  BY <2>3, DebtKeptStep
<1>12. BudgetInv'
  <2>1. ASSUME NEW k \in DOMAIN RPS, k \notin spoilt
        PROVE  /\ RPS[k] > 0 => passed'[k] <= RPS[k]
               /\ (\A e \in Cached : e.key # k) => passed'[k] = 0
               /\ \A e \in Cached : e.key = k => passed'[k] + bucket'[e.bucket].tokens <= RPS[k]
               /\ \A s \in Requests : request'[s].at = "cancel" /\ Layers[request'[s].layer] = k
                               /\ request'[s].due = bucket'[request'[s].bucket].last =>
                        passed'[k] = 0
    <3>1. /\ RPS[k] > 0 => passed[k] <= RPS[k]
          /\ (\A e \in Cached : e.key # k) => passed[k] = 0
          /\ \A e \in Cached : e.key = k => passed[k] + bucket[e.bucket].tokens <= RPS[k]
          /\ \A s \in Requests : request[s].at = "cancel" /\ Layers[request[s].layer] = k
                                 /\ request[s].due = bucket[request[s].bucket].last =>
                passed[k] = 0
      BY <1>4, <2>1 DEF EdgeInv, BudgetInv, Key
    <3>2. passed[k] \in Nat /\ passed[Key(r)] \in Nat /\ RPS[k] \in Nat
      BY <1>1, <1>2, <2>1, EdgeAssumption DEF EdgeTypes
    <3>3. passed'[k] = IF k = Key(r) THEN passed[k] + 1 ELSE passed[k]
      BY <1>1, <1>4, <2>1 DEF EdgeTypes
    <3>4. CASE k # Key(r)
      <4>1. \A e \in Cached : e.key = k => e.bucket # b /\ e.bucket \in DOMAIN bucket
        BY <1>1, <3>4, OneBucket, CachedBucket DEF b
      <4>2. \A e \in Cached : e.key = k => bucket'[e.bucket].tokens = bucket[e.bucket].tokens
        BY <1>9, <4>1
      <4>3. \A s \in Requests : request'[s].at = "cancel" =>
                request[s].at = "cancel" /\ request'[s] = request[s]
                /\ bucket'[request[s].bucket].last = bucket[request[s].bucket].last
        BY <1>9, <1>10
      <4> QED  BY <3>1, <3>3, <3>4, <4>2, <4>3
    <3>5. CASE k = Key(r)
      <4>1. /\ HeldPair(r) \in Cached
            /\ \A e \in Cached : e.key = k => e.bucket = b
            /\ \A s \in Requests : Holds(s) /\ Key(s) = k => request[s].bucket = b
        BY <1>1, <2>1, <3>5, OneBucket DEF b
      <4>2. HeldPair(r).key = k /\ HeldPair(r).bucket = b
        BY <3>5 DEF HeldPair, b
      <4>3. passed[k] + (left + 1) <= RPS[k]
        BY <1>3, <3>1, <4>1, <4>2
      <4>4. passed'[k] + left <= RPS[k] /\ passed'[k] <= RPS[k] /\ passed'[k] \in Nat
        BY <1>3, <3>2, <3>3, <3>5, <4>3
      <4>5. ASSUME NEW s \in Requests, request'[s].at = "cancel", Layers[request'[s].layer] = k,
                   request'[s].due = bucket'[request'[s].bucket].last
            PROVE  FALSE
        <5>1. /\ request[s].at = "cancel" /\ request'[s] = request[s] /\ Holds(s)
              /\ bucket[request[s].bucket].last \in Int
          BY <1>10, <4>5
        <5>2. request[s].bucket = b
          BY <4>1, <4>5, <5>1 DEF Key
        <5>3. request[s].due = bucket[b].last
          BY <1>2, <1>9, <4>5, <5>1, <5>2
        <5>4. bucket[b].tokens <= bucket[b].last - request[s].due
          BY <1>2, <5>1, <5>2, <5>3 DEF EdgeInv, DebtInv
        <5> QED  BY <1>2, <1>3, <5>3, <5>4
      <4> QED  BY <1>9, <4>1, <4>2, <4>4, <4>5
    <3> QED  BY <3>4, <3>5
  <2> QED  BY <1>4, <2>1, BudgetNext
<1> QED  BY <1>9, <1>11, <1>12

\* No token is there: the request waits for one that nobody else waits for.
LEMMA DelayStep ==
    ASSUME EdgeInv, NEW r \in Requests, Reserve(r), ~ (bucket[request[r].bucket].tokens - 1 >= 0)
    PROVE  /\ bucket' \in Seq([rate : Nat, tokens : Int, last : Int])
           /\ PairsInv' /\ DebtInv' /\ BudgetInv'
<1> DEFINE b == request[r].bucket
           left == bucket[b].tokens - 1
           due == bucket[b].last - left
<1>1. Holds(r) /\ EdgeTypes
  BY DEF Reserve, Holds, EdgeInv
<1>2. b \in DOMAIN bucket /\ bucket[b] \in [rate : Nat, tokens : Int, last : Int] /\ b \in Nat
  BY <1>1, HeldBucket DEF EdgeTypes, EdgeRequest
<1>3. /\ left \in Int /\ left < 0 /\ bucket[b].tokens = left + 1 /\ due \in Int
      /\ due = bucket[b].last - left /\ bucket[b].last \in Int
  BY <1>2
<1>4. /\ bucket' = [bucket EXCEPT ![b] = Holding(bucket[b], left)]
      /\ Moved(r, "cancel", request[r].claims, request[r].layer, b, due)
      /\ UNCHANGED <<conf, lru, spoilt, passed>>
  BY DEF Reserve
<1>5. /\ "cancel" \in EdgeStages /\ request[r].claims \in {NoClaims, "access", "refresh"}
      /\ request[r].layer \in {1, 2, 3}
  BY <1>1 DEF EdgeTypes, EdgeRequest, EdgeStages
<1>6. /\ request' \in [Requests -> EdgeRequest] /\ request'[r].at = "cancel"
      /\ request'[r].layer = request[r].layer /\ request'[r].bucket = b /\ request'[r].due = due
      /\ \A s \in Requests : s # r => request'[s] = request[s]
  BY <1>1, <1>2, <1>3, <1>4, <1>5, MovedIs
<1>7. /\ bucket' \in Seq([rate : Nat, tokens : Int, last : Int])
      /\ PairsInv' /\ Cached' = Cached
      /\ \A c \in DOMAIN bucket : bucket'[c].last = bucket[c].last
      /\ \A c \in DOMAIN bucket : c # b => bucket'[c].tokens = bucket[c].tokens
      /\ bucket'[b].tokens = left
  BY <1>1, <1>3, <1>4, <1>6, TokensStep
<1> HIDE DEF b, left, due
<1>8. ASSUME NEW c \in DOMAIN bucket, bucket[c].tokens \in Int
      PROVE  bucket'[c].tokens \in Int /\ bucket'[c].tokens <= bucket[c].tokens
  <2>1. CASE c = b
    <3>1. bucket'[c].tokens = left /\ bucket[c].tokens = left + 1
      BY <1>3, <1>7, <2>1
    <3> QED  BY <1>3, <3>1
  <2>2. CASE c # b
    <3>1. bucket'[c].tokens = bucket[c].tokens
      BY <1>7, <2>2
    <3> QED  BY <1>8, <3>1
  <2> QED  BY <2>1, <2>2
<1>9. ASSUME NEW s \in Requests, s # r, request'[s].at = "cancel"
      PROVE  /\ request[s].at = "cancel" /\ request'[s] = request[s]
             /\ request[s].due \in Int /\ request[s].bucket \in DOMAIN bucket
             /\ bucket[request[s].bucket].tokens \in Int /\ bucket[request[s].bucket].last \in Int
             /\ bucket'[request[s].bucket].last = bucket[request[s].bucket].last
             /\ bucket'[request[s].bucket].tokens \in Int
             /\ bucket'[request[s].bucket].tokens <= bucket[request[s].bucket].tokens
             /\ request[s].due >= bucket[request[s].bucket].last
                  => bucket[request[s].bucket].tokens <= bucket[request[s].bucket].last - request[s].due
  <2>1. request[s].at = "cancel" /\ request'[s] = request[s] /\ Holds(s)
    BY <1>6, <1>9 DEF Holds
  <2>2. /\ request[s].bucket \in DOMAIN bucket /\ request[s].due \in Int
        /\ bucket[request[s].bucket].tokens \in Int /\ bucket[request[s].bucket].last \in Int
    BY <1>1, <2>1, HeldBucket DEF EdgeTypes, EdgeRequest
  <2>3. request[s].due >= bucket[request[s].bucket].last
          => bucket[request[s].bucket].tokens <= bucket[request[s].bucket].last - request[s].due
    BY <2>1 DEF EdgeInv, DebtInv
  <2> QED  BY <1>7, <1>8, <2>1, <2>2, <2>3
<1>10. ASSUME NEW s \in Requests, s # r, request'[s].at = "cancel", request'[s].bucket = b
       PROVE  request'[s].due # due
  <2>1. /\ request'[s].due = request[s].due /\ request[s].due \in Int /\ request[s].bucket = b
        /\ request[s].due >= bucket[b].last => bucket[b].tokens <= bucket[b].last - request[s].due
    BY <1>9, <1>10
  <2> QED  BY <1>3, <2>1
<1>11. DebtInv'
  <2> SUFFICES ASSUME NEW s \in Requests, request'[s].at = "cancel"
               PROVE  /\ request'[s].due >= bucket'[request'[s].bucket].last
                         => bucket'[request'[s].bucket].tokens
                              <= bucket'[request'[s].bucket].last - request'[s].due
                      /\ \A q \in Requests : q # s /\ request'[q].at = "cancel"
                               /\ request'[q].bucket = request'[s].bucket =>
                            request'[q].due # request'[s].due
    BY DEF DebtInv
  <2>1. CASE s = r
    <3>1. bucket'[b].tokens <= bucket'[b].last - due
      BY <1>2, <1>3, <1>7
    <3> QED  BY <1>6, <1>10, <2>1, <3>1
  <2>2. CASE s # r
    <3>1. /\ request[s].at = "cancel" /\ request'[s] = request[s] /\ request[s].due \in Int
          /\ bucket[request[s].bucket].tokens \in Int /\ bucket[request[s].bucket].last \in Int
          /\ bucket'[request[s].bucket].last = bucket[request[s].bucket].last
          /\ bucket'[request[s].bucket].tokens \in Int
          /\ bucket'[request[s].bucket].tokens <= bucket[request[s].bucket].tokens
          /\ request[s].due >= bucket[request[s].bucket].last
               => bucket[request[s].bucket].tokens <= bucket[request[s].bucket].last - request[s].due
      BY <1>9, <2>2
    <3>2. request'[s].due >= bucket'[request'[s].bucket].last
            => bucket'[request'[s].bucket].tokens <= bucket'[request'[s].bucket].last - request'[s].due
      BY <3>1
    <3>3. ASSUME NEW q \in Requests, q # s, request'[q].at = "cancel",
                 request'[q].bucket = request'[s].bucket
          PROVE  request'[q].due # request'[s].due
      <4>1. CASE q = r
        BY <1>6, <1>10, <2>2, <3>3, <4>1
      <4>2. CASE q # r
        <5>1. request[q].at = "cancel" /\ request'[q] = request[q]
          BY <1>9, <3>3, <4>2
        <5> QED  BY <3>1, <3>3, <5>1 DEF EdgeInv, DebtInv
      <4> QED  BY <4>1, <4>2
    <3> QED  BY <3>2, <3>3
  <2> QED  BY <2>1, <2>2
<1>12. BudgetInv'
  <2>1. \A e \in Cached : bucket'[e.bucket].tokens \in Int
                          /\ bucket'[e.bucket].tokens <= bucket[e.bucket].tokens
    BY <1>8, CachedBucket
  <2>2. request'[r].due # bucket'[request'[r].bucket].last
    BY <1>2, <1>3, <1>6, <1>7
  <2>3. \A s \in Requests : s # r /\ request'[s].at = "cancel" =>
          /\ request[s].at = "cancel" /\ request'[s] = request[s]
          /\ bucket'[request[s].bucket].last = bucket[request[s].bucket].last
    BY <1>9
  <2>4. BudgetKept
    BY <1>4, <1>7, <2>1, <2>2, <2>3 DEF BudgetKept
  <2> QED  BY <2>4, BudgetKeptStep
<1> QED  BY <1>7, <1>11, <1>12

\* A token given back is one that nobody reserved over, and that this second's
\* budget has room for.
LEMMA CancelStep ==
    ASSUME EdgeInv, NEW r \in Requests, Cancel(r)
    PROVE  /\ bucket' \in Seq([rate : Nat, tokens : Int, last : Int])
           /\ PairsInv' /\ DebtInv' /\ BudgetInv'
<1> DEFINE b == request[r].bucket
           tokens == bucket[b].tokens
           back == IF GivesBack(r) THEN 1 ELSE 0
<1>1. Holds(r) /\ EdgeTypes /\ conf.limit = "memory" /\ RPS[Key(r)] > 0 /\ request[r].at = "cancel"
  BY DEF Cancel, Holds, EdgeInv, LayerInv
<1>2. /\ b \in DOMAIN bucket /\ bucket[b] \in [rate : Nat, tokens : Int, last : Int] /\ b \in Nat
      /\ Key(r) \in DOMAIN RPS /\ RPS[Key(r)] \in Nat /\ request[r].due \in Int
  BY <1>1, HeldBucket, KeyIs DEF EdgeTypes, EdgeRequest
<1>3. /\ tokens \in Int /\ bucket[b].tokens = tokens /\ back \in {0, 1} /\ tokens + back \in Int
      /\ bucket[b].last \in Int
      /\ back = 1 => request[r].due >= bucket[b].last /\ tokens = bucket[b].last - request[r].due
  BY <1>2 DEF GivesBack
<1>4. /\ bucket' = [bucket EXCEPT ![b] = Holding(bucket[b], tokens + back)]
      /\ Moved(r, "limited", NoClaims, 1, 0, 0)
      /\ UNCHANGED <<conf, lru, spoilt, passed>>
  BY DEF Cancel, Ended
<1>5. "limited" \in EdgeStages
  BY DEF EdgeStages
<1>6. /\ request' \in [Requests -> EdgeRequest] /\ request'[r].at = "limited"
      /\ \A s \in Requests : s # r => request'[s] = request[s]
  BY <1>1, <1>4, <1>5, MovedIs
<1>7. ~ Holds(r)'
  BY <1>6 DEF Holds
<1>8. /\ bucket' \in Seq([rate : Nat, tokens : Int, last : Int])
      /\ PairsInv' /\ Cached' = Cached
      /\ \A c \in DOMAIN bucket : bucket'[c].last = bucket[c].last
      /\ \A c \in DOMAIN bucket : c # b => bucket'[c].tokens = bucket[c].tokens
      /\ bucket'[b].tokens = tokens + back
  BY <1>1, <1>3, <1>4, <1>6, <1>7, TokensStep
<1> HIDE DEF b, tokens, back
<1>9. ASSUME NEW s \in Requests, request'[s].at = "cancel"
      PROVE  /\ s # r /\ request[s].at = "cancel" /\ request'[s] = request[s]
             /\ request[s].due \in Int /\ request[s].bucket \in DOMAIN bucket
             /\ bucket[request[s].bucket].tokens \in Int /\ bucket[request[s].bucket].last \in Int
             /\ bucket'[request[s].bucket].last = bucket[request[s].bucket].last
             /\ request[s].due >= bucket[request[s].bucket].last
                  => bucket[request[s].bucket].tokens <= bucket[request[s].bucket].last - request[s].due
             /\ request[s].bucket = b => request[s].due # request[r].due
  <2>1. s # r /\ request[s].at = "cancel" /\ request'[s] = request[s] /\ Holds(s)
    BY <1>6, <1>9 DEF Holds
  <2>2. /\ request[s].bucket \in DOMAIN bucket /\ request[s].due \in Int
        /\ bucket[request[s].bucket].tokens \in Int /\ bucket[request[s].bucket].last \in Int
    BY <1>1, <2>1, HeldBucket DEF EdgeTypes, EdgeRequest
  <2>3. /\ request[s].due >= bucket[request[s].bucket].last
             => bucket[request[s].bucket].tokens <= bucket[request[s].bucket].last - request[s].due
        /\ request[s].bucket = b => request[s].due # request[r].due
    BY <1>1, <2>1 DEF EdgeInv, DebtInv, b
  <2> QED  BY <1>8, <2>1, <2>2, <2>3
<1>10. DebtInv'
  <2> SUFFICES ASSUME NEW s \in Requests, request'[s].at = "cancel"
               PROVE  /\ request'[s].due >= bucket'[request'[s].bucket].last
                         => bucket'[request'[s].bucket].tokens
                              <= bucket'[request'[s].bucket].last - request'[s].due
                      /\ \A q \in Requests : q # s /\ request'[q].at = "cancel"
                               /\ request'[q].bucket = request'[s].bucket =>
                            request'[q].due # request'[s].due
    BY DEF DebtInv
  <2> DEFINE c == request[s].bucket
  <2>1. /\ s # r /\ request[s].at = "cancel" /\ request'[s] = request[s] /\ request[s].due \in Int
        /\ c \in DOMAIN bucket /\ bucket[c].tokens \in Int /\ bucket[c].last \in Int
        /\ bucket'[c].last = bucket[c].last
        /\ request[s].due >= bucket[c].last => bucket[c].tokens <= bucket[c].last - request[s].due
        /\ c = b => request[s].due # request[r].due
    BY <1>9
  <2> HIDE DEF c
  <2>2. request[s].due >= bucket[c].last => bucket'[c].tokens <= bucket[c].last - request[s].due
    <3>1. CASE c # b
      BY <1>8, <2>1, <3>1
    <3>2. CASE c = b
      <4>1. /\ bucket'[c].tokens = tokens + back /\ bucket[c].tokens = tokens
            /\ request[s].due # request[r].due /\ request[s].due \in Int /\ bucket[c].last \in Int
            /\ request[s].due >= bucket[c].last => tokens <= bucket[c].last - request[s].due
        BY <1>3, <1>8, <2>1, <3>2
      <4>2. back = 1 => request[r].due >= bucket[c].last /\ tokens = bucket[c].last - request[r].due
        BY <1>3, <3>2
      <4>3. request[s].due >= bucket[c].last => tokens + back <= bucket[c].last - request[s].due
        BY <1>2, <1>3, <4>1, <4>2
      <4> QED  BY <4>1, <4>3
    <3> QED  BY <3>1, <3>2
  <2>3. ASSUME NEW q \in Requests, q # s, request'[q].at = "cancel",
               request'[q].bucket = request'[s].bucket
        PROVE  request'[q].due # request'[s].due
    <3>1. request[q].at = "cancel" /\ request'[q] = request[q]
      BY <1>9, <2>3
    <3> QED  BY <2>1, <2>3, <3>1 DEF EdgeInv, DebtInv
  <2>4. request'[s].bucket = c /\ request'[s].due = request[s].due
    BY <2>1 DEF c
  <2> QED  BY <2>1, <2>2, <2>3, <2>4
<1>11. BudgetInv'
  <2>1. ASSUME NEW k \in DOMAIN RPS, k \notin spoilt
        PROVE  /\ RPS[k] > 0 => passed'[k] <= RPS[k]
               /\ (\A e \in Cached : e.key # k) => passed'[k] = 0
               /\ \A e \in Cached : e.key = k => passed'[k] + bucket'[e.bucket].tokens <= RPS[k]
               /\ \A s \in Requests : request'[s].at = "cancel" /\ Layers[request'[s].layer] = k
                               /\ request'[s].due = bucket'[request'[s].bucket].last =>
                        passed'[k] = 0
    <3>1. /\ RPS[k] > 0 => passed[k] <= RPS[k]
          /\ (\A e \in Cached : e.key # k) => passed[k] = 0
          /\ \A e \in Cached : e.key = k => passed[k] + bucket[e.bucket].tokens <= RPS[k]
          /\ \A s \in Requests : request[s].at = "cancel" /\ Layers[request[s].layer] = k
                                 /\ request[s].due = bucket[request[s].bucket].last =>
                passed[k] = 0
      BY <1>1, <2>1 DEF EdgeInv, BudgetInv, Key
    <3>2. passed[k] \in Nat /\ RPS[k] \in Nat /\ passed'[k] = passed[k]
      BY <1>1, <1>4, <2>1, EdgeAssumption DEF EdgeTypes
    <3>3. ASSUME NEW e \in Cached, e.key = k
          PROVE  passed[k] + bucket'[e.bucket].tokens <= RPS[k]
      <4>1. e.bucket \in DOMAIN bucket /\ passed[k] + bucket[e.bucket].tokens <= RPS[k]
        BY <3>1, <3>3, CachedBucket
      <4>2. CASE e.bucket # b
        BY <1>8, <4>1, <4>2
      <4>3. CASE e.bucket = b
        <5>1. Key(r) = k
          BY <1>1, <3>3, <4>3, OneBucket DEF b
        <5>2. request[r].due = bucket[b].last => passed[k] = 0
          BY <1>1, <3>1, <5>1 DEF Key, b
        <5>3. RPS[k] >= 1 /\ passed[k] <= RPS[k] /\ passed[k] + tokens <= RPS[k]
          BY <1>1, <1>2, <1>3, <3>1, <4>1, <4>3, <5>1
        <5>4. passed[k] + (tokens + back) <= RPS[k]
          BY <1>2, <1>3, <3>2, <5>2, <5>3
        <5> QED  BY <1>8, <4>3, <5>4
      <4> QED  BY <4>2, <4>3
    <3>4. \A s \in Requests : request'[s].at = "cancel" =>
                request[s].at = "cancel" /\ request'[s] = request[s]
                /\ bucket'[request[s].bucket].last = bucket[request[s].bucket].last
      BY <1>9
    <3> QED  BY <3>1, <3>2, <3>3, <3>4
  <2> QED  BY <1>4, <2>1, BudgetNext
<1> QED  BY <1>8, <1>10, <1>11

\* Redis lets a key's rate through, and counts for itself when it fails.
LEMMA RedisStep ==
    ASSUME EdgeInv, NEW r \in Requests, RedisAllow(r) \/ RedisFails(r)
    PROVE  PairsInv' /\ DebtInv' /\ BudgetInv' /\ passed' \in [DOMAIN RPS -> Nat]
<1>1. /\ EdgeTypes /\ conf.limit = "redis" /\ UNCHANGED <<conf, bucket, lru>>
      /\ \A k \in spoilt : k \in spoilt'
  BY DEF EdgeInv, RedisAllow, RedisFails
<1>2. Key(r) \in DOMAIN RPS /\ RPS[Key(r)] \in Nat /\ passed \in [DOMAIN RPS -> Nat]
  BY <1>1, KeyIs DEF EdgeTypes
<1>3. /\ request' \in [Requests -> EdgeRequest] /\ request'[r].at # "cancel"
      /\ \A s \in Requests : s # r => request'[s] = request[s]
  <2>1. AfterLayer(r, request[r].layer) \/ Ended(r, "limited")
    BY DEF RedisAllow, RedisFails
  <2>2. GoesOn(r)
    BY LayersGoOn
  <2>3. request' \in [Requests -> EdgeRequest]
    BY <1>1, <2>2, GoesOnStep
  <2>4. CASE AfterLayer(r, request[r].layer)
    <3>1. PICK at \in {"get", "reserve", "group"}, l \in {1, 2, 3}, b \in Nat, d \in Int :
             Moved(r, at, request[r].claims, l, b, d)
      BY <1>1, <2>4, AfterLayerIs
    <3>2. at \in EdgeStages /\ request[r].claims \in {NoClaims, "access", "refresh"}
      BY <1>1 DEF EdgeTypes, EdgeRequest, EdgeStages
    <3>3. request'[r].at = at /\ \A s \in Requests : s # r => request'[s] = request[s]
      BY <1>1, <3>1, <3>2, MovedIs
    <3> QED  BY <2>3, <3>3
  <2>5. CASE Ended(r, "limited")
    <3>1. Moved(r, "limited", NoClaims, 1, 0, 0) /\ "limited" \in EdgeStages
      BY <2>5 DEF Ended, EdgeStages
    <3>2. request'[r].at = "limited" /\ \A s \in Requests : s # r => request'[s] = request[s]
      BY <1>1, <3>1, MovedIs
    <3> QED  BY <2>3, <3>2
  <2> QED  BY <2>1, <2>4, <2>5
<1>4. ~ Holds(r)'
  BY <1>1, <1>3 DEF Holds
<1>5. PairsInv' /\ DebtInv'
  BY <1>1, <1>3, <1>4, QuietStep
<1>6. passed' = passed \/ passed' = [passed EXCEPT ![Key(r)] = @ + 1]
  BY DEF RedisAllow, RedisFails
<1>7. passed' \in [DOMAIN RPS -> Nat]
  BY <1>2, <1>6
<1>8. BudgetInv'
  <2> SUFFICES ASSUME NEW k \in DOMAIN RPS, k \notin spoilt', RPS[k] > 0 PROVE passed'[k] <= RPS[k]
    BY <1>1 DEF BudgetInv
  <2>1. k \notin spoilt /\ passed[k] <= RPS[k] /\ passed[k] \in Nat /\ RPS[k] \in Nat
    BY <1>1, <1>2, EdgeAssumption DEF EdgeInv, BudgetInv
  <2>2. CASE RedisAllow(r)
    <3>1. CASE passed[Key(r)] < RPS[Key(r)]
      <4>1. passed' = [passed EXCEPT ![Key(r)] = @ + 1]
        BY <2>2, <3>1 DEF RedisAllow
      <4> QED  BY <1>2, <2>1, <3>1, <4>1
    <3>2. CASE ~ (passed[Key(r)] < RPS[Key(r)])
      <4>1. passed' = passed
        BY <2>2, <3>2 DEF RedisAllow
      <4> QED  BY <2>1, <4>1
    <3> QED  BY <3>1, <3>2
  <2>3. CASE RedisFails(r)
    <3>1. spoilt' = spoilt \cup {Key(r)} /\ passed' = [passed EXCEPT ![Key(r)] = @ + 1]
      BY <2>3 DEF RedisFails
    <3>2. k # Key(r)
      BY <3>1
    <3> QED  BY <1>2, <2>1, <3>1, <3>2
  <2> QED  BY <2>2, <2>3
<1> QED  BY <1>5, <1>7, <1>8

\* A second pays debts before it fills a bucket.
LEMMA SecondStep ==
    ASSUME EdgeInv, Second
    PROVE  /\ bucket' \in Seq([rate : Nat, tokens : Int, last : Int])
           /\ passed' \in [DOMAIN RPS -> Nat]
           /\ PairsInv' /\ DebtInv' /\ BudgetInv'
<1> DEFINE T == [rate : Nat, tokens : Int, last : Int]
<1>1. /\ EdgeTypes /\ bucket \in Seq(T) /\ UNCHANGED <<conf, request, lru, spoilt>>
      /\ passed' = [k \in DOMAIN RPS |-> 0]
  BY DEF EdgeInv, EdgeTypes, Second
<1>2. \A c \in DOMAIN bucket : bucket[c] \in T
  BY <1>1, SeqElement
<1>3. /\ DOMAIN bucket' = DOMAIN bucket
      /\ \A c \in DOMAIN bucket :
            /\ bucket'[c].rate = bucket[c].rate
            /\ bucket'[c].last = bucket[c].last + bucket[c].rate
            /\ bucket'[c].tokens = bucket[c].rate + Smaller(bucket[c].tokens, 0)
  BY DEF Second
<1>4. \A c \in DOMAIN bucket : bucket'[c] \in T
  <2>1. \A c \in DOMAIN bucket : Smaller(bucket[c].tokens, 0) \in Int
    BY <1>2 DEF Smaller
  <2>2. \A c \in DOMAIN bucket :
          bucket'[c] = [rate |-> bucket[c].rate, last |-> bucket[c].last + bucket[c].rate,
                        tokens |-> bucket[c].rate + Smaller(bucket[c].tokens, 0)]
    BY DEF Second
  <2>3. \A c \in DOMAIN bucket :
          /\ bucket[c].rate \in Nat /\ bucket[c].last + bucket[c].rate \in Int
          /\ bucket[c].rate + Smaller(bucket[c].tokens, 0) \in Int
    BY <1>2, <2>1
  <2>4. ASSUME NEW i \in Nat, NEW j \in Int, NEW k \in Int
        PROVE  [rate |-> i, last |-> j, tokens |-> k] \in T
    OBVIOUS
  <2> HIDE DEF T
  <2> QED  BY <2>2, <2>3, <2>4
<1>5. bucket' \in Seq(T)
  <2> HIDE DEF T
  <2>1. DOMAIN bucket = 1 .. Len(bucket) /\ Len(bucket) \in Nat
    BY <1>1
  <2>2. bucket' = [c \in 1 .. Len(bucket) |-> bucket'[c]]
    BY <2>1 DEF Second
  <2>3. bucket' \in [1 .. Len(bucket) -> T]
    BY <1>4, <2>1, <2>2
  <2> QED  BY <2>1, <2>3
<1>6. passed' \in [DOMAIN RPS -> Nat]
  BY <1>1
<1>7. PairsInv'
  <2>1. Cached' = Cached
    BY <1>1 DEF Cached
  <2>2. \A s \in Requests : Holds(s)' => Holds(s) /\ HeldPair(s)' = HeldPair(s)
    BY <1>1 DEF Holds, HeldPair, Key
  <2>3. PairsKept
    BY <1>1, <1>3, <2>1, <2>2 DEF PairsKept
  <2>4. request' \in [Requests -> EdgeRequest]
    BY <1>1 DEF EdgeTypes
  <2> QED  BY <2>3, <2>4, PairsKeptStep
<1>8. DebtInv'
  <2> SUFFICES ASSUME NEW s \in Requests, request[s].at = "cancel"
               PROVE  request[s].due >= bucket'[request[s].bucket].last
                         => bucket'[request[s].bucket].tokens
                              <= bucket'[request[s].bucket].last - request[s].due
    BY <1>1 DEF EdgeInv, DebtInv
  <2> DEFINE c == request[s].bucket
  <2>1. c \in DOMAIN bucket /\ request[s].due \in Int
    BY <1>1, HeldBucket DEF Holds, EdgeTypes, EdgeRequest
  <2>2. request[s].due >= bucket[c].last => bucket[c].tokens <= bucket[c].last - request[s].due
    BY DEF EdgeInv, DebtInv
  <2> HIDE DEF c
  <2>3. /\ bucket[c].rate \in Nat /\ bucket[c].last \in Int /\ bucket[c].tokens \in Int
        /\ bucket'[c].last = bucket[c].last + bucket[c].rate
        /\ bucket'[c].tokens = bucket[c].rate + Smaller(bucket[c].tokens, 0)
    BY <1>2, <1>3, <2>1
  <2>4. request[s].due >= bucket'[c].last => bucket'[c].tokens <= bucket'[c].last - request[s].due
    BY <2>1, <2>2, <2>3 DEF Smaller
  <2> QED  BY <2>4 DEF c
<1>9. BudgetInv'
  <2>1. ASSUME NEW k \in DOMAIN RPS PROVE passed'[k] = 0 /\ RPS[k] \in Nat
    BY <1>1, EdgeAssumption
  <2>2. ASSUME NEW e \in Cached PROVE 0 + bucket'[e.bucket].tokens <= RPS[e.key]
    <3>1. /\ e.bucket \in DOMAIN bucket /\ bucket[e.bucket].rate = RPS[e.key]
          /\ bucket[e.bucket].rate \in Nat /\ bucket[e.bucket].tokens \in Int
      BY CachedBucket
    <3>2. bucket'[e.bucket].tokens = bucket[e.bucket].rate + Smaller(bucket[e.bucket].tokens, 0)
      BY <1>3, <3>1
    <3> QED  BY <3>1, <3>2 DEF Smaller
  <2>3. ASSUME NEW k \in DOMAIN RPS, k \notin spoilt
        PROVE  /\ RPS[k] > 0 => passed'[k] <= RPS[k]
               /\ \A e \in Cached : e.key = k => passed'[k] + bucket'[e.bucket].tokens <= RPS[k]
    BY <2>1, <2>2
  <2> QED  BY <1>1, <2>1, <2>3, BudgetNext
<1> QED  BY <1>5, <1>6, <1>7, <1>8, <1>9 DEF T

----------------------------------------------------------------------------
\* A request comes without claims.
LEMMA ArriveStep ==
    ASSUME EdgeInv, NEW r \in Requests, NEW g \in Groups, NEW t \in Tokens, NEW key \in BOOLEAN,
           Arrive(r, g, t, key)
    PROVE  EdgeInv'
<1> DEFINE new == [at |-> IF conf.jwt THEN "jwt" ELSE "limit", group |-> g, token |-> t,
                   key |-> key, claims |-> NoClaims, layer |-> 1, bucket |-> 0, due |-> 0]
<1>1. EdgeTypes /\ conf.jwt \in BOOLEAN
  BY DEF EdgeInv, EdgeTypes, Confs
<1>2. /\ request' = [request EXCEPT ![r] = new]
      /\ UNCHANGED <<conf, bucket, lru, passed, spoilt>>
  BY DEF Arrive, EdgeSame
<1>3. /\ new.at = (IF conf.jwt THEN "jwt" ELSE "limit") /\ new.claims = NoClaims
      /\ new.at \in {"jwt", "limit"}
  OBVIOUS
<1>4. new \in EdgeRequest
  BY DEF EdgeRequest, EdgeStages
<1> HIDE DEF new
<1>5. /\ request' \in [Requests -> EdgeRequest] /\ request'[r] = new
      /\ \A s \in Requests : s # r => request'[s] = request[s]
  BY <1>1, <1>2, <1>4 DEF EdgeTypes
<1>6. EdgeTypes'
  BY <1>1, <1>2, <1>5 DEF EdgeTypes
<1>7. new.at = "jwt" => conf.jwt = TRUE
  BY <1>1, <1>3
<1>8. ClaimsInv'
  BY <1>2, <1>3, <1>5, <1>7 DEF EdgeInv, ClaimsInv, NoClaims
<1>9. LayerInv'
  BY <1>2, <1>3, <1>5 DEF EdgeInv, LayerInv, Key
<1>10. HandlerNeedsCredentials'
  BY <1>2, <1>3, <1>5 DEF EdgeInv, HandlerNeedsCredentials
<1>11. ~ Holds(r)'
  BY <1>3, <1>5 DEF Holds
<1>12. PairsInv' /\ DebtInv' /\ BudgetInv'
  BY <1>2, <1>5, <1>11, QuietStep
<1> QED  BY <1>6, <1>8, <1>9, <1>10, <1>12 DEF EdgeInv

\* The claims JWTAuth sets are those of the request's token, if it has good ones.
LEMMA JWTStep ==
    ASSUME EdgeInv, NEW r \in Requests, JWTAuth(r)
    PROVE  EdgeInv'
<1> DEFINE claims == ParseToken(request[r].token)
           at == IF claims = NoClaims /\ ~ pathSkipped(request[r].group) THEN "refused" ELSE "limit"
<1>1. EdgeTypes /\ conf.jwt = TRUE
  BY DEF EdgeInv, ClaimsInv, JWTAuth
<1>2. Moved(r, at, claims, 1, 0, 0) /\ UNCHANGED <<conf, bucket, lru, passed, spoilt>>
  BY DEF JWTAuth, EdgeSame
<1>3. /\ claims \in {NoClaims, "access", "refresh"} /\ at \in {"refused", "limit"}
      /\ claims = "access" => request[r].token = "access"
  BY DEF ParseToken, NoClaims
<1> HIDE DEF claims, at
<1>4. at \in EdgeStages
  BY <1>3 DEF EdgeStages
<1>5. /\ request' \in [Requests -> EdgeRequest] /\ request'[r].at = at
      /\ request'[r].claims = claims /\ request'[r].token = request[r].token
      /\ \A s \in Requests : s # r => request'[s] = request[s]
  BY <1>1, <1>2, <1>3, <1>4, MovedIs
<1>6. EdgeTypes'
  BY <1>1, <1>2, <1>5 DEF EdgeTypes
<1>7. ClaimsInv'
  BY <1>1, <1>2, <1>3, <1>5 DEF EdgeInv, ClaimsInv
<1>8. LayerInv'
  BY <1>2, <1>3, <1>5 DEF EdgeInv, LayerInv, Key
<1>9. HandlerNeedsCredentials'
  BY <1>2, <1>3, <1>5 DEF EdgeInv, HandlerNeedsCredentials
<1>10. ~ Holds(r)'
  BY <1>3, <1>5 DEF Holds
<1>11. PairsInv' /\ DebtInv' /\ BudgetInv'
  BY <1>2, <1>5, <1>10, QuietStep
<1> QED  BY <1>6, <1>7, <1>8, <1>9, <1>11 DEF EdgeInv

\* What a handler needs of its request.
Entitled(r) ==
    /\ request[r].group = "admin" /\ conf.jwt => request[r].token = "access"
    /\ request[r].group = "internal" =>
        IF conf.serviceKey THEN request[r].key ELSE conf.jwt /\ request[r].token = "access"

\* The guards of the groups see to it.
LEMMA RouteStep ==
    ASSUME EdgeInv, NEW r \in Requests, Route(r)
    PROVE  EdgeInv'
<1>1. EdgeTypes /\ (request[r].claims = "access" => request[r].token = "access" /\ conf.jwt = TRUE)
  BY DEF EdgeInv, ClaimsInv
<1>2. UNCHANGED <<conf, bucket, lru, passed, spoilt>>
  BY DEF Route, EdgeSame
<1>3. PICK at \in {"handler", "refused"} : Ended(r, at) /\ (at = "handler" => Entitled(r))
  <2>1. CASE request[r].group = "admin"
    <3>1. Ended(r, IF conf.jwt => RequireAuth(r) THEN "handler" ELSE "refused")
      BY <2>1 DEF Route
    <3>2. (conf.jwt => RequireAuth(r)) => Entitled(r)
      BY <1>1, <2>1 DEF RequireAuth, Entitled
    <3> QED  BY <3>1, <3>2
  <2>2. CASE request[r].group = "internal"
    <3>1. Ended(r, IF InternalServiceAuth(r) THEN "handler" ELSE "refused")
      BY <2>2 DEF Route
    <3>2. InternalServiceAuth(r) => Entitled(r)
      BY <1>1, <2>2 DEF InternalServiceAuth, RequireAuth, Entitled
    <3> QED  BY <3>1, <3>2
  <2>3. CASE request[r].group # "admin" /\ request[r].group # "internal"
    <3>1. Ended(r, "handler")
      BY <2>3 DEF Route
    <3>2. Entitled(r)
      BY <2>3 DEF Entitled
    <3> QED  BY <3>1, <3>2
  <2> QED  BY <2>1, <2>2, <2>3
<1>4. Moved(r, at, NoClaims, 1, 0, 0) /\ at \in EdgeStages
  BY <1>3 DEF Ended, EdgeStages
<1>5. /\ request' \in [Requests -> EdgeRequest] /\ request'[r].at = at
      /\ request'[r].claims = NoClaims /\ request'[r].token = request[r].token
      /\ request'[r].group = request[r].group /\ request'[r].key = request[r].key
      /\ \A s \in Requests : s # r => request'[s] = request[s]
  BY <1>1, <1>4, MovedIs
<1>6. EdgeTypes'
  BY <1>1, <1>2, <1>5 DEF EdgeTypes
<1>7. ClaimsInv'
  BY <1>2, <1>3, <1>5 DEF EdgeInv, ClaimsInv, NoClaims
<1>8. LayerInv'
  BY <1>2, <1>3, <1>5 DEF EdgeInv, LayerInv, Key
<1>9. HandlerNeedsCredentials'
  <2>1. ASSUME NEW s \in Requests, request'[s].at = "handler" PROVE Entitled(s)'
    <3>1. CASE s = r
      <4>1. Entitled(r)
        BY <1>3, <1>5, <2>1, <3>1
      <4> QED  BY <1>2, <1>5, <3>1, <4>1 DEF Entitled
    <3>2. CASE s # r
      <4>1. request'[s] = request[s]
        BY <1>5, <3>2
      <4>2. Entitled(s)
        BY <2>1, <4>1 DEF EdgeInv, HandlerNeedsCredentials, Entitled
      <4> QED  BY <1>2, <4>1, <4>2 DEF Entitled
    <3> QED  BY <3>1, <3>2
  <2> QED  BY <2>1 DEF HandlerNeedsCredentials, Entitled
<1>10. ~ Holds(r)'
  BY <1>3, <1>5 DEF Holds
<1>11. PairsInv' /\ DebtInv' /\ BudgetInv'
  BY <1>2, <1>5, <1>10, QuietStep
<1> QED  BY <1>6, <1>7, <1>8, <1>9, <1>11 DEF EdgeInv

\* The steps of the layers keep the invariant.
LEMMA LayerStep ==
    ASSUME EdgeInv, NEW r \in Requests,
           RateLimit(r) \/ GetLimiter(r) \/ AddLimiter(r) \/ Reserve(r) \/ Cancel(r)
           \/ RedisAllow(r) \/ RedisFails(r)
    PROVE  EdgeInv'
<1>1. GoesOn(r) /\ UNCHANGED conf
  BY LayersGoOn
<1>2. /\ request' \in [Requests -> EdgeRequest]
      /\ ClaimsInv' /\ LayerInv' /\ HandlerNeedsCredentials'
  BY <1>1, GoesOnStep
<1>3. EdgeTypes
  BY DEF EdgeInv
<1>4. SUFFICES /\ bucket' \in Seq([rate : Nat, tokens : Int, last : Int])
               /\ lru' \in Seq([key : DOMAIN RPS, bucket : Nat])
               /\ passed' \in [DOMAIN RPS -> Nat]
               /\ PairsInv' /\ DebtInv' /\ BudgetInv'
  BY <1>1, <1>2, <1>3 DEF EdgeInv, EdgeTypes
<1>5. /\ bucket \in Seq([rate : Nat, tokens : Int, last : Int])
      /\ lru \in Seq([key : DOMAIN RPS, bucket : Nat]) /\ passed \in [DOMAIN RPS -> Nat]
      /\ request[r].claims \in {NoClaims, "access", "refresh"} /\ request[r].layer \in {1, 2, 3}
      /\ request[r].bucket \in Nat /\ request[r].due \in Int
  BY <1>3 DEF EdgeTypes, EdgeRequest
<1>6. ASSUME NEW a \in {"add", "group"}, Goes(r, a)
      PROVE  ~ Holds(r)' /\ \A s \in Requests : s # r => request'[s] = request[s]
  <2>1. request'[r].at = a /\ \A s \in Requests : s # r => request'[s] = request[s]
    BY <1>3, <1>6, GoesIs
  <2> QED  BY <1>6, <2>1 DEF Holds
<1>7. CASE RateLimit(r)
  <2>1. UNCHANGED <<bucket, lru, passed, spoilt>>
    BY <1>7 DEF RateLimit, EdgeSame
  <2>2. ~ Holds(r)' /\ \A s \in Requests : s # r => request'[s] = request[s]
    <3>1. CASE Goes(r, "group")
      BY <1>6, <3>1
    <3>2. CASE AfterLayer(r, 0)
      <4>1. PICK at \in {"get", "reserve", "group"}, l \in {1, 2, 3}, b \in Nat, d \in Int :
               Moved(r, at, request[r].claims, l, b, d) /\ (at = "reserve" => conf.limit # "memory")
        BY <1>3, <3>2, AfterLayerIs
      <4>2. at \in EdgeStages /\ request[r].claims \in {NoClaims, "access", "refresh"}
            /\ Moved(r, at, request[r].claims, l, b, d)
        BY <1>5, <4>1 DEF EdgeStages
      <4>3. request'[r].at = at /\ \A s \in Requests : s # r => request'[s] = request[s]
        BY <1>3, <4>2, MovedIs
      <4> QED  BY <1>1, <4>1, <4>3 DEF Holds
    <3> QED  BY <1>7, <3>1, <3>2 DEF RateLimit
  <2>3. PairsInv' /\ DebtInv' /\ BudgetInv'
    BY <1>1, <1>2, <2>1, <2>2, QuietStep
  <2> QED  BY <1>5, <2>1, <2>3
<1>8. CASE GetLimiter(r)
  <2>1. UNCHANGED <<bucket, passed, spoilt>>
    BY <1>8 DEF GetLimiter
  <2>2. CASE InLRU(Key(r))
    <3>1. lru' = Used(IndexOf(Key(r))) /\ Takes(r, lru[IndexOf(Key(r))].bucket)
      BY <1>8, <2>2 DEF GetLimiter
    <3> QED  BY <1>1, <1>5, <2>1, <2>2, <3>1, HitStep
  <2>3. CASE ~ InLRU(Key(r))
    <3>1. Goes(r, "add") /\ lru' = lru
      BY <1>8, <2>3 DEF GetLimiter
    <3>2. ~ Holds(r)' /\ \A s \in Requests : s # r => request'[s] = request[s]
      BY <1>6, <3>1
    <3>3. PairsInv' /\ DebtInv' /\ BudgetInv'
      BY <1>1, <1>2, <2>1, <3>1, <3>2, QuietStep
    <3> QED  BY <1>5, <2>1, <3>1, <3>3
  <2> QED  BY <2>2, <2>3
<1>9. CASE AddLimiter(r)
  <2>1. passed' = passed
    BY <1>9 DEF AddLimiter
  <2>2. CASE InLRU(Key(r))
    <3>1. /\ lru' = Used(IndexOf(Key(r))) /\ Takes(r, lru[IndexOf(Key(r))].bucket)
          /\ UNCHANGED <<bucket, spoilt>>
      BY <1>9, <2>2 DEF AddLimiter
    <3> QED  BY <1>1, <1>5, <2>1, <2>2, <3>1, HitStep
  <2>3. CASE ~ InLRU(Key(r))
    <3>1. Missed(r)
      BY <1>1, <1>9, <2>3 DEF AddLimiter, Missed
    <3>2. /\ bucket' \in Seq([rate : Nat, tokens : Int, last : Int])
          /\ lru' \in Seq([key : DOMAIN RPS, bucket : Nat])
      BY <3>1, MissedIs
    <3> QED  BY <1>5, <2>1, <3>1, <3>2, MissStep
  <2> QED  BY <2>2, <2>3
<1>10. CASE Reserve(r)
  <2>1. lru' = lru /\ (passed' = passed \/ passed' = [passed EXCEPT ![Key(r)] = @ + 1])
    BY <1>10 DEF Reserve
  <2>2. passed' \in [DOMAIN RPS -> Nat]
    <3>1. Key(r) \in DOMAIN RPS /\ passed[Key(r)] + 1 \in Nat
      BY <1>5, KeyIs
    <3>2. CASE passed' = passed
      BY <1>5, <3>2
    <3>3. CASE passed' = [passed EXCEPT ![Key(r)] = @ + 1]
      BY <1>5, <3>1, <3>3
    <3> QED  BY <2>1, <3>2, <3>3
  <2> QED  BY <1>5, <1>10, <2>1, <2>2, PassStep, DelayStep
<1>11. CASE Cancel(r)
  BY <1>5, <1>11, CancelStep DEF Cancel
<1>12. CASE RedisAllow(r) \/ RedisFails(r)
  BY <1>5, <1>12, RedisStep DEF RedisAllow, RedisFails
<1> QED  BY <1>7, <1>8, <1>9, <1>10, <1>11, <1>12

\* The invariant holds of every behaviour of the middleware.
THEOREM EdgeInvariant == EdgeSpec => []EdgeInv
<1>1. EdgeInit => EdgeInv
  BY EdgeInvInit
<1>2. EdgeInv /\ [EdgeNext]_edgeVars => EdgeInv'
  <2> SUFFICES ASSUME EdgeInv, [EdgeNext]_edgeVars PROVE EdgeInv'
    OBVIOUS
  <2>1. CASE UNCHANGED edgeVars
    <3>1. UNCHANGED <<conf, request, bucket, lru, passed, spoilt>>
      BY <2>1 DEF edgeVars
    <3>2. EdgeTypes' /\ ClaimsInv' /\ LayerInv' /\ HandlerNeedsCredentials'
      BY <3>1 DEF EdgeInv, EdgeTypes, ClaimsInv, LayerInv, HandlerNeedsCredentials, Key
    <3>3. Cached' = Cached /\ Pairs' = Pairs
      BY <3>1 DEF Cached, Pairs, Holds, HeldPair, Key
    <3>4. PairsInv' /\ DebtInv' /\ BudgetInv'
      BY <3>1, <3>3 DEF EdgeInv, PairsInv, DebtInv, BudgetInv, Holds, HeldPair, Key
    <3> QED  BY <3>2, <3>4 DEF EdgeInv
  <2>2. CASE Second
    <3>1. /\ bucket' \in Seq([rate : Nat, tokens : Int, last : Int])
          /\ passed' \in [DOMAIN RPS -> Nat]
          /\ PairsInv' /\ DebtInv' /\ BudgetInv'
      BY <2>2, SecondStep
    <3>2. UNCHANGED <<conf, request, lru>>
      BY <2>2 DEF Second
    <3>3. EdgeTypes' /\ ClaimsInv' /\ LayerInv' /\ HandlerNeedsCredentials'
      BY <3>1, <3>2 DEF EdgeInv, EdgeTypes, ClaimsInv, LayerInv, HandlerNeedsCredentials, Key
    <3> QED  BY <3>1, <3>3 DEF EdgeInv
  <2>3. ASSUME NEW r \in Requests, NEW g \in Groups, NEW t \in Tokens, NEW key \in BOOLEAN,
               Arrive(r, g, t, key)
        PROVE  EdgeInv'
    BY <2>3, ArriveStep
  <2>4. ASSUME NEW r \in Requests, JWTAuth(r) PROVE EdgeInv'
    BY <2>4, JWTStep
  <2>5. ASSUME NEW r \in Requests, Route(r) PROVE EdgeInv'
    BY <2>5, RouteStep
  <2>6. ASSUME NEW r \in Requests,
               RateLimit(r) \/ GetLimiter(r) \/ AddLimiter(r) \/ Reserve(r) \/ Cancel(r)
               \/ RedisAllow(r) \/ RedisFails(r)
        PROVE  EdgeInv'
    BY <2>6, LayerStep
  <2> QED  BY <2>1, <2>2, <2>3, <2>4, <2>5, <2>6 DEF EdgeNext
<1> QED  BY <1>1, <1>2, PTL DEF EdgeSpec

\* The guards of the groups hold whatever the skip lists, the credentials and the
\* configuration are, and however requests interleave in the rate limiter.
THEOREM CredentialsNeeded == EdgeSpec => []HandlerNeedsCredentials
<1>1. EdgeInv => HandlerNeedsCredentials
  BY DEF EdgeInv
<1> QED  BY <1>1, EdgeInvariant, PTL

\* No key lets more through between two refills than its rate, for any number of
\* concurrent requests that make, reserve from and give back to its bucket.
THEOREM RateIsKept == EdgeSpec => []RateHolds
<1>1. EdgeInv => RateHolds
  BY DEF EdgeInv, BudgetInv, RateHolds
<1> QED  BY <1>1, EdgeInvariant, PTL

----------------------------------------------------------------------------
=============================================================================
