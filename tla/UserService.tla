---------------------------- MODULE UserService ----------------------------
(***************************************************************************)
(* internal/service/user.go over internal/repository/user.go and the cache *)
(* of internal/cache and pkg/cache: cache-aside reads, writes that         *)
(* invalidate, and the two-level cache with its warm-up goroutines.        *)
(*                                                                         *)
(* The model follows one user: its e-mail is unique in the table, deleted  *)
(* rows included, so that it has one row at most, and everything is keyed  *)
(* by that row.  A value is the number of writes the row has seen; what   *)
(* the columns hold, status and password included, is left open.  Every    *)
(* process has its own first level; the database and Redis are shared.     *)
(***************************************************************************)
EXTENDS Integers, FiniteSets, FiniteSetsExt

CONSTANTS
    Procs,          \* processes of the application
    Requests,       \* requests that run at the same time
    Drivers,        \* values of cache.driver, "nop" for a disabled cache
    TTL,            \* userByID.TTL, in ticks
    WarmTTL,        \* TTL of a warm-up of the first level, in ticks
    MaxVersion,     \* bound: writes of the row
    MaxWarmUps,     \* bound: versions a process is warming up at a time
    MaxFaults       \* bound: calls that fail and processes that die

NoProc == "none"

ASSUME UserAssumption ==
    /\ IsFiniteSet(Requests) /\ NoProc \notin Procs
    /\ Drivers \subseteq {"nop", "memory", "redis", "multi"}
    /\ WarmTTL \in Nat \ {0} /\ TTL \in Nat /\ WarmTTL < TTL
    /\ MaxVersion \in Nat /\ MaxWarmUps \in Nat /\ MaxFaults \in Nat

VARIABLES
    driver,         \* the cache that Factory.Create has built
    row,            \* the user's row: its state and its version
    l1,             \* each process's MemoryCache: version and time to live
    l2,             \* RedisCache: version and time to live
    warm,           \* versions the warm-up goroutines of a process hold
    pc,             \* the place of a request in the service
    proc,           \* the process a request runs in, or NoProc
    copy,           \* the version a request has read and not yet cached, or 0
    base,           \* history: version of the row when ValidateCredentials began
    staleAuth,      \* history: credentials were judged by a version older than the call
    created,        \* history: calls of Create that succeeded
    faults,         \* failures so far
    raced           \* history: some write met what its invalidation cannot reach

store == <<row, l1, l2, warm>>
local == <<pc, proc, copy, base>>
history == <<staleAuth, created>>
vars == <<driver, store, local, history, faults, raced>>

Entries == [version : 0 .. MaxVersion, ttl : 0 .. TTL]
Absent  == [version |-> 0, ttl |-> 0]
Present(e) == e.ttl > 0

ReadSteps  == {"get1", "get2", "load", "fill1", "fill2"}
WriteSteps == {"updRead", "updWrite", "delRead", "delWrite", "inv1", "inv2"}
OtherSteps == {"lookup", "insert", "auth"}
Uncommitted == {"updRead", "updWrite", "delRead", "delWrite", "lookup", "insert"}

\* The two sides of a race over the cached user, and the entries that a write
\* in one process cannot reach in another.
Reading == (\E r \in Requests : pc[r] \in ReadSteps) \/ (\E p \in Procs : warm[p] # {})
Writing == \E r \in Requests : pc[r] \in WriteSteps
Beyond  == \E r \in Requests, p \in Procs :
               pc[r] \in WriteSteps /\ p # proc[r] /\ Present(l1[p])

TypeOK ==
    /\ driver \in Drivers
    /\ row \in [state : {"none", "live", "deleted"}, version : 0 .. MaxVersion]
    /\ l1 \in [Procs -> Entries] /\ l2 \in Entries
    /\ warm \in [Procs -> SUBSET (1 .. MaxVersion)]
    /\ pc \in [Requests -> {"idle"} \cup ReadSteps \cup WriteSteps \cup OtherSteps]
    /\ proc \in [Requests -> Procs \cup {NoProc}]
    /\ copy \in [Requests -> 0 .. MaxVersion]
    /\ base \in [Requests -> 0 .. MaxVersion]
    /\ staleAuth \in BOOLEAN /\ created \in Nat /\ faults \in 0 .. MaxFaults
    /\ raced \in BOOLEAN

Init ==
    /\ driver \in Drivers
    /\ row = [state |-> "none", version |-> 0]
    /\ l1 = [p \in Procs |-> Absent] /\ l2 = Absent
    /\ warm = [p \in Procs |-> {}]
    /\ pc = [r \in Requests |-> "idle"]
    /\ proc = [r \in Requests |-> NoProc]
    /\ copy = [r \in Requests |-> 0]
    /\ base = [r \in Requests |-> 0]
    /\ staleAuth = FALSE /\ created = 0 /\ faults = 0
    /\ raced = FALSE

----------------------------------------------------------------------------
(* What the steps share.                                                   *)

HasL1 == driver \in {"memory", "multi"}
HasL2 == driver \in {"redis", "multi"}

\* The next statement of a request; a call that returns leaves nothing behind.
Goto(r, label) ==
    /\ pc' = [pc EXCEPT ![r] = label]
    /\ IF label = "idle"
       THEN /\ proc' = [proc EXCEPT ![r] = NoProc]
            /\ copy' = [copy EXCEPT ![r] = 0]
            /\ base' = [base EXCEPT ![r] = 0]
       ELSE UNCHANGED <<proc, copy, base>>

\* The first of the cache's levels, or what comes after the cache.
FirstLevel(first, second, rest) ==
    CASE HasL1 -> first
      [] ~HasL1 /\ HasL2 -> second
      [] ~HasL1 /\ ~HasL2 -> rest

\* A call of the database or of Redis that fails.
Fault == faults < MaxFaults /\ faults' = faults + 1

\* A write that the table takes: the row as it is from now on.
Commit(state) == row' = [state |-> state, version |-> row.version + 1]

\* Bound: room for one more write among those under way.
MayWrite == row.version + Cardinality({r \in Requests : pc[r] \in Uncommitted}) < MaxVersion

\* A request arrives at some process.
Call(r, label) ==
    /\ pc[r] = "idle"
    /\ \E p \in Procs : proc' = [proc EXCEPT ![r] = p]
    /\ base' = [base EXCEPT ![r] = IF label = "auth" THEN row.version ELSE 0]
    /\ pc' = [pc EXCEPT ![r] = label]
    /\ UNCHANGED <<driver, store, copy, history, faults>>

----------------------------------------------------------------------------
(* GetByID: cache, repository, fill.                                       *)

CallGet(r) == Call(r, FirstLevel("get1", "get2", "load"))

\* Mutant: a hit renews the time to live.
GetL1Renews(r) ==
    LET e == l1[proc[r]]
        p == proc[r]
    IN  /\ pc[r] = "get1"
        /\ Goto(r, IF Present(e) THEN "idle" ELSE IF HasL2 THEN "get2" ELSE "load")
        /\ l1' = IF Present(e) THEN [l1 EXCEPT ![p] = [e EXCEPT !.ttl = TTL]] ELSE l1
        /\ UNCHANGED <<driver, row, l2, warm, history, faults>>

\* MemoryCache.Get.
GetL1(r) ==
    /\ pc[r] = "get1"
    /\ Goto(r, IF Present(l1[proc[r]]) THEN "idle" ELSE IF HasL2 THEN "get2" ELSE "load")
    /\ UNCHANGED <<driver, store, history, faults>>

\* RedisCache.Get; in a MultiCache a hit starts a warm-up.
GetL2(r) ==
    /\ pc[r] = "get2" /\ Present(l2)
    /\ Goto(r, "idle")
    /\ warm' = IF HasL1 THEN [warm EXCEPT ![proc[r]] = @ \cup {l2.version}] ELSE warm
    /\ \A p \in Procs : Cardinality(warm'[p]) <= MaxWarmUps
    /\ UNCHANGED <<driver, row, l1, l2, history, faults>>

\* A miss, or any error: the service goes on to the repository.
MissL2(r) ==
    /\ pc[r] = "get2"
    /\ (~Present(l2) /\ UNCHANGED faults) \/ Fault
    /\ Goto(r, "load")
    /\ UNCHANGED <<driver, store, history>>

\* userRepo.GetByID of a live row.
Load(r) ==
    /\ pc[r] = "load" /\ row.state = "live"
    /\ IF driver = "nop"
       THEN Goto(r, "idle")
       ELSE /\ copy' = [copy EXCEPT ![r] = row.version]
            /\ pc' = [pc EXCEPT ![r] = FirstLevel("fill1", "fill2", "idle")]
            /\ UNCHANGED <<proc, base>>
    /\ UNCHANGED <<driver, store, history, faults>>

\* No such row, or the query fails: nothing is cached.
LoadFails(r) ==
    /\ pc[r] = "load"
    /\ (row.state # "live" /\ UNCHANGED faults) \/ Fault
    /\ Goto(r, "idle")
    /\ UNCHANGED <<driver, store, history>>

\* set with userByID: the row without its password.
CachedFrom(r) == [version |-> copy[r], ttl |-> TTL]

FillL1(r) ==
    /\ pc[r] = "fill1"
    /\ l1' = [l1 EXCEPT ![proc[r]] = CachedFrom(r)]
    /\ Goto(r, IF HasL2 THEN "fill2" ELSE "idle")
    /\ UNCHANGED <<driver, row, l2, warm, history, faults>>

\* An error of RedisCache.Set is dropped, whether or not the value was stored.
FillL2(r) ==
    /\ pc[r] = "fill2"
    /\ \/ l2' = CachedFrom(r) /\ UNCHANGED faults
       \/ l2' \in {l2, CachedFrom(r)} /\ Fault
    /\ Goto(r, "idle")
    /\ UNCHANGED <<driver, row, l1, warm, history>>

\* The warm-up goroutine of MultiCache.Get.
WarmUp(p, v) ==
    /\ v \in warm[p]
    /\ l1' = [l1 EXCEPT ![p] = [version |-> v, ttl |-> WarmTTL]]
    /\ warm' = [warm EXCEPT ![p] = @ \ {v}]
    /\ UNCHANGED <<driver, row, l2, local, history, faults>>

----------------------------------------------------------------------------
(* Update and Delete: read, write, invalidate.                             *)

CallUpdate(r) == MayWrite /\ Call(r, "updRead")
CallDelete(r) == MayWrite /\ Call(r, "delRead")

\* userRepo.GetByID before a write: any error ends the call.
ReadForWrite(r) ==
    \E op \in {<<"updRead", "updWrite">>, <<"delRead", "delWrite">>} :
        /\ pc[r] = op[1]
        /\ \/ row.state = "live" /\ Goto(r, op[2]) /\ UNCHANGED faults
           \/ row.state # "live" /\ Goto(r, "idle") /\ UNCHANGED faults
           \/ Fault /\ Goto(r, "idle")
        /\ UNCHANGED <<driver, store, history>>

\* Mutant: the update has no condition on deleted_at, which it sets to NULL.
UpdateAnyRow(r) ==
    /\ pc[r] = "updWrite"
    /\ Commit("live")
    /\ Goto(r, FirstLevel("inv1", "inv2", "idle"))
    /\ UNCHANGED <<driver, l1, l2, warm, history, faults>>

\* userRepo.Update writes every column of the copy; a row deleted meanwhile
\* stays as it is, and the update of no row is no error.
UpdateRow(r) ==
    /\ pc[r] = "updWrite"
    /\ \/ row.state = "live" /\ Commit("live")
       \/ row.state # "live" /\ UNCHANGED row
    /\ Goto(r, FirstLevel("inv1", "inv2", "idle"))
    /\ UNCHANGED <<driver, l1, l2, warm, history, faults>>

\* Mutant: a deleted user is left in the cache.
DeleteRowOnly(r) ==
    /\ pc[r] = "delWrite" /\ row.state = "live"
    /\ Commit("deleted")
    /\ Goto(r, "idle")
    /\ UNCHANGED <<driver, l1, l2, warm, history, faults>>

\* userRepo.Delete, the soft deletion.
DeleteRow(r) ==
    /\ pc[r] = "delWrite" /\ row.state = "live"
    /\ Commit("deleted")
    /\ Goto(r, FirstLevel("inv1", "inv2", "idle"))
    /\ UNCHANGED <<driver, l1, l2, warm, history, faults>>

\* No row was affected: sql.ErrNoRows, and the cache is left alone.
DeleteNothing(r) ==
    /\ pc[r] = "delWrite" /\ row.state # "live"
    /\ Goto(r, "idle")
    /\ UNCHANGED <<driver, store, history, faults>>

\* The statement fails, or only its answer is lost: the cache is left alone.
WriteFails(r) ==
    /\ pc[r] \in {"updWrite", "delWrite"} /\ Fault
    /\ \/ UNCHANGED row
       \/ /\ row.state = "live"
          /\ IF pc[r] = "delWrite" THEN Commit("deleted")
                                  ELSE Commit("live")
    /\ Goto(r, "idle")
    /\ UNCHANGED <<driver, l1, l2, warm, history>>

\* invalidateUserCache: nothing is ever cached under the e-mail, so that only
\* the key of the id counts.  MultiCache.Delete tries both levels.
InvalidateL1(r) ==
    /\ pc[r] = "inv1"
    /\ l1' = [l1 EXCEPT ![proc[r]] = Absent]
    /\ Goto(r, IF HasL2 THEN "inv2" ELSE "idle")
    /\ UNCHANGED <<driver, row, l2, warm, history, faults>>

InvalidateL2(r) ==
    /\ pc[r] = "inv2"
    /\ \/ l2' = Absent /\ UNCHANGED faults
       \/ l2' \in {l2, Absent} /\ Fault
    /\ Goto(r, "idle")
    /\ UNCHANGED <<driver, row, l1, warm, history>>

----------------------------------------------------------------------------
(* Create and ValidateCredentials: never through the cache.                *)

CallCreate(r) == MayWrite /\ Call(r, "lookup")
CallAuth(r)   == Call(r, "auth")

\* userRepo.GetByEmail sees live rows only.
Lookup(r) ==
    /\ pc[r] = "lookup"
    /\ \/ row.state # "live" /\ Goto(r, "insert") /\ UNCHANGED faults
       \/ row.state = "live" /\ Goto(r, "idle") /\ UNCHANGED faults
       \/ Fault /\ Goto(r, "idle")
    /\ UNCHANGED <<driver, store, history>>

\* Mutant: the e-mail is unique among the live rows only.
InsertUnlessLive(r) ==
    /\ pc[r] = "insert" /\ row.state # "live"
    /\ Commit("live")
    /\ created' = created + 1
    /\ Goto(r, "idle")
    /\ UNCHANGED <<driver, l1, l2, warm, staleAuth, faults>>

\* userRepo.Create.
Insert(r) ==
    /\ pc[r] = "insert" /\ row.state = "none"
    /\ Commit("live")
    /\ created' = created + 1
    /\ Goto(r, "idle")
    /\ UNCHANGED <<driver, l1, l2, warm, staleAuth, faults>>

\* The unique index refuses the row, or the statement or its answer is lost.
InsertFails(r) ==
    /\ pc[r] = "insert"
    /\ \/ row.state # "none" /\ UNCHANGED <<row, faults>>
       \/ Fault /\ UNCHANGED row
       \/ Fault /\ row.state = "none" /\ Commit("live")
    /\ Goto(r, "idle")
    /\ UNCHANGED <<driver, l1, l2, warm, history>>

\* Credentials accepted on the strength of a version of the row.
Grant(r, version) == staleAuth' = (staleAuth \/ version < base[r])

\* A live row whose status is 1, and the right password.
Accept(r) ==
    /\ pc[r] = "auth" /\ row.state = "live"
    /\ Grant(r, row.version)
    /\ Goto(r, "idle")
    /\ UNCHANGED <<driver, store, created, faults>>

\* No such row, any error, another status, or the wrong password.
Refuse(r) ==
    /\ pc[r] = "auth"
    /\ Goto(r, "idle")
    /\ UNCHANGED <<driver, store, history, faults>>

----------------------------------------------------------------------------
(* The environment: time, Ristretto's eviction, and the death of a process.*)

Older(e) == IF e.ttl > 1 THEN [e EXCEPT !.ttl = @ - 1] ELSE Absent

Tick ==
    /\ Present(l2) \/ \E p \in Procs : Present(l1[p])
    /\ l1' = [p \in Procs |-> Older(l1[p])] /\ l2' = Older(l2)
    /\ UNCHANGED <<driver, row, warm, local, history, faults>>

\* A full cache drops the entry, or never admitted it.
Evict(p) ==
    /\ Present(l1[p])
    /\ l1' = [l1 EXCEPT ![p] = Absent]
    /\ UNCHANGED <<driver, row, l2, warm, local, history, faults>>

Crash(p) ==
    /\ Fault
    /\ pc' = [r \in Requests |-> IF proc[r] = p THEN "idle" ELSE pc[r]]
    /\ copy' = [r \in Requests |-> IF proc[r] = p THEN 0 ELSE copy[r]]
    /\ proc' = [r \in Requests |-> IF proc[r] = p THEN NoProc ELSE proc[r]]
    /\ base' = [r \in Requests |-> IF proc[r] = p THEN 0 ELSE base[r]]
    /\ l1' = [l1 EXCEPT ![p] = Absent]
    /\ warm' = [warm EXCEPT ![p] = {}]
    /\ UNCHANGED <<driver, row, l2, history>>

----------------------------------------------------------------------------
Calls(r) == CallGet(r) \/ CallUpdate(r) \/ CallDelete(r) \/ CallCreate(r) \/ CallAuth(r)

\* The steps of a request once it has been called.
Step(r) ==
    \/ GetL1(r) \/ GetL2(r) \/ MissL2(r) \/ Load(r) \/ LoadFails(r) \/ FillL1(r) \/ FillL2(r)
    \/ ReadForWrite(r) \/ UpdateRow(r) \/ DeleteRow(r) \/ DeleteNothing(r) \/ WriteFails(r)
    \/ InvalidateL1(r) \/ InvalidateL2(r)
    \/ Lookup(r) \/ Insert(r) \/ InsertFails(r) \/ Accept(r) \/ Refuse(r)

Steps ==
    \/ \E r \in Requests : Calls(r) \/ Step(r)
    \/ \E p \in Procs : Evict(p) \/ Crash(p) \/ \E v \in warm[p] : WarmUp(p, v)
    \/ Tick

Next == Steps /\ raced' = (raced \/ (Writing' /\ Reading') \/ Beyond')

Spec == Init /\ [][Next]_vars

----------------------------------------------------------------------------
(* Properties.                                                             *)

Fresh(e) == Present(e) => row.state = "live" /\ e.version = row.version

\* Invalidation is enough when no read and no warm-up is under way during a
\* write, the other processes hold nothing then, and no call fails: between
\* writes the cache holds the row as it is or nothing (user.go 75-89, 147, 165).
CoherentWithoutRaces ==
    ~raced /\ faults = 0 /\ ~Writing => Fresh(l2) /\ \A p \in Procs : Fresh(l1[p])

\* For how many ticks outdated values may still be served: as entries, or as
\* what a hit, a warm-up or a fill under way can make of them.
StaleTimes ==
    {0} \cup (IF Fresh(l2) THEN {} ELSE {l2.ttl + WarmTTL})
        \cup {l1[p].ttl : p \in {q \in Procs : ~Fresh(l1[q])}}
        \cup {WarmTTL : p \in {q \in Procs : warm[q] \ {row.version} # {}}}
        \cup {TTL + WarmTTL : r \in {s \in Requests : copy[s] \notin {0, row.version}}}
StaleFor == Max(StaleTimes)

\* Whatever raced, failed or died: while the row is not written the time for
\* which outdated values last never grows, whichever hits, fills and warm-ups
\* there are, and it shrinks with every tick once those under way are done
\* (multi.go 24-46, user.go 75-89).
StaleRunsOut ==
    [][UNCHANGED row => /\ StaleFor' <= StaleFor
                        /\ Tick /\ ~Reading /\ StaleFor > 0 => StaleFor' < StaleFor]_vars

\* A deleted user stays deleted, although an update that read the row before
\* writes all of its columns (repository/user.go 87-93).
NoResurrection == [][row.state = "deleted" => row'.state = "deleted"]_row

\* Credentials are judged by the row as it is at some moment of the call: a
\* user disabled or deleted before the call began is not let in by what a
\* cache still holds (user.go 106-121).
AuthFresh == ~staleAuth

\* An e-mail is given away once: of the calls of Create that race, and of those
\* after a deletion, one succeeds at most (user.go 46-72, the table's index).
CreatedOnce == created <= 1

\* Both, for the requests that decide by the row: a login and a creation go
\* past the cache (user.go 46-72, 104-121).
AccountsSound == AuthFresh /\ CreatedOnce
============================================================================
