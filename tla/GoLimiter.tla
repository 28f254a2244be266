----------------------------- MODULE GoLimiter ------------------------------
(***************************************************************************)
(* internal/utils/goroutine.go: Go starts a function when the semaphore    *)
(* has room, holding the read lock while it waits for it; the goroutine    *)
(* takes the read lock again to give its slot back; SetMaxGoroutines takes *)
(* the write lock and moves what is in the semaphore to a new one.  A      *)
(* writer that waits keeps new readers out, as sync.RWMutex does.          *)
(***************************************************************************)
EXTENDS Integers, FiniteSets

CONSTANTS
    Tasks,          \* functions somebody starts with Go
    Limit,          \* maxGoroutines at first
    MaxRetries,     \* of GoWithRetry
    MaxResizes      \* bound: calls of SetMaxGoroutines

ASSUME GoAssumption == Limit \in Nat \ {0} /\ IsFiniteSet(Tasks)

VARIABLES
    maxGoroutines,
    semaphore,      \* signals in the channel
    mu,             \* the RWMutex: its readers and its writer
    task,           \* where each task is
    attempts,       \* attempts of each task that failed
    waiter,         \* where the caller of Wait is
    resizes         \* calls of SetMaxGoroutines so far

goVars == <<maxGoroutines, semaphore, mu, task, attempts, waiter, resizes>>

GoTypeOK ==
    /\ maxGoroutines \in Nat \ {0} /\ semaphore \in 0 .. Cardinality(Tasks)
    /\ mu.readers \subseteq Tasks /\ mu.writer \in {"none", "waiting", "migrating"}
    /\ task \in [Tasks -> {"new", "called", "sending", "running", "ended", "receiving", "done"}]
    /\ waiter \in {"before", "waiting", "returned"} /\ resizes \in 0 .. MaxResizes

GoInit ==
    /\ maxGoroutines = Limit /\ semaphore = 0
    /\ mu = [readers |-> {}, writer |-> "none", size |-> 0]
    /\ task = [t \in Tasks |-> "new"] /\ attempts = [t \in Tasks |-> 0]
    /\ waiter = "before" /\ resizes = 0

Moves(t, from, to) == task[t] = from /\ task' = [task EXCEPT ![t] = to]
RLock(t) == mu.writer = "none" /\ mu' = [mu EXCEPT !.readers = @ \cup {t}]
RUnlock(t) == mu' = [mu EXCEPT !.readers = @ \ {t}]

\* Go is called; wg.Add is the task being counted from here to "done".
GoCalled(t) ==
    /\ Moves(t, "new", "called")
    /\ UNCHANGED <<maxGoroutines, semaphore, mu, attempts, waiter, resizes>>

GoLocks(t) ==
    /\ Moves(t, "called", "sending") /\ RLock(t)
    /\ UNCHANGED <<maxGoroutines, semaphore, attempts, waiter, resizes>>

\* The send finds room; the read lock is held until then.
GoSends(t) ==
    /\ Moves(t, "sending", "running") /\ RUnlock(t)
    /\ semaphore < maxGoroutines /\ semaphore' = semaphore + 1
    /\ UNCHANGED <<maxGoroutines, attempts, waiter, resizes>>

\* An attempt of GoWithRetry fails and is not the last.
Retry(t) ==
    /\ task[t] = "running" /\ attempts[t] < MaxRetries
    /\ attempts' = [attempts EXCEPT ![t] = @ + 1]
    /\ UNCHANGED <<maxGoroutines, semaphore, mu, task, waiter, resizes>>

\* The function returns, fails for good, or panics.
Ends(t) ==
    /\ Moves(t, "running", "ended")
    /\ UNCHANGED <<maxGoroutines, semaphore, mu, attempts, waiter, resizes>>

\* Mutant: the slot is given back under the write lock.
DeferLocksAlone(t) ==
    /\ Moves(t, "ended", "receiving") /\ mu.readers = {} /\ RLock(t)
    /\ UNCHANGED <<maxGoroutines, semaphore, attempts, waiter, resizes>>

DeferLocks(t) ==
    /\ Moves(t, "ended", "receiving") /\ RLock(t)
    /\ UNCHANGED <<maxGoroutines, semaphore, attempts, waiter, resizes>>

DeferReceives(t) ==
    /\ Moves(t, "receiving", "done") /\ RUnlock(t)
    /\ semaphore > 0 /\ semaphore' = semaphore - 1
    /\ UNCHANGED <<maxGoroutines, attempts, waiter, resizes>>

\* SetMaxGoroutines(n) waits for the write lock (n <= 0 returns at once).
Resize(n) ==
    /\ resizes < MaxResizes /\ mu.writer = "none" /\ n > 0
    /\ mu' = [readers |-> mu.readers, writer |-> "waiting", size |-> n]
    /\ resizes' = resizes + 1
    /\ UNCHANGED <<maxGoroutines, semaphore, task, attempts, waiter>>

ResizeLocks ==
    /\ mu.writer = "waiting" /\ mu.readers = {}
    /\ mu' = [mu EXCEPT !.writer = "migrating"]
    /\ maxGoroutines' = mu.size
    /\ UNCHANGED <<semaphore, task, attempts, waiter, resizes>>

\* Mutant: the new semaphore starts empty.
MigrateNothing ==
    /\ mu.writer = "migrating"
    /\ mu' = [mu EXCEPT !.writer = "none"]
    /\ semaphore' = 0
    /\ UNCHANGED <<maxGoroutines, task, attempts, waiter, resizes>>

\* Every signal is sent to the new semaphore, which must have room for it: with
\* more signals than room the send blocks, the write lock is kept.
Migrate ==
    /\ mu.writer = "migrating" /\ semaphore <= mu.size
    /\ mu' = [mu EXCEPT !.writer = "none"]
    /\ UNCHANGED <<maxGoroutines, semaphore, task, attempts, waiter, resizes>>

Wait ==
    /\ waiter = "before" /\ \A t \in Tasks : task[t] # "new"
    /\ waiter' = "waiting"
    /\ UNCHANGED <<maxGoroutines, semaphore, mu, task, attempts, resizes>>

WaitReturns ==
    /\ waiter = "waiting" /\ \A t \in Tasks : task[t] \in {"new", "done"}
    /\ waiter' = "returned"
    /\ UNCHANGED <<maxGoroutines, semaphore, mu, task, attempts, resizes>>

TaskStep(t) ==
    \/ GoLocks(t) \/ GoSends(t) \/ Ends(t) \/ DeferLocks(t) \/ DeferReceives(t)

GoNext ==
    \/ \E t \in Tasks : GoCalled(t) \/ Retry(t) \/ TaskStep(t)
    \/ \E n \in 1 .. Limit : Resize(n)
    \/ ResizeLocks \/ Migrate \/ Wait \/ WaitReturns

\* Goroutines are scheduled and functions end; nothing is asked for whoever calls
\* Go, Wait or SetMaxGoroutines.
GoFairness ==
    /\ \A t \in Tasks : WF_goVars(TaskStep(t))
    /\ WF_goVars(ResizeLocks \/ Migrate) /\ WF_goVars(WaitReturns)

GoSpec == GoInit /\ [][GoNext]_goVars /\ GoFairness

----------------------------------------------------------------------------
(* Properties.                                                             *)

\* The semaphore counts the goroutines that run, over any resize in the middle of
\* them: no more run than it says, and the one that ends finds a signal to take
\* (goroutine.go 32-86).
SlotsMatch ==
    mu.writer # "migrating" =>
        /\ semaphore = Cardinality({t \in Tasks : task[t] \in {"running", "ended", "receiving"}})
        /\ semaphore <= maxGoroutines

\* As long as nobody resizes, Wait returns: a call of Go that found the semaphore
\* full keeps the read lock only, which the goroutines that end can take too
\* (goroutine.go 64-91).
WaitEnds == waiter = "waiting" ~> (waiter = "returned" \/ resizes > 0)

\* goroutine.go, of Wait: it waits for all the goroutines started with Go; they
\* are let run and end, so it returns.  Not so with a resize: a Go that waits for
\* room holds the read lock, the resize waits for it, the goroutines for the resize.
WaitAlwaysEnds == waiter = "waiting" ~> waiter = "returned"
=============================================================================
