----------------------------- MODULE EventBus ------------------------------
(***************************************************************************)
(* The in-process event bus of pkg/event/bus.go: Publish, Subscribe,       *)
(* SubscribeWildcard, the two kinds of cancel closures and Close, called   *)
(* by any number of goroutines at once.                                    *)
(*                                                                         *)
(* b.mu is a sync.RWMutex.  An operation that takes the write lock does    *)
(* all its work under it, so it is one action guarded by readers = {}.     *)
(* Publish holds the read lock from PublishBegin to RegisterAsync, and the *)
(* other goroutines interleave with it there and during the dispatch that  *)
(* follows the unlock.  Handlers are opaque: they return, fail or panic    *)
(* (runHandler recovers), and all three continue the same way.             *)
(***************************************************************************)
EXTENDS Integers, Sequences, FiniteSets, SequencesExt

CONSTANTS
    Names,          \* event names
    Patterns,       \* wildcard patterns
    BadPatterns,    \* the patterns filepath.Match reports as malformed
    Matches,        \* filepath.Match: pairs <<pattern, name>>
    OptionLists,    \* the variadic opts a subscriber may pass: <<>> or <<opt>>
    Publishers,     \* goroutines that publish
    Closers,        \* goroutines that call Close
    MaxSubscribers, \* maxSubscribersPerEvent
    MaxSubs,        \* bound: subscriptions made in one behaviour
    MaxPublish      \* bound: Publish calls of each publisher

PriorityLow    == 0
PriorityNormal == 1
PriorityHigh   == 2

Priorities == {PriorityLow, PriorityNormal, PriorityHigh}
Options    == [async : BOOLEAN, priority : Priorities]

ASSUME BusAssumption ==
    /\ MaxSubscribers \in Nat /\ MaxSubs \in Nat /\ MaxPublish \in Nat
    /\ BadPatterns \subseteq Patterns
    /\ Matches \subseteq (Patterns \ BadPatterns) \X Names
    /\ \A o \in OptionLists : o = <<>> \/ \E opt \in Options : o = <<opt>>

SubIds == 1 .. MaxSubs        \* a *subscriber pointer, in allocation order

VARIABLES
    subscribers,    \* b.subscribers: name -> ordered list
    patterns,       \* b.patterns: pattern -> ordered list
    heap,           \* the subscriber structs, and what was asked for them
    allocated,      \* number of subscriber structs made so far
    closed,         \* b.closed
    wg,             \* counter of b.wg
    readers,        \* publishers that hold b.mu for reading
    pc,             \* where each publisher is in Publish
    event,          \* event.Name of its current call
    targets,        \* its local snapshot
    todo,           \* matching patterns its range loop has yet to visit
    pos,            \* index of the next target to dispatch
    calls,          \* Publish calls it has made, the current one included
    expected,       \* history: subscribers its call has to reach
    running,        \* started async goroutines <<publisher, call, index>>
    closer          \* where each caller of Close is

registry  == <<subscribers, patterns, heap, allocated>>
publishing == <<pc, event, targets, todo, pos, calls, expected>>
vars == <<registry, closed, wg, readers, publishing, running, closer>>

NoKey == "none"

Unallocated == [async |-> FALSE, priority |-> PriorityLow, opts |-> <<>>,
                wildcard |-> FALSE, key |-> NoKey, live |-> FALSE]

Subscribers == [async : BOOLEAN, priority : Priorities, opts : OptionLists \cup {<<>>},
                wildcard : BOOLEAN, key : Names \cup Patterns \cup {NoKey}, live : BOOLEAN]

TypeOK ==
    /\ subscribers \in [Names -> Seq(SubIds)]
    /\ patterns \in [Patterns -> Seq(SubIds)]
    /\ heap \in [SubIds -> Subscribers]
    /\ allocated \in 0 .. MaxSubs
    /\ closed \in BOOLEAN
    /\ wg \in Nat
    /\ readers \subseteq Publishers
    /\ pc \in [Publishers -> {"idle", "collect", "dispatch", "handler"}]
    /\ event \in [Publishers -> Names]
    /\ targets \in [Publishers -> Seq(SubIds)]
    /\ todo \in [Publishers -> SUBSET Patterns]
    /\ pos \in [Publishers -> Nat \ {0}]
    /\ calls \in [Publishers -> 0 .. MaxPublish]
    /\ expected \in [Publishers -> SUBSET SubIds]
    /\ running \subseteq Publishers \X Nat \X Nat
    /\ closer \in [Closers -> {"idle", "lock", "wait", "done"}]

Init ==
    /\ subscribers = [n \in Names |-> <<>>]
    /\ patterns = [q \in Patterns |-> <<>>]
    /\ heap = [s \in SubIds |-> Unallocated]
    /\ allocated = 0
    /\ closed = FALSE
    /\ wg = 0
    /\ readers = {}
    /\ pc = [p \in Publishers |-> "idle"]
    /\ event \in {[p \in Publishers |-> n] : n \in Names}
    /\ targets = [p \in Publishers |-> <<>>]
    /\ todo = [p \in Publishers |-> {}]
    /\ pos = [p \in Publishers |-> 1]
    /\ calls = [p \in Publishers |-> 0]
    /\ expected = [p \in Publishers |-> {}]
    /\ running = {}
    /\ closer = [c \in Closers |-> "idle"]

----------------------------------------------------------------------------
(* Subscription.                                                           *)

\* Options of a subscription: the first one given, else the zero value.
resolveOptions(opts) ==
    IF Len(opts) > 0 THEN opts[1] ELSE [async |-> FALSE, priority |-> PriorityLow]

AppendOnly(list, s, h) == Append(list, s)   \* mutant: the sort is forgotten

\* append followed by sort.SliceStable, descending by priority.  The list is
\* already ordered, so the newcomer ends before the first lower priority.
StableInsert(list, s, h) ==
    LET lower == {i \in DOMAIN list : h[list[i]].priority < h[s].priority}
        k == IF lower = {} THEN Len(list) + 1
             ELSE CHOOSE i \in lower : \A j \in lower : i <= j
    IN  SubSeq(list, 1, k - 1) \o <<s>> \o SubSeq(list, k, Len(list))

\* append(subs[:i], subs[i+1:]...) at the index of s, nothing when it is gone.
Without(list, s) ==
    IF \E i \in DOMAIN list : list[i] = s
    THEN RemoveAt(list, CHOOSE i \in DOMAIN list : list[i] = s)
    ELSE list

\* A new struct; wildcard, key and live record what the caller registered.
Allocate(wildcard, key, opts) ==
    LET opt == resolveOptions(opts)
    IN  /\ allocated < MaxSubs
        /\ allocated' = allocated + 1
        /\ heap' = [heap EXCEPT ![allocated + 1] =
                [async |-> opt.async, priority |-> opt.priority, opts |-> opts,
                 wildcard |-> wildcard, key |-> key, live |-> TRUE]]

UnlockedWrite == TRUE                       \* mutant: writers ignore the readers

\* b.mu.Lock is granted only when no Publish holds the read lock.
WriteLocked == readers = {}

Subscribe(name, opts) ==
    /\ WriteLocked
    /\ ~closed
    /\ Len(subscribers[name]) < MaxSubscribers
    /\ Allocate(FALSE, name, opts)
    /\ subscribers' = [subscribers EXCEPT ![name] = StableInsert(@, allocated + 1, heap')]
    /\ UNCHANGED <<patterns, closed, wg, readers, publishing, running, closer>>

\* ErrClosed and ErrMaxSubscribers leave the bus as it was.
SubscribeRefused(name) ==
    /\ WriteLocked
    /\ closed \/ Len(subscribers[name]) >= MaxSubscribers
    /\ UNCHANGED vars

SubscribeWildcard(q, opts) ==
    /\ WriteLocked
    /\ ~closed
    /\ q \notin BadPatterns
    /\ Allocate(TRUE, q, opts)
    /\ patterns' = [patterns EXCEPT ![q] = StableInsert(@, allocated + 1, heap')]
    /\ UNCHANGED <<subscribers, closed, wg, readers, publishing, running, closer>>

\* ErrClosed and ErrInvalidPattern leave the bus as it was.
SubscribeWildcardRefused(q) ==
    /\ WriteLocked
    /\ closed \/ q \in BadPatterns
    /\ UNCHANGED vars

\* The closures returned by Subscribe and SubscribeWildcard.  They may be
\* called any number of times, also after Close.
unsubscribeFunc(s) ==
    /\ WriteLocked
    /\ s <= allocated /\ ~heap[s].wildcard
    /\ subscribers' = [subscribers EXCEPT ![heap[s].key] = Without(@, s)]
    /\ heap' = [heap EXCEPT ![s].live = FALSE]
    /\ UNCHANGED <<patterns, allocated, closed, wg, readers, publishing, running, closer>>

unsubscribeWildcardFunc(s) ==
    /\ WriteLocked
    /\ s <= allocated /\ heap[s].wildcard
    /\ patterns' = [patterns EXCEPT ![heap[s].key] = Without(@, s)]
    /\ heap' = [heap EXCEPT ![s].live = FALSE]
    /\ UNCHANGED <<subscribers, allocated, closed, wg, readers, publishing, running, closer>>

----------------------------------------------------------------------------
(* Publish.                                                                *)

matchPatternLocked(q, name) == <<q, name>> \in Matches

Reaches(s, name) ==
    /\ heap[s].live
    /\ IF heap[s].wildcard THEN matchPatternLocked(heap[s].key, name)
                            ELSE heap[s].key = name

\* b.mu.RLock waits for a writer that is already waiting.
ReadLockGranted == \A c \in Closers : closer[c] # "lock"

PublishRefused(p) ==
    /\ pc[p] = "idle" /\ calls[p] < MaxPublish
    /\ ReadLockGranted
    /\ closed
    /\ calls' = [calls EXCEPT ![p] = @ + 1]
    /\ UNCHANGED <<registry, closed, wg, readers, pc, event, targets, todo, pos,
                   expected, running, closer>>

\* RLock, the closed test and the copy of the exact-name subscribers.
PublishBegin(p, name) ==
    /\ pc[p] = "idle" /\ calls[p] < MaxPublish
    /\ ReadLockGranted
    /\ ~closed
    /\ readers' = readers \cup {p}
    /\ pc' = [pc EXCEPT ![p] = "collect"]
    /\ event' = [event EXCEPT ![p] = name]
    /\ targets' = [targets EXCEPT ![p] = subscribers[name]]
    /\ todo' = [todo EXCEPT ![p] = {q \in Patterns : matchPatternLocked(q, name)}]
    /\ pos' = [pos EXCEPT ![p] = 1]
    /\ calls' = [calls EXCEPT ![p] = @ + 1]
    /\ expected' = [expected EXCEPT ![p] = {s \in SubIds : Reaches(s, name)}]
    /\ UNCHANGED <<registry, closed, wg, running, closer>>

\* One turn of the loop over the patterns map, whose order is arbitrary.
CollectPattern(p, q) ==
    /\ pc[p] = "collect"
    /\ q \in todo[p]
    /\ targets' = [targets EXCEPT ![p] = @ \o patterns[q]]
    /\ todo' = [todo EXCEPT ![p] = @ \ {q}]
    /\ UNCHANGED <<registry, closed, wg, readers, pc, event, pos, calls, expected,
                   running, closer>>

\* The async tasks of p's current call from index pos on: registered with
\* wg, their goroutines not started.
Queued(p) ==
    {<<p, calls[p], i>> : i \in {j \in DOMAIN targets[p] :
                                    j >= pos[p] /\ heap[targets[p][j]].async}}

\* wg.Add(1) for every async target, still under the read lock (one action:
\* no caller of Wait can exist while a reader holds the lock), then RUnlock.
RegisterAsync(p) ==
    /\ pc[p] = "collect" /\ todo[p] = {}
    /\ wg' = wg + Cardinality(Queued(p))
    /\ readers' = readers \ {p}
    /\ pc' = [pc EXCEPT ![p] = "dispatch"]
    /\ UNCHANGED <<registry, closed, event, targets, todo, pos, calls, expected,
                   running, closer>>

CurrentIsAsync(p) == heap[targets[p][pos[p]]].async

\* dispatch of an async target: go func() { ... }().
DispatchAsync(p) ==
    /\ pc[p] = "dispatch" /\ pos[p] <= Len(targets[p])
    /\ CurrentIsAsync(p)
    /\ running' = running \cup {<<p, calls[p], pos[p]>>}
    /\ pos' = [pos EXCEPT ![p] = @ + 1]
    /\ UNCHANGED <<registry, closed, wg, readers, pc, event, targets, todo, calls,
                   expected, closer>>

\* dispatch of a sync target: the handler runs in the publishing goroutine.
DispatchSync(p) ==
    /\ pc[p] = "dispatch" /\ pos[p] <= Len(targets[p])
    /\ ~CurrentIsAsync(p)
    /\ pc' = [pc EXCEPT ![p] = "handler"]
    /\ UNCHANGED <<registry, closed, wg, readers, event, targets, todo, pos, calls,
                   expected, running, closer>>

\* The handler returned, failed or panicked (runHandler recovers).
HandlerReturn(p) ==
    /\ pc[p] = "handler"
    /\ pc' = [pc EXCEPT ![p] = "dispatch"]
    /\ pos' = [pos EXCEPT ![p] = @ + 1]
    /\ UNCHANGED <<registry, closed, wg, readers, event, targets, todo, calls,
                   expected, running, closer>>

PublishReturn(p) ==
    /\ pc[p] = "dispatch" /\ pos[p] > Len(targets[p])
    /\ pc' = [pc EXCEPT ![p] = "idle"]
    /\ UNCHANGED <<registry, closed, wg, readers, event, targets, todo, pos, calls,
                   expected, running, closer>>

\* Mutant: a panicking async handler skips wg.Done.
AsyncPanic(t) ==
    /\ t \in running
    /\ running' = running \ {t}
    /\ UNCHANGED <<registry, closed, wg, readers, publishing, closer>>

\* An async handler ended, in whatever way: the deferred wg.Done.
AsyncDone(t) ==
    /\ t \in running
    /\ running' = running \ {t}
    /\ wg' = wg - 1
    /\ UNCHANGED <<registry, closed, readers, publishing, closer>>

----------------------------------------------------------------------------
(* Close.                                                                  *)

CloseCall(c) ==
    /\ closer[c] = "idle"
    /\ closer' = [closer EXCEPT ![c] = "lock"]
    /\ UNCHANGED <<registry, closed, wg, readers, publishing, running>>

CloseSet(c) ==
    /\ closer[c] = "lock"
    /\ WriteLocked
    /\ closed' = TRUE
    /\ closer' = [closer EXCEPT ![c] = "wait"]
    /\ UNCHANGED <<registry, wg, readers, publishing, running>>

\* Mutant: Close returns without waiting.
CloseWithoutWait(c) ==
    /\ closer[c] = "wait"
    /\ closer' = [closer EXCEPT ![c] = "done"]
    /\ UNCHANGED <<registry, closed, wg, readers, publishing, running>>

CloseReturn(c) ==
    /\ closer[c] = "wait"
    /\ wg = 0
    /\ closer' = [closer EXCEPT ![c] = "done"]
    /\ UNCHANGED <<registry, closed, wg, readers, publishing, running>>

----------------------------------------------------------------------------
PublishStep(p) ==
    \/ \E q \in Patterns : CollectPattern(p, q)
    \/ RegisterAsync(p)
    \/ DispatchAsync(p)
    \/ DispatchSync(p)
    \/ HandlerReturn(p)
    \/ PublishReturn(p)

CloseStep(c) == CloseSet(c) \/ CloseReturn(c)

Next ==
    \/ \E name \in Names, opts \in OptionLists : Subscribe(name, opts)
    \/ \E name \in Names : SubscribeRefused(name)
    \/ \E q \in Patterns, opts \in OptionLists : SubscribeWildcard(q, opts)
    \/ \E q \in Patterns : SubscribeWildcardRefused(q)
    \/ \E s \in SubIds : unsubscribeFunc(s)
    \/ \E s \in SubIds : unsubscribeWildcardFunc(s)
    \/ \E p \in Publishers : PublishRefused(p)
    \/ \E p \in Publishers, name \in Names : PublishBegin(p, name)
    \/ \E p \in Publishers : PublishStep(p)
    \/ \E t \in running : AsyncDone(t)
    \/ \E c \in Closers : CloseCall(c)
    \/ \E c \in Closers : CloseStep(c)

Spec == Init /\ [][Next]_vars

\* The Go scheduler runs every goroutine that can run, and handlers return.
\* Nothing obliges anybody to publish, subscribe, cancel or close.
Fairness ==
    /\ \A p \in Publishers : WF_vars(PublishStep(p))
    /\ \A c \in Closers : WF_vars(CloseStep(c))
    /\ WF_vars(\E t \in running : AsyncDone(t))

FairSpec == Spec /\ Fairness

----------------------------------------------------------------------------
(* Properties.                                                             *)

\* Publishers past the unlock; their queued tasks are registered with wg.
Dispatching == {p \in Publishers : pc[p] \in {"dispatch", "handler"}}

SomeCloseReturned == \E c \in Closers : closer[c] = "done"

Outstanding == running \cup UNION {Queued(p) : p \in Dispatching}

\* The WaitGroup counts exactly the async tasks that were registered under
\* the lock and have not finished, started or not: no task is counted twice,
\* forgotten, or released by a panic (bus.go 75-99).
WgCountsOutstanding == wg = Cardinality(Outstanding)

\* When any Close has returned no async handler is running and no Publish
\* still has one to start (Close, bus.go 225-232; doc.go "Close waits for all
\* queued async handlers").
CloseQuiesces == SomeCloseReturned => Outstanding = {}

\* A Publish calls each subscriber that was registered and matching when it
\* took the lock exactly once, and nobody else, although the lists are read
\* one by one and others subscribe, cancel and close meanwhile (bus.go 60-86).
SnapshotExact ==
    \A p \in Dispatching :
        /\ \A i, j \in DOMAIN targets[p] : targets[p][i] = targets[p][j] => i = j
        /\ {targets[p][i] : i \in DOMAIN targets[p]} = expected[p]

\* Higher priority first, equal priority in order of registration.
Ordered(list) ==
    \A i, j \in DOMAIN list : i < j =>
        \/ heap[list[i]].priority > heap[list[j]].priority
        \/ heap[list[i]].priority = heap[list[j]].priority /\ list[i] < list[j]

\* After any history of subscriptions and cancellations every list is in
\* priority order, stable among equals, and holds exactly the subscribers that
\* were not cancelled (the sort after append and the cancel closures,
\* bus.go 145-149, 159-165, 190-194, 204-210).
ListsOrdered ==
    /\ \A n \in Names :
        /\ Ordered(subscribers[n])
        /\ {subscribers[n][i] : i \in DOMAIN subscribers[n]} =
               {s \in SubIds : heap[s].live /\ ~heap[s].wildcard /\ heap[s].key = n}
    /\ \A q \in Patterns :
        /\ Ordered(patterns[q])
        /\ {patterns[q][i] : i \in DOMAIN patterns[q]} =
               {s \in SubIds : heap[s].live /\ heap[s].wildcard /\ heap[s].key = q}

\* The WaitGroup never grows once a Close may be waiting on it, and a Publish
\* that began before the bus closed is let finish its registration first
\* (wg.Add under the read lock, bus.go 75-81).
NoAddAfterClose == [][wg' > wg => ~closed /\ \A c \in Closers : closer[c] # "wait"]_vars

\* Close returns if handlers do, also when it was called while Publish calls
\* held the lock or were still dispatching (bus.go 226-233).
CloseTerminates == \A c \in Closers : closer[c] = "lock" ~> closer[c] = "done"

DrainPhase == IF SomeCloseReturned THEN "drained" ELSE IF closed THEN "draining" ELSE "open"

Drain == INSTANCE GracefulDrain WITH
    Work <- Publishers \X (0 .. MaxPublish) \X Nat, phase <- DrainPhase, work <- Outstanding

\* The bus drains gracefully (GracefulDrain), with the async tasks registered
\* under the lock as its work: none is accepted after Close, none is lost
\* between registration and its end, and Close returns when none is left.
ImplementsDrain == Drain!Spec

----------------------------------------------------------------------------
(* What the documentation says, and the code does not do.                  *)

\* event.go, "the zero value (PriorityNormal) is the default priority": a
\* subscriber without options that registered before one of explicit normal
\* priority runs before it.
ZeroValueIsNormal ==
    \A n \in Names : \A i, j \in DOMAIN subscribers[n] :
        LET s == subscribers[n][i]
            t == subscribers[n][j]
        IN  s < t /\ heap[s].opts = <<>> /\ heap[t].opts # <<>>
              /\ heap[t].priority = PriorityNormal => i < j
============================================================================
