# app-tpl: TLA+ models, checks and proofs

This directory holds TLA+ models of the repository (an application template in
Go: HTTP, TCP and UDP servers over a shared infrastructure of database, cache,
event bus and scheduler, with a configuration, a wire protocol, migrations and a
generator of database models), the TLC
configurations that check them on small instances, and TLAPS proofs about them
for every instance. `PROJECT.json` is the index: components, runs, mutants, the
map from definitions to source lines, findings, hazards and theorems.

    tlc -config MCEventBus.cfg MCEventBus           # one run
    tlapm EventBusProofs.tla                        # one proof module

## 1. The system

| Part | State | Operations | Talks to |
|---|---|---|---|
| Application (`internal/app`) | hooks and their states, the servers, `httpFailed`, `appStarted` | `New` (wiring), `Run`, `shutdown` | builds, starts and stops everything else; signals; one goroutine around `Serve` |
| Event bus (`pkg/event`) | subscriber lists by name and by pattern, `closed`, a WaitGroup | `Publish`, `Subscribe`, `SubscribeWildcard`, cancel, `Close` | called by any goroutine; calls handlers; a hook of the application |
| Scheduler (`pkg/scheduler`) | cron on/off, `cronStarted`, `lockOwned`, heartbeat goroutine; in Redis the leader key | `Start`, `Stop`, heartbeat | Redis, the other processes; a hook of the application |
| TCP server (`internal/server/tcp.go`) | listener, connection map, per-connection handler and heartbeat checker, WaitGroup, shutdown context | `Start`, accept loop, `handleConnection`, `heartbeatChecker`, `Stop` | clients, the handlers of `internal/handler/tcp` |
| UDP server (`internal/server/udp.go`) | socket, packet channel (1000), worker pool, sessions | `Start`, receive, work, cleanup, `Stop` | clients, handlers |
| HTTP server, router, middleware | net/http server; rate-limit buckets in an LRU in memory, or in Redis | `Serve`, `Shutdown`, the middleware chain, the route groups | handlers, JWT, Redis |
| Chat (`internal/handler/tcp/chat*.go`) | clients, broadcast channel (100) | join, leave, message, broadcast loop, `Shutdown` | TCP connections; a hook of the application |
| User service, repository, cache | database rows, cached users | create, get, list, update, delete | cache library, database |
| Cache library (`pkg/cache`) | memory and Redis stores, two-level cache with warm-up | get, set, delete, close | Redis |
| Lock library (`pkg/lock`) | held keys with token and expiry | lock, release | Redis |
| Goroutine limiter (`internal/utils`) | semaphore, read-write lock, WaitGroup | `Go`, `GoWithRetry`, `Wait`, `SetMaxGoroutines` | callers |
| Captcha (`pkg/captcha`) | the answers, in a cache | `Generate`, `Verify` | cache library |
| Migrations (`internal/database/migrate`) | bun's tables of migrations and of its lock, the schema | `Up`, `Down` | the database, other processes |
| Wire protocol (`internal/protocol`) | none: functions on bytes | `Encode`, `Decode`, `ParseHeader` | both servers |
| Configuration (`internal/config`) | the configuration, while it is loaded | `LoadWithMeta`, `Validate` | files, dotenv files, the environment; the wiring in `internal/app` |
| Model generator (`internal/database/gen`) | tables and relations, while they are worked on | `GenerateModels` | the database's catalogue, a YAML file |
| Payment, object storage, database driver, metrics, logging, tracing, CLI | adapters of libraries and I/O | | |

What is hard, and what makes each part correct:

* **Event bus.** Publishers, subscribers and closers run at once. Correct: a
  call reaches exactly the subscribers of one moment, in order; `Close` returns
  only when no async handler is left; nobody waits for ever.
* **Scheduler.** Several processes, expiry, lost answers, crashes. Correct: one
  process runs cron while Redis works; a process that lost the lock stops; a
  process never touches another's lock; `Stop` ends and leaves nothing behind.
* **Lifecycle.** Any constructor, hook or server can fail; signals come at any
  time. Correct: everything acquired is released once and in order, behind the
  servers; failures are reported; the process ends.
* **TCP server.** Connections race with the limit and with `Stop`; three
  goroutines share a connection. Correct: the WaitGroup and the map are exact,
  `Stop` leaves nothing, nothing is stuck.
* **User service.** Readers fill the cache while writers invalidate it, in several
  processes and two levels. Correct: outdated values do not last and are never
  used to let anybody in; a deletion is final.
* **UDP server.** One receiver, a bounded channel, a pool that handlers can block,
  sessions refreshed and removed by different goroutines. Correct: the receiver
  is never held up, sessions follow the traffic, `Stop` leaves nothing.
* **Chat.** Clients are copied when a message is taken from the channel, while
  others join, leave and fail. Correct: members hear what was sent while they
  were members; no connection is stuck in the room.
* **Lock, limiter, captcha, migrations, rate limit.** Each judges by something it
  read earlier: the time, the semaphore, the answer, the list of pending
  migrations, the bucket. Correct: one holder, no slot lost, no answer used
  again, no migration run twice, no more than the rate.
* **Wire protocol, configuration, generator.** Algorithms with many inputs.
  Correct: only whole frames are accepted; the documented priority; what was
  accepted is what runs; the generated models compile and hang together.

The 40 hazards of `PROJECT.json` say where each bites and which property covers
it.

## 2. Modules

| Module | What it is |
|---|---|
| `GracefulDrain` | abstract specification: work is accepted while open, finished and never dropped; the shutdown returns when none is left |
| `EventBus`, `EventBusProofs`, `MCEventBus` | `pkg/event/bus.go`; implements `GracefulDrain` |
| `Scheduler`, `SchedulerProofs`, `MCScheduler` | `pkg/scheduler` with the Redis lock |
| `AppLifecycle`, `AppLifecycleProofs`, `MCAppLifecycle` | `internal/app`; the event bus, the scheduler and the servers appear in it as hooks and as started/stopped parts |
| `TCPServer`, `TCPServerProofs`, `MCTCPServer` | `internal/server/tcp.go`; implements `GracefulDrain` |
| `UserService`, `UserServiceProofs`, `MCUserService` | `internal/service/user.go` with its repository, `internal/cache` and `pkg/cache` |
| `UDPServer` | `internal/server/udp.go`, `internal/handler/udp` |
| `Chat` | `internal/handler/tcp` |
| `MCMessaging`, `MessagingProofs` | the instance of `UDPServer` and `Chat`, and proofs about both |
| `Locker` | `pkg/lock` |
| `GoLimiter` | `internal/utils/goroutine.go` |
| `Captcha` | `pkg/captcha` over `pkg/cache` |
| `Migrate` | `internal/database/migrate` over bun (external) |
| `HTTPEdge` | JWT, rate limit and route groups: `internal/middleware/http`, `internal/handler/http`, `internal/server/http.go` |
| `MCServices`, `ServicesProofs` | the instance of the five modules above, and proofs about each |
| `WireProtocol` | `internal/protocol` and what the servers do with a read |
| `Config` | `internal/config`, and what `internal/app` and `cmd` make of it |
| `ModelGen` | `internal/database/gen` |
| `MCTools`, `ToolsProofs` | the instance of the three modules above, and proofs about each |

An `MC` module with several components chooses one of them in `Init` and leaves
the others where they start: they share no state, so nothing is lost by it and
the state spaces add up instead of multiplying.

Definitions that change code on purpose ("Mutant:" in their comment) are used by
no specification. They are alternatives for the definition that follows them;
putting one in its place must break the property that `PROJECT.json` pairs it
with, which shows that the property depends on the code.

### EventBus

`subscribers`, `patterns`, `closed`, `wg` are the fields of `bus`; `heap` holds
the `subscriber` structs, addressed in allocation order, with what their caller
asked for (history). `readers` is the read side of `b.mu`: operations under the
write lock are single actions guarded by `readers = {}`, while `Publish` is
`PublishBegin` (RLock, `closed`, the exact list), `CollectPattern` per matching
pattern in any order (a Go map), `RegisterAsync` (wg.Add for all async targets,
RUnlock), then `DispatchAsync`/`DispatchSync`/`HandlerReturn` per target and
`PublishReturn`. `Close` is `CloseCall` (waiting for the lock, which holds up
new readers as Go's RWMutex does), `CloseSet`, `CloseReturn`. `StableInsert` is
append followed by the stable sort: in a list that is already ordered the
newcomer goes before the first element of lower priority. `filepath.Match` is a
constant relation.
The lists are values: that `append(subs[:i], subs[i+1:]...)` shifts an array in
place cannot show, only the order it leaves.

### Scheduler

One `main` and one `heartbeat` label per process, the Redis key as `owner` and
`ttl`. Time is in ticks; any two steps may have ticks between them. Redis calls
that fail are carried out or not (`Fails`). `Restart` is a crash, or an exit
followed by a start, with a new token. `PromptStart` and `PromptHeartbeat`
restrict time for the run that states what holds when processes are not
suspended and heartbeats are on time.

### AppLifecycle

`pc` is the place of the goroutine in `New` and `Run`, `http` that of the
goroutine around `Serve`. `Init` chooses the enabled parts; every wiring stage
with a constructor that can fail has `WireFails`. The three sweeps over hooks
(`startHooks`, `rollbackStartedHooks`, `stopHooks`) take one action per hook, so
that signals and the HTTP goroutine come in between. `Stopped` is what
`TCPServer.Stop` and `UDPServer.Stop` do, as `TCPServer.tla` has it in detail. A
signal that is not caught ends the process.

### TCPServer

`handler[c]` is the place of the goroutine of connection `c`, `checker[c]` of its
heartbeat checker, `acceptor` that of the accept loop (or the connection it has
accepted and not yet dealt with). The deferred calls run in Go's order: `Leave`
(close(heartbeatDone), delete), then `Done` (close, wg.Done). `silent[c]` counts
the read timeouts that went by since the deadline was set; a read whose deadline
has passed fails at once, whatever has arrived, as Go's does. Clients dial and
hang up at will.

### UserService

The model follows one user: its e-mail is unique in the table, deleted rows
included, and caches are keyed by its id. A value is the number of writes the row
has seen. `driver` is what `Factory.Create` built; `HasL1` and `HasL2` say which
levels it has, and `FirstLevel` that `MultiCache` tries the first level first.
`GetByID` is `GetL1`, `GetL2`/`MissL2`, `Load`/`LoadFails`, `FillL1`, `FillL2`, and a
hit in the second level leaves a version in `warm` for a `WarmUp`. `Update` and
`Delete` are `ReadForWrite`, the write, `InvalidateL1`, `InvalidateL2`; `Create` is
`Lookup`, `Insert`; `ValidateCredentials` is `Accept` or `Refuse`. Every call of the
database or of Redis may fail, with or without effect, and a process may die.
The first level belongs to a process; the row and the second level are shared.

### UDPServer

`receiver` is the place of `receivePackets` and the packet in its hand, `worker[w]`
what a `packetWorker` handles, `cleaner` the `sessionCleanupLoop`. `updateSession`
comes before `Enqueue`, as in the code, so a dropped packet has refreshed its
session. What a packet holds is chosen when a worker takes it (`Kinds`), because
nothing before looks into it. `fate`, `heard` and `drained` are history. Handlers
may hang for ever: that they return is a hypothesis of the one property that
needs it.

### Chat

A join is `JoinRegister` (under the mutex) and `JoinSelect` (after it), with
`JoinRollback` when the shutdown was chosen; a leave likewise. `broadcastLoop` is
`LoopTake`, `LoopSnapshot` (the copy under the read lock), a write per client and
`LoopRemove` for a failed one. Each message carries, as history, the clients it
is `due` to.

### Locker, GoLimiter, Captcha, Migrate, HTTPEdge

`Locker` has one key; a caller's `now` is the time it read before it got the
mutex (memory) or nothing (Redis judges by its own clock). `GoLimiter` has the
RWMutex with Go's rule that a waiting writer keeps readers out. `Captcha` follows
one captcha through `probe`, `reget` and `delete` over each kind of cache.
`Migrate` splits a command into list, lock, mark, run and unlock; a process can be
killed between any two. `HTTPEdge` takes a request through `JWTAuth`, the layers of
the rate limiter (each a lookup in the LRU, an insertion, a reservation, and a
cancellation when it has to wait) and the middleware of its group; requests
interleave between these. A bucket is one of `golang.org/x/time/rate`: `last` is
its own time, counted in tokens, and a reservation that has to wait is told the
time it is `due`. `Cancel` is `CancelAt`: the token goes back unless that time has
passed or a later reservation was made meanwhile, which shows in the debt of the
bucket. Seconds pass as ticks that refill every bucket at once, and the delay of
a reservation is read when it is made (the code asks a moment later; a delay
that has run out in between would let the request through). `Configurations` and
`Offered` are what a run chooses among all configurations and requests; the
proofs take any.

### WireProtocol, Config, ModelGen

A frame is a sequence of cells, one a header field or payload byte; TCP is a
stream that is cut anywhere, UDP a set of datagrams. `Config` has the keys that
`Validate` or the wiring looks at, each with the values they tell apart, and a
secret is the layer it comes from. `ModelGen` is about any tables, schemas, foreign
keys and declared relations: what the naming functions make of names are constants
(`Singular`, `Plural`, `GoName`), a key is a sequence of columns, and `Unmarshalled`
and `Physical` say which relations a file and a database can hold. `WriteModels` is
the last loop of `GenerateModels`: it skips the tables that `--exclude` names, or
fails with some models written and not others; a dry run prints what is written
otherwise and is not told apart. Aliases, tags, types and layout are left out. `MCTools` gives
it users, roles and a table between them, with every mixture of keys, declarations
(one of them over two columns) and options, with no table excluded or the roles;
without `WithRelations` it has no foreign keys, which the code would not read.

## 3. Runs

| Run | Shows | Bounds |
|---|---|---|
| `bus` | snapshots are exact and lists ordered under concurrent changes; graceful drain; Close ends | 2 publishers, 1 closer, 2 subscriptions over a name and three patterns (two that match, one malformed), sync and async |
| `sched` | one leader unless there are faults; a lost lock stops cron; others' locks are kept; a split brain heals; Stop ends | 2 processes with 2 lives each, TTL 2, one fault (failing call, lost answer, panic), late heartbeats |
| `app_lifecycle` | parts are stopped once and in order, behind the servers; events are paired; failures reported; the process ends | every configuration; no bound at all: the model is finite |
| `tcp` | Stop leaves nothing; graceful drain; nobody waits in the backlog for ever; handlers and checkers end | 2 connections against a limit of 1; 1 timeout, 1 Stop |
| `user_cache` | races apart the cache is coherent; outdated values run out; accounts are decided by the row; deletions are final | 2 requests, 2 processes, all four drivers, 3 writes, TTL 2 and 1 ticks, 1 failure; symmetric processes and requests; a view identifies outdated versions with each other |
| `messaging` | UDP: sessions follow the traffic, packets are served or dropped without holding up the receiver, quiet after Stop. Chat: members hear, handlers return | 3 packets of 2 clients, 1 worker, a channel of 1, threshold 1, 2 ticks; 3 connections, 3 messages, a channel of 1 |
| `services` | one holder; slots are exact; a spent captcha stays spent; migrations run once; handlers need credentials; the rate holds; Wait ends | 3 callers, TTL 2, 2 calls each; 3 tasks over 2 slots, 1 resize, 1 retry; 2 instances, 2 verifications, 3 kinds of cache; 2 migrators with 2 commands, 2 migrations; 3 requests over an LRU of 2 buckets, 1 refill |
| `tools` | Decode accepts whole frames only; the priority holds; an accepted configuration is wired; fields are distinct, both ends navigable, and written models refer to written or excluded ones | 2 frames of up to 2 bytes, 1 damaged cell; 3 edited keys, 2 dotenv files; 36 schemas of three tables, none or one of them excluded |
| `sched_split_brain`, `tcp_limit`, `tcp_timeouts`, `tcp_framing` | the promises the code does not keep (section 5) | as small as the trace allows |

The bounds are enough for the interesting cases: two of everything that
competes, one more than every limit, and time enough for a key, a session or a
deadline to expire while somebody still goes by it. In `messaging` the third
connection is needed for a removal to hit a client that is neither sender nor
failed, and the third packet for one to be handled, one queued and one dropped at
once.

## 4. Fairness

Weak fairness of each goroutine's own steps: the Go scheduler runs every
runnable goroutine. `EventBus` assumes that handlers return (it calls them
synchronously and waits for them in `Close`). `Scheduler` adds strong fairness
for the cancelled case of the heartbeat's `select`, which Go picks at random when
several cases are ready, and that time passes. `AppLifecycle` asks nothing of
signals and lets the HTTP server serve for ever. `TCPServer` assumes that
handlers return and that a read ends, by data or by its deadline. `UDPServer` has
receiver, workers, cleanup and Stop fair and lets handlers hang; `PacketsServed`
takes "handlers return" as a hypothesis of its second half. In `Chat` a write ends
because it has a deadline. In `GoLimiter` the started functions end and a resize
that waits proceeds when it can. `UserService` states no liveness: `StaleRunsOut`
is a variant, for which fairness is not needed. Nobody is ever obliged to call,
dial, send, stop or fail.

## 5. Findings

Each is a violation run whose trace follows the code.

1. `sched_split_brain`: renewals that fail with other errors than
   `ErrLockNotHeld` let the lock expire under a running cron.
2. `tcp_limit`: more connections than `max_connections` are served.
3. `tcp_timeouts`: `max_timeout_count` timeouts are counted within one
   `read_timeout`.
4. `tcp_framing`: the servers parse the header of one read and hand over what
   follows it, without the length or the checksum.

Further behaviours of the models, checked by no run of their own, that deserve a
reader's attention:

* *Event bus.* The zero `SubscriptionOptions` has priority low (`event.go:25`)
  although the comment at `event.go:20` and the default of `bus.go:116` say
  normal. Wildcard subscribers run after all exact ones whatever their priority.
* *Lifecycle.* After a failed `OnStart` the hooks are not stopped in reverse
  (`lifecycle.go:56` against `:11`): the rolled-back ones come first.
* *Scheduler.* A process suspended between `startHeartbeat` and `cron.Start` for as
  long as the lock lives starts cron after its heartbeat found the lock lost
  (`PromptStart` excludes it).
* *User service.* An update of a row deleted meanwhile reports success; a `Create`
  that loses the race for an e-mail ends in an internal error; a fill that
  overlaps a write leaves the old row in the cache until it expires, hence the
  hypothesis of `CoherentWithoutRaces` and the bound of `StaleRunsOut`.
* *Goroutine limiter.* With a resize, `Wait` may never return (`WaitAlwaysEnds` is
  false): a `Go` that waits for room holds the read lock, the resize waits for
  that lock, and the goroutines that would make room wait behind the resize.
* *Chat.* A join after the shutdown may still be queued (`select` picks either
  case), for a loop that has ended; a failed write may delete the entry of a
  later join of the same connection.
* *Captcha.* Two verifications at once may both succeed; with the two-level cache
  a later one may, because a warm-up brings the answer back.
* *Migrations.* bun marks a migration before it runs it, so one that fails or is
  killed in between counts as applied; a killed process leaves the lock row;
  `AppliedCount` is that of the list made before the lock.
* *Rate limit.* A request that a later layer refuses keeps the tokens it took in
  the earlier ones.
* *Configuration.* `Validate` accepts an empty `cache.driver` and `buffer_items` 0,
  which the cache factory refuses (`ValidStarts` is false), and a
  `heartbeat_interval` of 0, on which `time.NewTicker` panics (`tcp.go:323`); a
  `shutdown_timeout` of 0 is used as it is by the TCP and UDP servers although the
  comment says it defaults to 30; the overlay, whose existence beside the
  primary file is checked, is then found by the search path, so that one of
  another directory may be merged (`config.go:332-347`).
* *Generator.* The `m2m` tag of a detected junction names the default field of its
  keys even if one was renamed (`JoinNamesFields` is false); a many-to-many that
  is declared in the reverse order of a detected one is refused as a conflict.
* *UDP statistics.* `packets_sent` is always 0, although
  `docs/tcp-udp-guide.md:245` documents it.

## 6. Proofs

**EventBusProofs** proves, for every set of names, patterns, options, publishers
and closers, that the types hold, that the WaitGroup counts the outstanding async
tasks exactly, that a `Close` that returned left none, that nothing is added once
the bus is closed, and that the bus implements `GracefulDrain`. The inductive
invariant is `IInv = TypeOK /\ LockInv /\ AllocInv /\ TokenInv /\ HandlerInv /\
DrainInv`. `LockInv`: a publisher holds the read lock exactly while it
collects, and `closed` is set once some caller waits in `Close`; so no publisher
can register tasks past the flag. `AllocInv`: lists and targets hold allocated
subscribers only, so that the `async` flag of a task never changes. `TokenInv`:
a started task belongs to an earlier call of its publisher or to an earlier index
of the current one, so that starting and queueing never collide. `HandlerInv`: a
publisher in a sync handler has a current target. `DrainInv`: the counter is the
cardinality of the outstanding tasks, and there are none after a Close. The
lemmas on `StableInsert`, `Without` and `RemoveAt` say what the list operations
return.

On top of it `ListInv` gives `ListsOrdered` and `SnapshotExact`. An ordered list
stays ordered under the insertion because a newcomer has the largest id, and
under the removal because it holds nobody twice (`InsertKeeps`, `RemovalKeeps`).
`SnapshotExact` speaks of the dispatch, when it is too late to know; `CollectInv`
says under the read lock what has been collected, namely whom the call has to
reach except through patterns it has yet to visit. No writer can change that, since
it waits for the readers; each turn adds subscribers of one pattern, disjoint
from what is there.

**TCPServerProofs** proves, for every finite set of connections and every limit,
the types, `WgCountsGoroutines`, `MapIsServed`, `StopLeavesNothing` and the
implementation of `GracefulDrain`. The invariant adds `AcceptorInv` (what the
accept loop has in hand is an open socket nobody serves; the loop lives as long
as the listener), `SocketInv` (an open socket has a goroutine that will close
it), `TimeoutInv` (only a handler on its way out has used up its timeouts) and
`StopInv`. `HandlersStep` sorts every step into five kinds (none, one handler more
or less, loop starts, loop ends), from which the counter and the refinement
follow. Assumed: the connections are a finite set, different from the three labels
of the accept loop.

**MessagingProofs** proves, of the UDP server, `SessionTracksTraffic` and `QuietAfterStop` for every set
of packets and addresses, every finite pool, capacity and threshold. `SessionInv`:
a session is what was last heard from its address, or was removed when that was
longer ago than the threshold; this is what survives the interleaving of receiver
and cleanup. `WgInv`: the counter is the number of workers, receiver and cleanup
that have not ended; `CountedStep` sorts the steps by how they change that number.
`StopInv`: a Stop that returned nil left none of them, from which the action
property follows because every action that touches a packet or a session belongs
to one. Assumed: packets are none of the labels of a worker.

Of the chat it proves `MembersHear` for any connections and any capacity. The
property is not inductive, as the copy of the clients is taken later than the
message was queued. `DueInv`: whoever a message is due to is still a member,
wherever the message is, and is not its sender. `MapInv`: a member is in the map
unless a write to it failed, since `LoopRemove` takes out only such clients.

**SchedulerProofs** proves `LeaderUnlessFaults`, `LostLockStopsCron` and
`OthersLockKept` for any processes, any number of lives and faults, and any time to
live longer than the interval of the heartbeats (assumed; the constructor's
defaults have it so). That at most one process runs cron says nothing of the
lock, so the invariant does: `LockKept`, while a heartbeat goes on the lock is
the process's own and lives until the next renewal (`ttl + since >= TTL`);
`CronGuarded`, cron runs only while the heartbeat does. Both hold until the first
fault, a late heartbeat included. `LostInv` carries the second theorem, which has
`PromptStart` as its hypothesis: without it the property is false (section 5).

**UserServiceProofs** proves `NoResurrection`, `AccountsSound`,
`CoherentWithoutRaces` and `StaleRunsOut` for any processes, requests, drivers and
times to live and any number of writes, warm-ups and failures. `CacheInv` holds
always: requests are where they have something to do, levels the driver lacks
are empty, and everything cached or about to be is a version the row really had
while it was live. `CurrentInv` holds without races and failures: copies and
warm-ups are of the current version, and an outdated entry has a writer that is
about to remove it. For `StaleRunsOut` each step is shown to take the contents of
the cache from what was there (`Sources`), so that the maximum of the times left
cannot grow.

**ServicesProofs** takes the smaller components one by one, each under its own
specification.

* *Lock*: `OneHolder` for any callers and times. `HolderInv`: the entry is that of
  any caller within its time to live; `ClockInv`: a time read before the mutex was
  obtained is not later than the clock, so that judging by it can only find a
  lock held that has expired, never the reverse.
* *Limiter*: `SlotsMatch` for any finite set of tasks, any limit and any resizes.
  `GoLockInv`: whoever sends or receives holds the read lock, and nobody does
  while a resize moves the signals; `SlotInv` counts them.
* *Captcha*: `SpentStaysSpent` for any instances and verifications. `SpentInv`: the
  answer is in one instance at most, that of every verification that found it.
* *Migrations*: `AppliedOnce` for any processes, commands and migrations.
  `Exclusive`: one process is between lock and unlock, although a killed one leaves
  the row; `TodoInv`: what it has left to do is still to do, although it was listed
  before the lock; `SchemaInv` relates table, schema and the migration in hand.
* *HTTP edge*: `HandlerNeedsCredentials` and `RateHolds` for any requests,
  configurations, rates, size of the LRU and length of time. `ClaimsInv`: claims
  are those of the request's own token. `PairsInv`: the LRU has one bucket of a
  key, and unless it was evicted all requests that hold a bucket of this key hold
  that one, which is what the second lookup under the write lock is for.
  `DebtInv`: a token still to come is part of the debt of its bucket, and no two
  requests wait for the same one. `BudgetInv`: what was let through and the
  tokens left are together within the rate.

**AppLifecycleProofs** proves the four invariants of the lifecycle. The model has no
constants, and TLC goes through all of it; the proofs say why it is so.
`FailureInv`: the context is cancelled by a signal or by a failure that was stored
before. `ServersInv`: where the shutdown has passed a server it is down, and an HTTP
server whose `Serve` is still to be scheduled will find `inShutdown` set.
`LifecycleInv` carries `StoppedOnceInOrder`, none of whose parts is inductive: the
hooks are those of stages that are over, no two the same (`HooksInv`); a hook is
flagged as stopped exactly if a call of its `OnStop` succeeded (`StopsInv`), which is
why the second sweep after a failed start repeats no call; the last sweep has dealt
with all hooks behind its index (`SweepInv`); and an application that came up sweeps
once (`OrderInv`). `EventsInv`: the bus accepted `app.started` exactly if the flag
`appStarted` is set, and has accepted `app.stopped` too once the hooks are stopped.

**ToolsProofs** takes the remaining three, each under its own specification.

* *Configuration*: `PriorityHolds` and `AcceptedIsWired` however many keys the
  primary file sets and however many dotenv files there are. `ProcessInv`, `FileInv`
  and `AcceptInv` say at each stage of `LoadWithMeta` what the layers read so far
  leave behind; that a search finds the overlay that is merged rests on its
  existence beside the primary file (`OverlayFound`).
* *Generator*: `FieldsDistinct`, `BothEndsNavigable` and `ReferencesGenerated` for any
  tables, schemas, keys, declarations and options; a field of a written model may be
  of a type that is not written only if `Exclude` names its table, as
  `TestGenerateModels_excludeSkipsWrite` has it. `GenInv` says at each stage what is
  known of the relations, and that at the end all tables but the excluded ones are
  written: no key has a reverse that is one or skipped before its
  table was read; the ends of relations are tables that are generated, also of a
  many-to-many found later, because its ends are those of the keys of the junction;
  a skipped reverse has a many-to-many in its place (`DetectReplaces`), also when
  merging keeps a declared one instead of the one detected. `FieldsDistinct` has the
  hypothesis `ColumnsNamedApart`: `ToCamelCase` gives `user_id` and `user__id` one name,
  and nothing in the code compares columns with each other.
* *Framing*: `DecodeExact`, for any payloads, buffers and numbers of frames, losses and
  damaged cells. `WireInv`: every place of the stream is a place of a frame whose
  rest follows, but for noise, and what was read begins at such a place; of a
  datagram that is the first cell of a frame. Accepted data that begins as a frame
  does is that frame (`DecodedIsSent`): its length is the frame's since a damaged
  length is no length, and then the checksum decides. Over UDP this is all
  (`DatagramsDecodeExactly`). Over TCP a read may begin in the middle, and
  `DecodeIsExact` has the hypothesis `MagicMarks`, that no other cell is the magic
  number: a payload that holds a whole frame would be accepted as that frame if
  the stream is cut there, and nothing escapes it. `ChecksumAssumption` says that
  the checksum tells payloads of one length apart, which CRC-32 does up to four bytes
  and the checksum of the model does for the payloads of the instance.

TLC evaluates both hypotheses and the assumption on the instance of `MCTools`.

The attempt to prove `RateHolds` found a fault of an earlier model, which let
`Cancel` give a token back or not as it liked: over two seconds it could return a
token that had been used, and the property failed. `CancelAt` computes from the
time the token was due whether it goes back, and so does the model now.

The invariants named here were checked with TLC on the instances of section 3
before they were proved.

Only model-checked, and why:

* every liveness property (`CloseTerminates`, `SplitBrainHeals`, `StopTerminates`,
  `ProcessEnds`, `BacklogServed`, `ConnectionsEnd`, `PacketsServed`, `HandlersReturn`,
  `WaitEnds`): fairness and ENABLED are beyond the prover;
* that the checksum of the model is injective on its payloads: it is a fold, and what
  a fold computes for every sequence needs induction over data.

Every other property of a passing run, invariants, action properties and
refinements, is stated by a theorem.

## 7. Plan

*Models*: `Clear`, `Exists` and `Close` of the caches; `Register` and `Remove` of
the scheduler; the timeout middleware.

## 8. Not modelled

Payment and object-storage drivers (adapters of vendor SDKs), the opening of the
database and its table of type names, metrics, logging, tracing, the dump of the
configuration and most of the command line: I/O and formatting no other part
depends on for its control. The TCP and UDP middleware, which nothing wires into
the servers. The contents of messages, HTTP requests and log lines; the pixels of
a captcha; signatures of tokens. Jobs inside cron.
