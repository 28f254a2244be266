----------------------------- MODULE TCPServer -----------------------------
(***************************************************************************)
(* internal/server/tcp.go: the accept loop, one handler goroutine and one  *)
(* heartbeat checker per connection, and Stop with the bounded wait of     *)
(* shutdown.go.                                                            *)
(*                                                                         *)
(* A connection is a client's attempt to connect; it is used once.  What   *)
(* the clients send is either a message for a handler or one the loop      *)
(* drops (too short, no header, unknown type).  Time is what passes: a     *)
(* read deadline expires, a connection becomes inactive, a wait ends.      *)
(***************************************************************************)
EXTENDS Integers, FiniteSets

CONSTANTS
    Conns,              \* connections that clients may open
    MaxConnections,     \* cfg.TCP.MaxConnections
    MaxTimeoutCount,    \* cfg.TCP.MaxTimeoutCount, after its default
    MaxStops            \* bound: calls of Stop

NoConn == "accept"      \* the accept loop has no connection in hand

ASSUME TCPAssumption ==
    /\ IsFiniteSet(Conns)
    /\ Conns \cap {"none", NoConn, "done"} = {}
    /\ MaxConnections \in Nat \ {0} /\ MaxTimeoutCount \in Nat \ {0} /\ MaxStops \in Nat

VARIABLES
    listener,           \* s.listener
    shutdown,           \* s.shutdownCtx is done
    acceptor,           \* the accept loop, or the connection it has in hand
    connections,        \* s.connections
    wg,                 \* counter of s.wg
    socket,             \* a connection as the kernel sees it
    handler,            \* its handleConnection goroutine
    checker,            \* its heartbeatChecker goroutine
    timeouts,           \* connection.TimeoutCount
    inactive,           \* LastActive is longer ago than the heartbeat timeout
    silent,             \* read timeouts that went by since its deadline was set
    stop,               \* the caller of Stop
    stops,              \* how often Stop was called
    drained             \* history: some Stop returned nil

server == <<listener, shutdown, acceptor, stop, stops, drained>>
clocks == <<timeouts, inactive, silent>>
vars == <<server, connections, wg, socket, handler, checker, clocks>>

Registered == {"loop", "read", "handle", "write", "leave"}
Serving    == Registered \cup {"spawned", "close"}

TypeOK ==
    /\ listener \in {"nil", "open", "closed"}
    /\ shutdown \in BOOLEAN /\ drained \in BOOLEAN
    /\ acceptor \in {"none", NoConn, "done"} \cup Conns
    /\ connections \subseteq Conns
    /\ wg \in Nat
    /\ socket \in [Conns -> {"none", "backlog", "open", "hungup", "closed"}]
    /\ handler \in [Conns -> {"none", "done"} \cup Serving]
    /\ checker \in [Conns -> {"none", "run", "late", "done"}]
    /\ timeouts \in [Conns -> 0 .. MaxTimeoutCount]
    /\ inactive \in [Conns -> BOOLEAN]
    /\ silent \in [Conns -> 0 .. MaxTimeoutCount]
    /\ stop \in {"idle", "cancel", "wait", "stopped", "timeout"}
    /\ stops \in 0 .. MaxStops

Init ==
    /\ listener = "nil" /\ shutdown = FALSE /\ acceptor = "none"
    /\ connections = {} /\ wg = 0
    /\ socket = [c \in Conns |-> "none"]
    /\ handler = [c \in Conns |-> "none"]
    /\ checker = [c \in Conns |-> "none"]
    /\ timeouts = [c \in Conns |-> 0] /\ silent = [c \in Conns |-> 0]
    /\ inactive = [c \in Conns |-> FALSE]
    /\ stop = "idle" /\ stops = 0 /\ drained = FALSE

Goto(c, label) == handler' = [handler EXCEPT ![c] = label]

----------------------------------------------------------------------------
(* Start and the accept loop.                                              *)

\* A Start that cannot listen changes nothing, and is not tried again.
Start ==
    /\ listener = "nil" /\ stop = "idle"
    /\ listener' = "open"
    /\ acceptor' = NoConn
    /\ wg' = wg + 1
    /\ UNCHANGED <<shutdown, stop, stops, drained, connections, socket, handler, checker, clocks>>

Accept(c) ==
    /\ acceptor = NoConn /\ listener = "open"
    /\ socket[c] = "backlog"
    /\ socket' = [socket EXCEPT ![c] = "open"]
    /\ acceptor' = c
    /\ UNCHANGED <<listener, shutdown, stop, stops, drained, connections, wg, handler, checker, clocks>>

\* Accept fails on a closed listener; before shutdownCancel the loop goes round.
AcceptEnds ==
    /\ acceptor = NoConn /\ listener = "closed" /\ shutdown
    /\ acceptor' = "done"
    /\ wg' = wg - 1
    /\ UNCHANGED <<listener, shutdown, stop, stops, drained, connections, socket, handler, checker,
                   clocks>>

\* Over the limit: the connection is closed and the loop goes round.
Reject(c) ==
    /\ acceptor = c /\ Cardinality(connections) >= MaxConnections
    /\ socket' = [socket EXCEPT ![c] = "closed"]
    /\ acceptor' = NoConn
    /\ UNCHANGED <<listener, shutdown, stop, stops, drained, connections, wg, handler, checker, clocks>>

\* Mutant: wg.Add is left to the new goroutine.
SpawnUncounted(c) ==
    /\ acceptor = c /\ Cardinality(connections) < MaxConnections
    /\ Goto(c, "spawned")
    /\ acceptor' = NoConn
    /\ UNCHANGED <<listener, shutdown, stop, stops, drained, connections, wg, socket, checker, clocks>>

\* Mutant: the loop ends where it should go round.
SpawnEnds(c) ==
    /\ acceptor = c /\ Cardinality(connections) < MaxConnections
    /\ Goto(c, "spawned")
    /\ acceptor' = "done" /\ wg' = wg
    /\ UNCHANGED <<listener, shutdown, stop, stops, drained, connections, socket, checker, clocks>>

\* wg.Add(1) and go handleConnection: it is in no map yet.
Spawn(c) ==
    /\ acceptor = c /\ Cardinality(connections) < MaxConnections
    /\ wg' = wg + 1
    /\ Goto(c, "spawned")
    /\ acceptor' = NoConn
    /\ UNCHANGED <<listener, shutdown, stop, stops, drained, connections, socket, checker, clocks>>

----------------------------------------------------------------------------
(* handleConnection.                                                       *)

\* The deadlines, the entry in the map and the heartbeat checker.
Register(c) ==
    /\ handler[c] = "spawned"
    /\ connections' = connections \cup {c}
    /\ checker' = [checker EXCEPT ![c] = "run"]
    /\ Goto(c, "loop")
    /\ UNCHANGED <<server, wg, socket, clocks>>

\* Nothing arrived since the read deadline was set, for longer than it allows.
DeadlinePassed(c) == silent[c] > 0

\* Mutant: the loop does not look at shutdownCtx.
LoopBlind(c) ==
    /\ handler[c] = "loop"
    /\ Goto(c, "read")
    /\ UNCHANGED <<server, connections, wg, socket, checker, clocks>>

\* The head of the read loop.
LoopHead(c) ==
    /\ handler[c] = "loop"
    /\ Goto(c, IF shutdown THEN "leave" ELSE "read")
    /\ UNCHANGED <<server, connections, wg, socket, checker, clocks>>

\* conn.Read times out, whatever there is to read: the count grows and, below
\* the limit, the loop goes round with the deadline left as it is.
ReadTimeout(c) ==
    /\ handler[c] = "read" /\ DeadlinePassed(c) /\ socket[c] # "closed"
    /\ timeouts' = [timeouts EXCEPT ![c] = @ + 1]
    /\ Goto(c, IF timeouts[c] + 1 >= MaxTimeoutCount THEN "leave" ELSE "loop")
    /\ UNCHANGED <<server, connections, wg, socket, checker, inactive, silent>>

\* The client hung up, or the heartbeat checker closed the connection.
ReadError(c) ==
    /\ handler[c] = "read"
    /\ socket[c] = "closed" \/ (socket[c] = "hungup" /\ ~DeadlinePassed(c))
    /\ Goto(c, "leave")
    /\ UNCHANGED <<server, connections, wg, socket, checker, clocks>>

\* Data arrived, maybe before a hangup: TimeoutCount, LastActive and the
\* deadlines start afresh.  A message without a header or a handler sends the
\* loop round.
ReadData(c) ==
    /\ handler[c] = "read" /\ ~DeadlinePassed(c) /\ socket[c] # "closed"
    /\ timeouts' = [timeouts EXCEPT ![c] = 0]
    /\ inactive' = [inactive EXCEPT ![c] = FALSE]
    /\ silent' = [silent EXCEPT ![c] = 0]
    /\ Goto(c, "handle") \/ Goto(c, "loop")
    /\ UNCHANGED <<server, connections, wg, socket, checker>>

\* handler.Handle fails or answers nothing, or there is an answer to write.
HandlerReturns(c) ==
    /\ handler[c] = "handle"
    /\ Goto(c, "loop") \/ Goto(c, "write")
    /\ UNCHANGED <<server, connections, wg, socket, checker, clocks>>

\* connection.Write succeeds, or fails and ends the connection.
Write(c) ==
    /\ handler[c] = "write"
    /\ \/ socket[c] \in {"open", "hungup"} /\ Goto(c, "loop")
       \/ Goto(c, "leave")
    /\ UNCHANGED <<server, connections, wg, socket, checker, clocks>>

\* The deferred calls: close(heartbeatDone) and delete (with the entry go its
\* counters) ...
Leave(c) ==
    /\ handler[c] = "leave"
    /\ connections' = connections \ {c}
    /\ timeouts' = [timeouts EXCEPT ![c] = 0] /\ silent' = [silent EXCEPT ![c] = 0]
    /\ Goto(c, "close")
    /\ UNCHANGED <<server, wg, socket, checker, inactive>>

\* Mutant: the socket is left open.
DoneUnclosed(c) ==
    /\ handler[c] = "close"
    /\ wg' = wg - 1
    /\ Goto(c, "done")
    /\ UNCHANGED <<server, connections, socket, checker, clocks>>

\* ... then closeTCPConn and wg.Done.
Done(c) ==
    /\ handler[c] = "close"
    /\ socket' = [socket EXCEPT ![c] = "closed"]
    /\ wg' = wg - 1
    /\ Goto(c, "done")
    /\ UNCHANGED <<server, connections, checker, clocks>>

----------------------------------------------------------------------------
(* heartbeatChecker.                                                       *)

\* A tick finds the connection inactive; it is closed after the lock is gone.
CheckerFinds(c) ==
    /\ checker[c] = "run" /\ inactive[c]
    /\ checker' = [checker EXCEPT ![c] = "late"]
    /\ UNCHANGED <<server, connections, wg, socket, handler, clocks>>

CheckerCloses(c) ==
    /\ checker[c] = "late"
    /\ socket' = [socket EXCEPT ![c] = "closed"]
    /\ checker' = [checker EXCEPT ![c] = "done"]
    /\ UNCHANGED <<server, connections, wg, handler, clocks>>

\* heartbeatDone is closed, or the server shuts down.
CheckerEnds(c) ==
    /\ checker[c] = "run" /\ (handler[c] \in {"close", "done"} \/ shutdown)
    /\ checker' = [checker EXCEPT ![c] = "done"]
    /\ UNCHANGED <<server, connections, wg, socket, handler, clocks>>

----------------------------------------------------------------------------
(* Stop.                                                                   *)

\* listener.Close; connections nobody accepted are reset.  A second Stop goes
\* the same way, over a closed listener.
StopCall ==
    /\ stops < MaxStops /\ stop \in {"idle", "stopped", "timeout"} /\ listener # "nil"
    /\ stops' = stops + 1
    /\ stop' = "cancel"
    /\ listener' = "closed"
    /\ socket' = [c \in Conns |-> IF socket[c] = "backlog" THEN "closed" ELSE socket[c]]
    /\ UNCHANGED <<shutdown, acceptor, drained, connections, wg, handler, checker, clocks>>

StopCancel ==
    /\ stop = "cancel"
    /\ shutdown' = TRUE
    /\ stop' = "wait"
    /\ UNCHANGED <<listener, acceptor, stops, drained, connections, wg, socket, handler, checker,
                   clocks>>

\* waitShutdown: the WaitGroup is down to zero in time ...
StopReturns ==
    /\ stop = "wait" /\ wg = 0
    /\ stop' = "stopped" /\ drained' = TRUE
    /\ UNCHANGED <<listener, shutdown, acceptor, stops, connections, wg, socket, handler, checker,
                   clocks>>

\* ... or ctx or the timer ends the wait.
StopTimesOut ==
    /\ stop = "wait"
    /\ stop' = "timeout"
    /\ UNCHANGED <<listener, shutdown, acceptor, stops, drained, connections, wg, socket, handler,
                   checker, clocks>>

----------------------------------------------------------------------------
(* Clients and time.                                                       *)

Dial(c) ==
    /\ socket[c] = "none" /\ listener = "open"
    /\ socket' = [socket EXCEPT ![c] = "backlog"]
    /\ UNCHANGED <<server, connections, wg, handler, checker, clocks>>

Hangup(c) ==
    /\ socket[c] = "open"
    /\ socket' = [socket EXCEPT ![c] = "hungup"]
    /\ UNCHANGED <<server, connections, wg, handler, checker, clocks>>

\* Another read timeout goes by without data.
SilencePasses(c) ==
    /\ handler[c] \in Registered /\ silent[c] < MaxTimeoutCount
    /\ silent' = [silent EXCEPT ![c] = @ + 1]
    /\ UNCHANGED <<server, connections, wg, socket, handler, checker, timeouts, inactive>>

GoesInactive(c) ==
    /\ handler[c] \in Registered /\ ~inactive[c]
    /\ inactive' = [inactive EXCEPT ![c] = TRUE]
    /\ UNCHANGED <<server, connections, wg, socket, handler, checker, timeouts, silent>>

----------------------------------------------------------------------------
AcceptStep == AcceptEnds \/ \E c \in Conns : Accept(c) \/ Reject(c) \/ Spawn(c)

HandlerStep(c) ==
    \/ Register(c) \/ LoopHead(c) \/ ReadTimeout(c) \/ ReadError(c)
    \/ HandlerReturns(c) \/ Write(c) \/ Leave(c) \/ Done(c)

CheckerStep(c) == CheckerCloses(c) \/ CheckerEnds(c)

StopStep == StopCancel \/ StopReturns \/ StopTimesOut

Environment(c) ==
    Dial(c) \/ Hangup(c) \/ ReadData(c) \/ SilencePasses(c) \/ GoesInactive(c) \/ CheckerFinds(c)

Idle == listener = "closed" /\ UNCHANGED vars       \* a stopped server stays stopped

Next ==
    \/ Start \/ StopCall \/ StopStep \/ AcceptStep \/ Idle
    \/ \E c \in Conns : HandlerStep(c) \/ CheckerStep(c) \/ Environment(c)

Spec == Init /\ [][Next]_vars

\* Goroutines run, handlers return, and silence ends a read by its deadline.
\* No client is obliged to dial, send or hang up, and nobody to call Stop.
Fairness ==
    /\ WF_vars(AcceptStep) /\ WF_vars(StopStep)
    /\ \A c \in Conns : WF_vars(HandlerStep(c)) /\ WF_vars(CheckerStep(c))
                      /\ WF_vars(ReadData(c) \/ SilencePasses(c))

FairSpec == Spec /\ Fairness

----------------------------------------------------------------------------
(* Properties.                                                             *)

Handlers == {c \in Conns : handler[c] \in Serving}

\* The WaitGroup counts the accept loop and every handler from before its
\* goroutine exists until after its socket is closed (tcp.go 84, 155, 162).
WgCountsGoroutines ==
    wg = Cardinality(Handlers) + (IF acceptor \in {"none", "done"} THEN 0 ELSE 1)

\* When a Stop has returned nil no handler runs or will, no connection is in
\* the map and no accepted socket is left open, also when a connection was
\* accepted while the server was being stopped (tcp.go 92-124, 155-163).
StopLeavesNothing ==
    drained => /\ acceptor = "done" /\ Handlers = {} /\ connections = {}
               /\ \A c \in Conns : socket[c] \in {"none", "closed"}

\* The map that counts against MaxConnections holds the connections that are
\* served and no others: an entry that outlived its handler would use up the
\* limit for good (tcp.go 143-147, 185-187, 200-202).
MapIsServed == connections = {c \in Conns : handler[c] \in Registered}

\* A client that connected is accepted, turned away or reset, never left
\* waiting: no number of connections wedges the accept loop (tcp.go 127-158).
BacklogServed == \A c \in Conns : socket[c] = "backlog" ~> socket[c] # "backlog"

\* Once the server shuts down every handler ends, with no more help than its
\* read deadline and whether or not Stop still waits; and a handler that has
\* ended, whenever it was, takes its heartbeat checker along, which no
\* WaitGroup counts (tcp.go 194-214, 326-331).
ConnectionsEnd ==
    \A c \in Conns :
        (shutdown /\ handler[c] \in Serving) \/ handler[c] = "done"
            ~> handler[c] = "done" /\ checker[c] = "done"

DrainPhase == IF drained THEN "drained" ELSE IF acceptor = "done" THEN "draining" ELSE "open"

Drain == INSTANCE GracefulDrain WITH Work <- Conns, phase <- DrainPhase, work <- Handlers

\* A Stop that returns nil is a graceful drain of the handlers: each runs to
\* its end, and none is started after the accept loop has gone.
ImplementsDrain == Drain!Spec

----------------------------------------------------------------------------
(* What the documentation says, and the code does not do.                  *)

\* config.go, max_connections: "the maximal number of concurrent connections".
ConnectionsLimited == Cardinality(connections) <= MaxConnections

\* config.go, max_timeout_count: "limit of consecutive timeouts, reached the
\* connection is closed": read timeouts are counted one per timeout.
TimeoutsCounted == \A c \in Conns : timeouts[c] <= silent[c]
============================================================================
