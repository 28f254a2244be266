----------------------------- MODULE UDPServer -----------------------------
(***************************************************************************)
(* internal/server/udp.go with the router and handlers it is wired with:   *)
(* one receiver, a bounded packet channel, a pool of workers, the sessions *)
(* and their cleanup, and Stop with the bounded wait of shutdown.go.       *)
(*                                                                         *)
(* A packet is received once, from a fixed address.  What is in it matters *)
(* only to the worker that takes it, so it is chosen then.  Handlers may   *)
(* hang: that they return is a hypothesis of the property that needs it.   *)
(***************************************************************************)
EXTENDS Integers, Sequences, FiniteSets

CONSTANTS
    Packets,            \* datagrams that clients may send
    Addrs,              \* client addresses
    From,               \* the address each packet comes from
    Workers,            \* the worker pool
    ChanCap,            \* capacity of s.packetChan
    Threshold,          \* cfg.UDP.SessionInactiveThreshold, after its default
    MaxTime             \* bound: the clock stops here

Never == -1             \* no session, no packet yet

ASSUME UDPAssumption ==
    /\ From \in [Packets -> Addrs] /\ Packets \cap {"none", "idle", "done", "no packet"} = {}
    /\ IsFiniteSet(Workers) /\ Workers # {}
    /\ ChanCap \in Nat \ {0} /\ Threshold \in Nat /\ MaxTime \in Nat

VARIABLES
    conn,               \* s.conn
    shutdown,           \* s.shutdownCtx is done
    wg,                 \* counter of s.wg
    socket,             \* packets in the socket's receive buffer
    receiver,           \* receivePackets: where it is, and the packet in its hand
    packetChan,         \* s.packetChan
    worker,             \* a packetWorker: "none", "idle", "done" or the packet it handles
    cleaner,            \* sessionCleanupLoop
    sessions,           \* LastActive of the session of an address, or Never
    now,                \* the clock
    stop,               \* the caller of Stop
    fate,               \* history: what became of a packet
    heard,              \* history: when an address was last heard from
    drained             \* history: Stop returned nil

control == <<conn, shutdown, stop, drained>>
traffic == <<socket, packetChan, fate>>
timing  == <<sessions, now, heard>>
vars == <<control, wg, receiver, worker, cleaner, traffic, timing>>

None == "no packet"
At(label, p) == [at |-> label, pkt |-> p]

TypeOK ==
    /\ conn \in {"nil", "open", "closed"} /\ shutdown \in BOOLEAN /\ drained \in BOOLEAN
    /\ wg \in 0 .. Cardinality(Workers) + 2
    /\ socket \subseteq Packets
    /\ receiver \in [at : {"none", "loop", "read", "update", "enqueue", "done"},
                     pkt : Packets \cup {None}]
    /\ packetChan \in Seq(Packets) /\ Len(packetChan) <= ChanCap
    /\ worker \in [Workers -> {"none", "idle", "done"} \cup Packets]
    /\ cleaner \in {"none", "run", "done"}
    /\ sessions \in [Addrs -> Never .. MaxTime] /\ heard \in [Addrs -> Never .. MaxTime]
    /\ now \in 0 .. MaxTime
    /\ stop \in {"idle", "close", "wait", "stopped", "timeout"}
    /\ fate \in [Packets -> {"unsent", "sent", "queued", "dropped", "taken", "handled"}]

Init ==
    /\ conn = "nil" /\ shutdown = FALSE /\ wg = 0 /\ stop = "idle" /\ drained = FALSE
    /\ receiver = At("none", None) /\ cleaner = "none"
    /\ worker = [w \in Workers |-> "none"]
    /\ socket = {} /\ packetChan = <<>> /\ fate = [p \in Packets |-> "unsent"]
    /\ sessions = [a \in Addrs |-> Never] /\ heard = [a \in Addrs |-> Never] /\ now = 0

\* Mutant: the receiver is not counted.
StartUncounted ==
    /\ conn = "nil" /\ stop = "idle"
    /\ conn' = "open"
    /\ wg' = Cardinality(Workers) + 1
    /\ worker' = [w \in Workers |-> "idle"]
    /\ receiver' = At("loop", None) /\ cleaner' = "run"
    /\ UNCHANGED <<shutdown, stop, drained, traffic, timing>>

\* The workers, the receiver and the session cleanup; a Start that cannot
\* listen changes nothing.
Start ==
    /\ conn = "nil" /\ stop = "idle"
    /\ conn' = "open"
    /\ wg' = Cardinality(Workers) + 2
    /\ worker' = [w \in Workers |-> "idle"]
    /\ receiver' = At("loop", None) /\ cleaner' = "run"
    /\ UNCHANGED <<shutdown, stop, drained, traffic, timing>>

----------------------------------------------------------------------------
(* receivePackets.                                                         *)

ReceiverLoop ==
    /\ receiver.at = "loop"
    /\ IF shutdown THEN receiver' = At("done", None) /\ wg' = wg - 1
                   ELSE receiver' = At("read", None) /\ UNCHANGED wg
    /\ UNCHANGED <<control, worker, cleaner, traffic, timing>>

Read(p) ==
    /\ receiver.at = "read" /\ conn = "open" /\ p \in socket
    /\ socket' = socket \ {p}
    /\ receiver' = At("update", p)
    /\ UNCHANGED <<control, wg, worker, cleaner, packetChan, fate, timing>>

\* The read fails on a closed socket, which Stop closes after shutdownCancel;
\* any other failure sends the loop round.
ReadFails ==
    /\ receiver.at = "read" /\ conn = "closed"
    /\ receiver' = At(IF shutdown THEN "done" ELSE "loop", None)
    /\ wg' = IF shutdown THEN wg - 1 ELSE wg
    /\ UNCHANGED <<control, worker, cleaner, traffic, timing>>

\* Mutant: the session of a known address is left as it was.
updateSessionOnce ==
    /\ receiver.at = "update"
    /\ LET a == From[receiver.pkt]
       IN /\ sessions' = [sessions EXCEPT ![a] = IF @ = Never THEN now ELSE @]
          /\ heard' = [heard EXCEPT ![a] = now]
    /\ receiver' = At("enqueue", receiver.pkt)
    /\ UNCHANGED <<control, wg, worker, cleaner, traffic, now>>

updateSession ==
    /\ receiver.at = "update"
    /\ LET a == From[receiver.pkt]
       IN sessions' = [sessions EXCEPT ![a] = now] /\ heard' = [heard EXCEPT ![a] = now]
    /\ receiver' = At("enqueue", receiver.pkt)
    /\ UNCHANGED <<control, wg, worker, cleaner, traffic, now>>

\* A full channel drops the packet, whose session has been refreshed.
Enqueue ==
    /\ receiver.at = "enqueue"
    /\ IF Len(packetChan) < ChanCap
       THEN /\ packetChan' = Append(packetChan, receiver.pkt)
            /\ fate' = [fate EXCEPT ![receiver.pkt] = "queued"]
       ELSE /\ fate' = [fate EXCEPT ![receiver.pkt] = "dropped"]
            /\ UNCHANGED packetChan
    /\ receiver' = At("loop", None)
    /\ UNCHANGED <<control, wg, worker, cleaner, socket, timing>>

----------------------------------------------------------------------------
(* packetWorker, and the router behind it.                                 *)

\* What a packet may hold: no whole header, another magic number, a type
\* nobody registered, an empty payload, one that is not JSON, or a "type"
\* field the router knows or does not.
Kinds == {"short", "foreign", "error", "empty", "garbled", "unknown", "time", "stats"}

ParseHeader(k) == k \notin {"short", "foreign"}

\* The router is registered for requests, responses and heartbeats.
Registered(k) == k # "error"

\* There is no default handler: only the two known types reach one.
Routed(k) == k \in {"time", "stats"}

Handled(k) == ParseHeader(k) /\ Registered(k) /\ Routed(k)

\* select takes any ready case, so a worker may go on after shutdown.
WorkerEnds(w) ==
    /\ worker[w] = "idle" /\ shutdown
    /\ worker' = [worker EXCEPT ![w] = "done"]
    /\ wg' = wg - 1
    /\ UNCHANGED <<control, receiver, cleaner, traffic, timing>>

\* Mutant: a malformed packet ends its worker.
WorkerTakesEnding(w) ==
    /\ worker[w] = "idle" /\ packetChan # <<>>
    /\ LET p == Head(packetChan)
       IN \E k \in Kinds :
            IF Handled(k)
            THEN /\ worker' = [worker EXCEPT ![w] = p]
                 /\ fate' = [fate EXCEPT ![p] = "taken"] /\ UNCHANGED wg
            ELSE /\ worker' = [worker EXCEPT ![w] = "done"] /\ wg' = wg - 1
                 /\ fate' = [fate EXCEPT ![p] = "handled"]
    /\ packetChan' = Tail(packetChan)
    /\ UNCHANGED <<control, receiver, cleaner, socket, timing>>

\* Without a header, a registration or a route the packet is done with, and
\* the loop goes on.
WorkerTakes(w) ==
    /\ worker[w] = "idle" /\ packetChan # <<>>
    /\ LET p == Head(packetChan)
       IN \E k \in Kinds :
            IF Handled(k)
            THEN /\ worker' = [worker EXCEPT ![w] = p]
                 /\ fate' = [fate EXCEPT ![p] = "taken"]
            ELSE fate' = [fate EXCEPT ![p] = "handled"] /\ UNCHANGED worker
    /\ packetChan' = Tail(packetChan)
    /\ UNCHANGED <<control, wg, receiver, cleaner, socket, timing>>

\* Handle returns; an answer is sent if there is one, and a failure to send
\* it, on a socket that Stop has closed, is ignored.
HandlerReturns(w) ==
    /\ worker[w] \in Packets
    /\ fate' = [fate EXCEPT ![worker[w]] = "handled"]
    /\ worker' = [worker EXCEPT ![w] = "idle"]
    /\ UNCHANGED <<control, wg, receiver, cleaner, socket, packetChan, timing>>

----------------------------------------------------------------------------
(* sessionCleanupLoop and Stop.                                            *)

cleanupInactiveSessions ==
    /\ cleaner = "run"
    /\ sessions' = [a \in Addrs |-> IF now - sessions[a] > Threshold THEN Never ELSE sessions[a]]
    /\ UNCHANGED <<control, wg, receiver, worker, cleaner, traffic, now, heard>>

CleanerEnds ==
    /\ cleaner = "run" /\ shutdown
    /\ cleaner' = "done" /\ wg' = wg - 1
    /\ UNCHANGED <<control, receiver, worker, traffic, timing>>

\* A Stop before Start returns at once: s.conn is nil.
StopCancel ==
    /\ stop = "idle" /\ conn # "nil"
    /\ shutdown' = TRUE /\ stop' = "close"
    /\ UNCHANGED <<conn, drained, wg, receiver, worker, cleaner, traffic, timing>>

StopClose ==
    /\ stop = "close"
    /\ conn' = "closed" /\ socket' = {} /\ stop' = "wait"
    /\ UNCHANGED <<shutdown, drained, wg, receiver, worker, cleaner, packetChan, fate, timing>>

StopReturns ==
    /\ stop = "wait" /\ wg = 0
    /\ stop' = "stopped" /\ drained' = TRUE
    /\ UNCHANGED <<conn, shutdown, wg, receiver, worker, cleaner, traffic, timing>>

StopTimesOut ==
    /\ stop = "wait"
    /\ stop' = "timeout"
    /\ UNCHANGED <<conn, shutdown, drained, wg, receiver, worker, cleaner, traffic, timing>>

----------------------------------------------------------------------------
Send(p) ==
    /\ conn = "open" /\ fate[p] = "unsent"
    /\ socket' = socket \cup {p}
    /\ fate' = [fate EXCEPT ![p] = "sent"]
    /\ UNCHANGED <<control, wg, receiver, worker, cleaner, packetChan, timing>>

Tick ==
    /\ now < MaxTime
    /\ now' = now + 1
    /\ UNCHANGED <<control, wg, receiver, worker, cleaner, traffic, sessions, heard>>

ReceiverStep == ReceiverLoop \/ (\E p \in Packets : Read(p)) \/ ReadFails \/ updateSession \/ Enqueue
WorkerStep(w) == WorkerEnds(w) \/ WorkerTakes(w)
StopStep == StopClose \/ StopReturns \/ StopTimesOut

Next ==
    \/ Start \/ StopCancel \/ StopStep \/ ReceiverStep \/ cleanupInactiveSessions \/ CleanerEnds \/ Tick
    \/ \E w \in Workers : WorkerStep(w) \/ HandlerReturns(w)
    \/ \E p \in Packets : Send(p)

Spec == Init /\ [][Next]_vars

\* Goroutines run and the cleanup ticker ticks.  Handlers need not return.
Fairness ==
    /\ WF_vars(ReceiverStep) /\ WF_vars(StopStep)
    /\ WF_vars(cleanupInactiveSessions) /\ WF_vars(CleanerEnds)
    /\ \A w \in Workers : WF_vars(WorkerStep(w))

FairSpec == Spec /\ Fairness

----------------------------------------------------------------------------
(* Properties.                                                             *)

\* An address heard from within the threshold has a session that says when,
\* however the receiver and the cleanup interleave (udp.go 283-333).
SessionTracksTraffic ==
    \A a \in Addrs :
        heard[a] # Never /\ now - heard[a] <= Threshold => sessions[a] = heard[a]

\* Once Stop has returned nil no goroutine of the server is left to take a
\* packet from the channel, answer one or touch a session (udp.go 119-151).
QuietAfterStop == [][drained => UNCHANGED <<packetChan, fate, sessions, receiver, worker>>]_vars

\* A packet that reached the socket is read although every worker may be stuck
\* in a handler for good: the receiver drops, it does not wait (udp.go 197-202).
\* And as long as handlers return, whatever the packets hold, a queued packet is
\* taken from the channel and finished (udp.go 213-280).  A shutdown abandons
\* what is queued.
PacketsServed ==
    /\ \A p \in Packets : fate[p] = "sent" ~> fate[p] # "sent" \/ shutdown
    /\ (\A w \in Workers : WF_vars(HandlerReturns(w))) =>
           \A p \in Packets : fate[p] = "queued" ~> fate[p] = "handled" \/ shutdown
============================================================================
