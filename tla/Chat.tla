------------------------------- MODULE Chat --------------------------------
(***************************************************************************)
(* internal/handler/tcp: the router and the chat room behind it.  Each     *)
(* connection's goroutine runs the join, message and leave handlers, one   *)
(* at a time; one broadcast loop writes what they queue to every client    *)
(* but the sender.                                                         *)
(***************************************************************************)
EXTENDS Integers, Sequences, FiniteSets

CONSTANTS
    Conns,              \* connections, each with its goroutine
    BroadcastCap,       \* capacity of h.broadcast
    MaxOps              \* bound: messages the clients send, all together

VARIABLES
    clients,            \* h.clients
    broadcast,          \* h.broadcast
    chatShutdown,       \* h.shutdown is closed
    loop,               \* broadcastLoop: where it is, its message, whom it has to write to
    handler,            \* the handler a connection's goroutine is in
    open,               \* connections that are open
    ops,                \* messages received so far
    member,             \* history: joined, and neither left nor rolled back
    failed              \* history: a write to it failed

history == <<member, failed>>
chatVars == <<clients, broadcast, chatShutdown, loop, handler, open, ops, history>>

\* A message carries, as a ghost, the clients it is due to: those that were
\* members when it was queued and have been since.
Nobody == "nobody"
Message == [from : Conns \cup {Nobody}, due : SUBSET Conns]
Loop(label, m, todo, got, bad) ==
    [at |-> label, msg |-> m, todo |-> todo, got |-> got, bad |-> bad]
Waiting(label) == Loop(label, [from |-> Nobody, due |-> {}], {}, {}, Nobody)

ChatTypeOK ==
    /\ \A S \in {clients, member, failed, open} : S \subseteq Conns
    /\ broadcast \in Seq(Message) /\ Len(broadcast) <= BroadcastCap
    /\ chatShutdown \in BOOLEAN /\ ops \in 0 .. MaxOps
    /\ loop \in [at : {"select", "snapshot", "write", "remove", "done"}, msg : Message,
                 todo : SUBSET Conns, got : SUBSET Conns, bad : Conns \cup {Nobody}]
    /\ handler \in [Conns -> {"idle", "join", "leave", "rollback"}]

ChatInit ==
    /\ clients = {} /\ broadcast = <<>> /\ chatShutdown = FALSE
    /\ loop = Waiting("select")
    /\ handler = [c \in Conns |-> "idle"]
    /\ open = Conns /\ ops = 0
    /\ member = {} /\ failed = {}

Goto(c, label) == handler' = [handler EXCEPT ![c] = label]

NotTo(c, m) == [from |-> m.from, due |-> m.due \ {c}]

\* c is a member no longer: nothing under way is due to it.
Forget(c) ==
    /\ member' = member \ {c}
    /\ broadcast' = [i \in DOMAIN broadcast |-> NotTo(c, broadcast[i])]
    /\ loop' = Loop(loop.at, NotTo(c, loop.msg), loop.todo, loop.got, loop.bad)

Queue(c) ==
    /\ Len(broadcast) < BroadcastCap
    /\ broadcast' = Append(broadcast, [from |-> c, due |-> member \ {c}])

----------------------------------------------------------------------------
(* The handlers.                                                           *)

\* The router finds the chat handler by the "type" of a message, and the chat
\* handler its sub-handler; whatever has no route is echoed.
Receive(c) ==
    /\ c \in open /\ handler[c] = "idle" /\ ops < MaxOps
    /\ ops' = ops + 1

JoinRegister(c) ==
    /\ Receive(c)
    /\ clients' = clients \cup {c}
    /\ member' = member \cup {c}
    /\ Goto(c, "join")
    /\ UNCHANGED <<broadcast, chatShutdown, loop, open, failed>>

\* Mutant: without the shutdown case the handler waits for room in the channel.
JoinSend(c) ==
    /\ handler[c] = "join"
    /\ Queue(c) /\ Goto(c, "idle")
    /\ UNCHANGED <<clients, chatShutdown, loop, open, ops, history>>

\* select takes any case that is ready; shut down, the entry is to go again.
JoinSelect(c) ==
    /\ handler[c] = "join"
    /\ \/ Queue(c) /\ Goto(c, "idle")
       \/ chatShutdown /\ Goto(c, "rollback") /\ UNCHANGED broadcast
    /\ UNCHANGED <<clients, chatShutdown, loop, open, ops, history>>

JoinRollback(c) ==
    /\ handler[c] = "rollback"
    /\ clients' = clients \ {c}
    /\ Forget(c)
    /\ Goto(c, "idle")
    /\ UNCHANGED <<chatShutdown, open, ops, failed>>

LeaveDelete(c) ==
    /\ Receive(c)
    /\ clients' = clients \ {c}
    /\ Forget(c)
    /\ Goto(c, "leave")
    /\ UNCHANGED <<chatShutdown, open, failed>>

LeaveSelect(c) ==
    /\ handler[c] = "leave"
    /\ Queue(c) \/ (chatShutdown /\ UNCHANGED broadcast)
    /\ Goto(c, "idle")
    /\ UNCHANGED <<clients, chatShutdown, loop, open, ops, history>>

\* A full channel drops a chat message; so may the shutdown.
ChatMessage(c) ==
    /\ Receive(c)
    /\ Queue(c) \/ ((chatShutdown \/ Len(broadcast) = BroadcastCap) /\ UNCHANGED broadcast)
    /\ UNCHANGED <<clients, chatShutdown, loop, handler, open, history>>

----------------------------------------------------------------------------
(* broadcastLoop, Shutdown and the connections.                            *)

LoopTake ==
    /\ loop.at = "select" /\ broadcast # <<>>
    /\ loop' = Loop("snapshot", Head(broadcast), {}, {}, Nobody)
    /\ broadcast' = Tail(broadcast)
    /\ UNCHANGED <<clients, chatShutdown, handler, open, ops, history>>

\* Under the read lock; the writes come after it is released.
LoopSnapshot ==
    /\ loop.at = "snapshot"
    /\ loop' = Loop("write", loop.msg, clients \ {loop.msg.from}, {}, Nobody)
    /\ UNCHANGED <<clients, broadcast, chatShutdown, handler, open, ops, history>>

LoopWrite(c) ==
    /\ loop.at = "write" /\ c \in loop.todo /\ c \in open
    /\ loop' = Loop("write", loop.msg, loop.todo \ {c}, loop.got \cup {c}, Nobody)
    /\ UNCHANGED <<clients, broadcast, chatShutdown, handler, open, ops, history>>

\* The connection is closed, or the write deadline passed on one that is open.
LoopWriteFails(c) ==
    /\ loop.at = "write" /\ c \in loop.todo
    /\ loop' = Loop("remove", loop.msg, loop.todo \ {c}, loop.got, c)
    /\ failed' = failed \cup {c}
    /\ UNCHANGED <<clients, broadcast, chatShutdown, handler, open, ops, member>>

\* Mutant: a failed write removes the sender.
LoopRemoveSender ==
    /\ loop.at = "remove"
    /\ clients' = clients \ {loop.msg.from}
    /\ loop' = Loop("write", loop.msg, loop.todo, loop.got, Nobody)
    /\ UNCHANGED <<broadcast, chatShutdown, handler, open, ops, history>>

\* The entry that is deleted may be of a later join of the same connection.
LoopRemove ==
    /\ loop.at = "remove"
    /\ clients' = clients \ {loop.bad}
    /\ loop' = Loop("write", loop.msg, loop.todo, loop.got, Nobody)
    /\ UNCHANGED <<broadcast, chatShutdown, handler, open, ops, history>>

LoopNext ==
    /\ loop.at = "write" /\ loop.todo = {}
    /\ loop' = Waiting("select")
    /\ UNCHANGED <<clients, broadcast, chatShutdown, handler, open, ops, history>>

LoopEnds ==
    /\ loop.at = "select" /\ chatShutdown
    /\ loop' = Waiting("done")
    /\ UNCHANGED <<clients, broadcast, chatShutdown, handler, open, ops, history>>

\* The lifecycle hook; sync.Once lets only the first call close the channel.
Shutdown ==
    /\ chatShutdown' = TRUE
    /\ UNCHANGED <<clients, broadcast, loop, handler, open, ops, history>>

\* A connection closes; nothing tells the chat room.
Disconnect(c) ==
    /\ c \in open /\ handler[c] = "idle"
    /\ open' = open \ {c}
    /\ UNCHANGED <<clients, broadcast, chatShutdown, loop, handler, ops, history>>

HandlerStep(c) == JoinSelect(c) \/ JoinRollback(c) \/ LeaveSelect(c)

LoopStep ==
    \/ LoopTake \/ LoopSnapshot \/ LoopRemove \/ LoopNext \/ LoopEnds
    \/ \E c \in Conns : LoopWrite(c) \/ LoopWriteFails(c)

ChatNext ==
    \/ LoopStep \/ Shutdown
    \/ \E c \in Conns :
        HandlerStep(c) \/ JoinRegister(c) \/ LeaveDelete(c) \/ ChatMessage(c) \/ Disconnect(c)

ChatSpec == ChatInit /\ [][ChatNext]_chatVars

\* Goroutines run; a write ends, by its deadline if need be.
ChatFairness == WF_chatVars(LoopStep) /\ \A c \in Conns : WF_chatVars(HandlerStep(c))

----------------------------------------------------------------------------
(* Properties.                                                             *)

\* A message reaches every client that was a member when it was queued and
\* stayed one, and to which no write ever failed, although the clients are
\* copied only when the message is taken from the channel, and joins, leaves,
\* roll-backs and removals go on meanwhile (chat.go 97-129, chat_join.go 21-37).
MembersHear ==
    loop.at \in {"write", "remove"} => (loop.msg.due \ failed) \subseteq (loop.todo \cup loop.got)

\* A join or leave that waits for room in the channel gets it, or the shutdown:
\* its connection's goroutine, for which the TCP server's Stop waits, is never
\* stuck in the chat room (chat_join.go 30-37, chat_leave.go 30-33).
HandlersReturn == \A c \in Conns : handler[c] # "idle" ~> handler[c] = "idle"
============================================================================
