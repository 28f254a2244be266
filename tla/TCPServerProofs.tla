-------------------------- MODULE TCPServerProofs --------------------------
(***************************************************************************)
(* Proofs about TCPServer, for every finite set of connections and every   *)
(* value of MaxConnections, MaxTimeoutCount and MaxStops.                  *)
(***************************************************************************)
EXTENDS TCPServer, TLAPS, FiniteSetTheorems

\* What the accept loop has in hand is an open socket nobody serves yet, and
\* the loop exists exactly while the listener has been made and not outlived.
AcceptorInv ==
    /\ acceptor \in Conns => handler[acceptor] = "none" /\ socket[acceptor] \in {"open", "hungup"}
    /\ acceptor = "none" <=> listener = "nil"
    /\ acceptor = "done" => listener = "closed"

\* An accepted socket that is not closed has a goroutine that will close it.
SocketInv ==
    \A c \in Conns :
        /\ socket[c] \in {"none", "backlog"} => handler[c] = "none"
        /\ socket[c] \in {"open", "hungup"} => handler[c] \in Serving \/ acceptor = c
        /\ socket[c] = "backlog" => listener = "open"
        /\ listener = "nil" => socket[c] = "none"
        /\ checker[c] # "none" => handler[c] \notin {"none", "spawned"}

\* Only a handler on its way out has used up its read timeouts.
TimeoutInv == \A c \in Conns : timeouts[c] = MaxTimeoutCount => handler[c] = "leave"

\* A Stop that waits has closed the listener; one that returned nil left none.
StopInv ==
    /\ stop # "idle" => listener = "closed"
    /\ drained => acceptor = "done" /\ Handlers = {}

IInv ==
    /\ TypeOK
    /\ WgCountsGoroutines
    /\ MapIsServed
    /\ AcceptorInv
    /\ SocketInv
    /\ TimeoutInv
    /\ StopInv

----------------------------------------------------------------------------
\* The handlers are a finite set, whose cardinality is a number.
LEMMA HandlersFinite == IsFiniteSet(Handlers) /\ Cardinality(Handlers) \in Nat
<1>1. Handlers \subseteq Conns
  BY DEF Handlers
<1> QED  BY <1>1, TCPAssumption, FS_Subset, FS_CardinalityType

\* The initial states satisfy the invariant.
LEMMA IInvInit == Init => IInv
<1> SUFFICES ASSUME Init PROVE IInv
  OBVIOUS
<1> USE TCPAssumption
<1>1. Handlers = {}
  BY DEF Init, Handlers, Serving, Registered
<1>2. WgCountsGoroutines
  BY <1>1, FS_EmptySet DEF Init, WgCountsGoroutines
<1>3. MapIsServed
  BY DEF Init, MapIsServed, Registered
<1>4. TypeOK
  <2>1. 0 \in 0 .. MaxTimeoutCount /\ 0 \in 0 .. MaxStops
    OBVIOUS
  <2>2. /\ timeouts \in [Conns -> 0 .. MaxTimeoutCount] /\ silent \in [Conns -> 0 .. MaxTimeoutCount]
        /\ inactive \in [Conns -> BOOLEAN] /\ stops \in 0 .. MaxStops
    BY <2>1 DEF Init
  <2> QED  BY <2>2 DEF Init, TypeOK
<1>5. AcceptorInv /\ SocketInv /\ TimeoutInv
  BY DEF Init, AcceptorInv, SocketInv, TimeoutInv
<1>6. StopInv
  BY DEF Init, StopInv
<1> QED  BY <1>2, <1>3, <1>4, <1>5, <1>6 DEF IInv

\* A handler that goes from one label of its loop to another is the same
\* handler: neither the set of handlers nor the map has to change.
LEMMA GotoServing ==
    ASSUME TypeOK, NEW c \in Conns, NEW l \in Serving, handler[c] \in Serving, Goto(c, l)
    PROVE  Handlers' = Handlers
BY DEF TypeOK, Goto, Handlers

\* How a step changes the handlers and the accept loop: not at all, by one
\* handler more or one less, or by the end of the loop; the WaitGroup follows.
HandlersKept ==
    Handlers' = Handlers /\ wg' = wg /\ (acceptor' \in {"none", "done"} <=> acceptor \in {"none", "done"})

HandlerAdded(c) ==
    /\ c \notin Handlers /\ Handlers' = Handlers \cup {c} /\ wg' = wg + 1
    /\ acceptor = c /\ acceptor' = NoConn

HandlerRemoved(c) ==
    /\ c \in Handlers /\ Handlers' = Handlers \ {c} /\ wg' = wg - 1 /\ UNCHANGED acceptor

LoopStarts == Handlers' = Handlers /\ wg' = wg + 1 /\ acceptor = "none" /\ acceptor' = NoConn
LoopEnds   == Handlers' = Handlers /\ wg' = wg - 1 /\ acceptor = NoConn /\ acceptor' = "done"

\* Every step of the server is of one of these five kinds.
LEMMA HandlersStep ==
    ASSUME IInv, [Next]_vars
    PROVE  \/ HandlersKept \/ LoopStarts \/ LoopEnds
           \/ \E c \in Conns : HandlerAdded(c) \/ HandlerRemoved(c)
<1> USE TCPAssumption DEF IInv
<1> USE DEF server, clocks, vars
<1>1. CASE Start
  BY <1>1 DEF Start, LoopStarts, AcceptorInv, Handlers
<1>2. CASE AcceptEnds
  BY <1>2 DEF AcceptEnds, LoopEnds, Handlers
<1>3. CASE StopCall \/ StopStep \/ Idle
  BY <1>3 DEF StopCall, StopStep, StopCancel, StopReturns, StopTimesOut, Idle, HandlersKept, Handlers
<1>4. ASSUME NEW c \in Conns, Accept(c) \/ Reject(c) PROVE HandlersKept
  BY <1>4 DEF Accept, Reject, HandlersKept, Handlers, NoConn
<1>5. ASSUME NEW c \in Conns, Spawn(c) PROVE HandlerAdded(c)
  BY <1>5 DEF Spawn, Goto, HandlerAdded, Handlers, AcceptorInv, TypeOK, Serving, Registered
<1>6. ASSUME NEW c \in Conns, Done(c) PROVE HandlerRemoved(c)
  BY <1>6 DEF Done, Goto, HandlerRemoved, Handlers, TypeOK, Serving, Registered
<1>7. ASSUME NEW c \in Conns, HandlerStep(c) \/ ReadData(c), ~Done(c) PROVE HandlersKept
  <2>1. UNCHANGED <<wg, acceptor>>
    BY <1>7 DEF HandlerStep, Register, LoopHead, ReadTimeout, ReadError, ReadData, HandlerReturns,
                Write, Leave
  <2>2. handler[c] \in Serving /\ \E l \in Serving : Goto(c, l)
    BY <1>7 DEF HandlerStep, Register, LoopHead, ReadTimeout, ReadError, ReadData, HandlerReturns,
                Write, Leave, Serving, Registered
  <2> QED  BY <2>1, <2>2, GotoServing DEF HandlersKept
<1>8. ASSUME NEW c \in Conns,
             CheckerStep(c) \/ Dial(c) \/ Hangup(c) \/ SilencePasses(c) \/ GoesInactive(c) \/ CheckerFinds(c)
      PROVE  HandlersKept
  BY <1>8 DEF CheckerStep, CheckerCloses, CheckerEnds, CheckerFinds, Dial, Hangup, SilencePasses,
              GoesInactive, HandlersKept, Handlers
<1>9. CASE UNCHANGED vars
  BY <1>9 DEF HandlersKept, Handlers
<1> QED
  BY <1>1, <1>2, <1>3, <1>4, <1>5, <1>6, <1>7, <1>8, <1>9 DEF Next, AcceptStep, Environment

\* The counter follows the handlers.
LEMMA WgStep ==
    ASSUME IInv, [Next]_vars
    PROVE  WgCountsGoroutines' /\ wg' \in Nat
<1> DEFINE loop == IF acceptor \in {"none", "done"} THEN 0 ELSE 1
<1>0. /\ wg = Cardinality(Handlers) + loop
      /\ acceptor \in Conns => acceptor \notin {"none", "done"}
      /\ NoConn \notin {"none", "done"}
      /\ Cardinality(Handlers) \in Nat
  BY TCPAssumption, HandlersFinite DEF IInv, WgCountsGoroutines, NoConn
<1>1. CASE HandlersKept
  BY <1>0, <1>1 DEF HandlersKept, WgCountsGoroutines
<1>2. CASE LoopStarts
  BY <1>0, <1>2 DEF LoopStarts, WgCountsGoroutines
<1>3. CASE LoopEnds
  BY <1>0, <1>3 DEF LoopEnds, WgCountsGoroutines
<1>4. ASSUME NEW c \in Conns, HandlerAdded(c) PROVE WgCountsGoroutines' /\ wg' \in Nat
  <2>1. Cardinality(Handlers') = Cardinality(Handlers) + 1
    BY <1>4, HandlersFinite, FS_AddElement DEF HandlerAdded
  <2> QED  BY <1>0, <1>4, <2>1 DEF HandlerAdded, WgCountsGoroutines
<1>5. ASSUME NEW c \in Conns, HandlerRemoved(c) PROVE WgCountsGoroutines' /\ wg' \in Nat
  <2>1. Cardinality(Handlers') = Cardinality(Handlers) - 1 /\ Cardinality(Handlers') \in Nat
    <3>1. IsFiniteSet(Handlers \ {c}) /\ Cardinality(Handlers \ {c}) \in Nat
      BY HandlersFinite, FS_RemoveElement, FS_CardinalityType
    <3> QED  BY <1>5, <3>1, HandlersFinite, FS_RemoveElement DEF HandlerRemoved
  <2> QED  BY <1>0, <1>5, <2>1 DEF HandlerRemoved, WgCountsGoroutines
<1> QED  BY <1>1, <1>2, <1>3, <1>4, <1>5, HandlersStep
----------------------------------------------------------------------------
\* The variables keep their types, given that the counter does.
LEMMA TypeStep ==
    ASSUME IInv, [Next]_vars, wg' \in Nat
    PROVE  TypeOK'
<1> USE TCPAssumption DEF IInv, TypeOK
<1> USE DEF server, clocks, vars, Goto, Serving, Registered
<1>1. CASE Start \/ AcceptEnds
  BY <1>1 DEF Start, AcceptEnds
<1>2. ASSUME NEW c \in Conns, Accept(c) \/ Reject(c) \/ Spawn(c) PROVE TypeOK'
  BY <1>2 DEF Accept, Reject, Spawn
<1>3. ASSUME NEW c \in Conns, Register(c) \/ LoopHead(c) PROVE TypeOK'
  BY <1>3 DEF Register, LoopHead
<1>4. ASSUME NEW c \in Conns, ReadTimeout(c) PROVE TypeOK'
  BY <1>4 DEF ReadTimeout, TimeoutInv
<1>5. ASSUME NEW c \in Conns, ReadError(c) \/ HandlerReturns(c) \/ Write(c) PROVE TypeOK'
  BY <1>5 DEF ReadError, HandlerReturns, Write
<1>6. ASSUME NEW c \in Conns, Leave(c) \/ Done(c) PROVE TypeOK'
  BY <1>6 DEF Leave, Done
<1>7. ASSUME NEW c \in Conns, CheckerFinds(c) \/ CheckerStep(c) PROVE TypeOK'
  BY <1>7 DEF CheckerFinds, CheckerStep, CheckerCloses, CheckerEnds
<1>8. ASSUME NEW c \in Conns, Dial(c) \/ Hangup(c) PROVE TypeOK'
  BY <1>8 DEF Dial, Hangup
<1>11. ASSUME NEW c \in Conns, ReadData(c) PROVE TypeOK'
  <2>1. 0 \in 0 .. MaxTimeoutCount
    OBVIOUS
  <2>2. /\ timeouts' \in [Conns -> 0 .. MaxTimeoutCount] /\ silent' \in [Conns -> 0 .. MaxTimeoutCount]
        /\ inactive' \in [Conns -> BOOLEAN]
    BY <1>11, <2>1 DEF ReadData
  <2> QED  BY <1>11, <2>2 DEF ReadData
<1>12. ASSUME NEW c \in Conns, SilencePasses(c) PROVE TypeOK'
  <2>1. silent[c] + 1 \in 0 .. MaxTimeoutCount
    BY <1>12 DEF SilencePasses
  <2>2. silent' \in [Conns -> 0 .. MaxTimeoutCount]
    BY <1>12, <2>1 DEF SilencePasses
  <2> QED  BY <1>12, <2>2 DEF SilencePasses
<1>13. ASSUME NEW c \in Conns, GoesInactive(c) PROVE TypeOK'
  <2>1. inactive' \in [Conns -> BOOLEAN]
    BY <1>13 DEF GoesInactive
  <2> QED  BY <1>13, <2>1 DEF GoesInactive
<1>9. CASE StopCall
  BY <1>9 DEF StopCall
<1>10. CASE StopStep \/ Idle \/ UNCHANGED vars
  BY <1>10 DEF StopStep, StopCancel, StopReturns, StopTimesOut, Idle
<1> QED
  BY <1>1, <1>2, <1>3, <1>4, <1>5, <1>6, <1>7, <1>8, <1>9, <1>10, <1>11, <1>12, <1>13
  DEF Next, AcceptStep, HandlerStep, Environment

\* The map holds the connections that are served.
LEMMA MapStep ==
    ASSUME IInv, [Next]_vars
    PROVE  MapIsServed'
<1> USE TCPAssumption DEF IInv, TypeOK, MapIsServed
<1> USE DEF server, clocks, vars, Goto, Serving, Registered
<1>1. ASSUME NEW c \in Conns, Register(c) PROVE MapIsServed'
  BY <1>1 DEF Register
<1>2. ASSUME NEW c \in Conns, Leave(c) PROVE MapIsServed'
  BY <1>2 DEF Leave
<1>3. ASSUME NEW c \in Conns, Spawn(c) \/ Done(c) PROVE MapIsServed'
  BY <1>3 DEF Spawn, Done, AcceptorInv
<1>4. ASSUME NEW c \in Conns,
             LoopHead(c) \/ ReadTimeout(c) \/ ReadError(c) \/ ReadData(c) \/ HandlerReturns(c) \/ Write(c)
      PROVE  MapIsServed'
  BY <1>4 DEF LoopHead, ReadTimeout, ReadError, ReadData, HandlerReturns, Write
<1>5. ASSUME UNCHANGED <<connections, handler>> PROVE MapIsServed'
  BY <1>5
<1>6. ASSUME NEW c \in Conns,
             \/ Accept(c) \/ Reject(c) \/ CheckerFinds(c) \/ CheckerStep(c)
             \/ Dial(c) \/ Hangup(c) \/ SilencePasses(c) \/ GoesInactive(c)
      PROVE  UNCHANGED <<connections, handler>>
  BY <1>6 DEF Accept, Reject, CheckerFinds, CheckerStep, CheckerCloses, CheckerEnds, Dial, Hangup,
              SilencePasses, GoesInactive
<1>7. ASSUME Start \/ AcceptEnds \/ StopCall \/ StopStep \/ Idle \/ UNCHANGED vars
      PROVE  UNCHANGED <<connections, handler>>
  BY <1>7 DEF Start, AcceptEnds, StopCall, StopStep, StopCancel, StopReturns, StopTimesOut, Idle
<1> QED
  BY <1>1, <1>2, <1>3, <1>4, <1>5, <1>6, <1>7
  DEF Next, AcceptStep, HandlerStep, Environment

\* The accept loop and the sockets.
LEMMA SocketStep ==
    ASSUME IInv, [Next]_vars
    PROVE  AcceptorInv' /\ SocketInv'
<1> USE TCPAssumption DEF IInv, TypeOK, AcceptorInv, SocketInv
<1> USE DEF server, clocks, vars, Goto, Serving, Registered, NoConn
<1>1. CASE Start \/ AcceptEnds
  BY <1>1 DEF Start, AcceptEnds
<1>2. ASSUME NEW c \in Conns, Accept(c) PROVE AcceptorInv' /\ SocketInv'
  BY <1>2 DEF Accept
<1>3. ASSUME NEW c \in Conns, Reject(c) PROVE AcceptorInv' /\ SocketInv'
  BY <1>3 DEF Reject
<1>4. ASSUME NEW c \in Conns, Spawn(c) PROVE AcceptorInv' /\ SocketInv'
  BY <1>4 DEF Spawn
<1>5. ASSUME NEW c \in Conns, Register(c) PROVE AcceptorInv' /\ SocketInv'
  BY <1>5 DEF Register
<1>6. ASSUME NEW c \in Conns,
             LoopHead(c) \/ ReadTimeout(c) \/ ReadError(c) \/ ReadData(c) \/ HandlerReturns(c) \/ Write(c)
             \/ Leave(c)
      PROVE  AcceptorInv' /\ SocketInv'
  BY <1>6 DEF LoopHead, ReadTimeout, ReadError, ReadData, HandlerReturns, Write, Leave
<1>7. ASSUME NEW c \in Conns, Done(c) PROVE AcceptorInv' /\ SocketInv'
  BY <1>7 DEF Done
<1>8. ASSUME NEW c \in Conns, CheckerFinds(c) \/ CheckerStep(c) PROVE AcceptorInv' /\ SocketInv'
  BY <1>8 DEF CheckerFinds, CheckerStep, CheckerCloses, CheckerEnds
<1>9. ASSUME NEW c \in Conns, Dial(c) \/ Hangup(c) \/ SilencePasses(c) \/ GoesInactive(c)
      PROVE  AcceptorInv' /\ SocketInv'
  BY <1>9 DEF Dial, Hangup, SilencePasses, GoesInactive
<1>10. CASE StopCall
  BY <1>10 DEF StopCall
<1>11. CASE StopStep \/ Idle \/ UNCHANGED vars
  BY <1>11 DEF StopStep, StopCancel, StopReturns, StopTimesOut, Idle
<1> QED
  BY <1>1, <1>2, <1>3, <1>4, <1>5, <1>6, <1>7, <1>8, <1>9, <1>10, <1>11
  DEF Next, AcceptStep, HandlerStep, Environment

\* Reaching the limit of timeouts sends the handler out.
LEMMA TimeoutStep ==
    ASSUME IInv, [Next]_vars
    PROVE  TimeoutInv'
<1> USE TCPAssumption DEF IInv, TypeOK, TimeoutInv
<1> USE DEF server, clocks, vars, Goto, Serving, Registered
<1>1. ASSUME NEW c \in Conns, ReadTimeout(c) PROVE TimeoutInv'
  BY <1>1 DEF ReadTimeout
<1>2. ASSUME NEW c \in Conns, ReadData(c) \/ Leave(c) PROVE TimeoutInv'
  BY <1>2 DEF ReadData, Leave
<1>3. ASSUME NEW c \in Conns,
             \/ Spawn(c) \/ Register(c) \/ LoopHead(c) \/ ReadError(c) \/ HandlerReturns(c) \/ Write(c)
             \/ Done(c)
      PROVE  TimeoutInv'
  BY <1>3 DEF Spawn, Register, LoopHead, ReadError, HandlerReturns, Write, Done, AcceptorInv
<1>4. ASSUME NEW c \in Conns,
             \/ Accept(c) \/ Reject(c) \/ CheckerFinds(c) \/ CheckerStep(c)
             \/ Dial(c) \/ Hangup(c) \/ SilencePasses(c) \/ GoesInactive(c)
      PROVE  UNCHANGED <<timeouts, handler>>
  BY <1>4 DEF Accept, Reject, CheckerFinds, CheckerStep, CheckerCloses, CheckerEnds, Dial, Hangup,
              SilencePasses, GoesInactive
<1>5. ASSUME Start \/ AcceptEnds \/ StopCall \/ StopStep \/ Idle \/ UNCHANGED vars
      PROVE  UNCHANGED <<timeouts, handler>>
  BY <1>5 DEF Start, AcceptEnds, StopCall, StopStep, StopCancel, StopReturns, StopTimesOut, Idle
<1>6. ASSUME UNCHANGED <<timeouts, handler>> PROVE TimeoutInv'
  BY <1>6
<1> QED
  BY <1>1, <1>2, <1>3, <1>4, <1>5, <1>6
  DEF Next, AcceptStep, HandlerStep, Environment

\* What any step does to the state of Stop and of the accept loop.
LEMMA ServerStep ==
    ASSUME IInv, [Next]_vars
    PROVE  /\ stop' # "idle" => listener' = "closed"
           /\ StopReturns \/ drained' = drained
           /\ acceptor = "done" => acceptor' = "done"
           /\ acceptor' = "done" => acceptor \in {"done", NoConn}
BY TCPAssumption
DEF IInv, StopInv, AcceptorInv, NoConn, Next, Start, StopCall, StopStep, StopCancel, StopReturns,
    StopTimesOut, Idle, AcceptStep, AcceptEnds, Accept, Reject, Spawn, HandlerStep, CheckerStep,
    Environment, Register, LoopHead, ReadTimeout, ReadError, ReadData, HandlerReturns, Write, Leave,
    Done, CheckerFinds, CheckerCloses, CheckerEnds, Dial, Hangup, SilencePasses, GoesInactive,
    server, clocks, vars

\* drained is set by a Stop that saw the counter at zero, with the accept loop
\* gone: nothing can be spawned afterwards.
LEMMA StopInvStep ==
    ASSUME IInv, [Next]_vars
    PROVE  StopInv'
<1> USE TCPAssumption DEF IInv, StopInv
<1>1. CASE StopReturns
  <2>1. acceptor = "done"
    <3>1. wg = 0 /\ stop = "wait"
      BY <1>1 DEF StopReturns
    <3>2. acceptor \in {"none", "done"}
      BY <3>1, HandlersFinite DEF WgCountsGoroutines
    <3> QED  BY <3>1, <3>2 DEF AcceptorInv
  <2>2. Cardinality(Handlers) = 0
    BY <1>1, <2>1, HandlersFinite DEF StopReturns, WgCountsGoroutines
  <2>3. Handlers = {}
    BY <2>2, HandlersFinite, FS_EmptySet
  <2> QED  BY <1>1, <2>1, <2>3, ServerStep DEF StopReturns, Handlers
<1>2. CASE ~StopReturns
  <2>1. acceptor = "done" => Handlers' \subseteq Handlers
    BY HandlersStep DEF HandlersKept, HandlerAdded, HandlerRemoved, LoopStarts, LoopEnds
  <2> QED  BY <1>2, <2>1, ServerStep
<1> QED  BY <1>1, <1>2

----------------------------------------------------------------------------
\* The conjunction of the parts is an invariant of the server.
THEOREM Invariant == Spec => []IInv
<1>1. Init => IInv
  BY IInvInit
<1>2. IInv /\ [Next]_vars => IInv'
  <2> SUFFICES ASSUME IInv, [Next]_vars PROVE IInv'
    OBVIOUS
  <2>1. WgCountsGoroutines' /\ wg' \in Nat
    BY WgStep
  <2>2. TypeOK'
    BY <2>1, TypeStep
  <2>3. MapIsServed' /\ AcceptorInv' /\ SocketInv' /\ TimeoutInv' /\ StopInv'
    BY MapStep, SocketStep, TimeoutStep, StopInvStep
  <2> QED  BY <2>1, <2>2, <2>3 DEF IInv
<1> QED  BY <1>1, <1>2, PTL DEF Spec

\* Every variable keeps its type; in particular TimeoutCount never passes
\* MaxTimeoutCount (tcp.go 220-238).
THEOREM TypeCorrect == Spec => []TypeOK
<1>1. IInv => TypeOK
  BY DEF IInv
<1> QED  BY <1>1, Invariant, PTL

\* The WaitGroup counts the accept loop and the handlers, exactly
\* (tcp.go 85, 127, 155, 162).
THEOREM WgExact == Spec => []WgCountsGoroutines
<1>1. IInv => WgCountsGoroutines
  BY DEF IInv
<1> QED  BY <1>1, Invariant, PTL

\* No entry of the map outlives its handler (tcp.go 185-187, 198-202).
THEOREM MapExact == Spec => []MapIsServed
<1>1. IInv => MapIsServed
  BY DEF IInv
<1> QED  BY <1>1, Invariant, PTL

\* A Stop that returned nil left no handler, no entry and no open socket,
\* whatever the number of connections that raced with it (tcp.go 92-123).
THEOREM StopComplete == Spec => []StopLeavesNothing
<1>1. IInv => StopLeavesNothing
  <2> SUFFICES ASSUME IInv, drained
               PROVE  /\ acceptor = "done" /\ Handlers = {} /\ connections = {}
                      /\ \A c \in Conns : socket[c] \in {"none", "closed"}
    BY DEF StopLeavesNothing
  <2>1. acceptor = "done" /\ Handlers = {}
    BY DEF IInv, StopInv
  <2>2. \A c \in Conns : handler[c] \notin Serving
    BY <2>1 DEF Handlers
  <2>3. connections = {}
    BY <2>2 DEF IInv, MapIsServed, Serving
  <2>4. ASSUME NEW c \in Conns PROVE socket[c] \in {"none", "closed"}
    <3>1. acceptor # c /\ listener = "closed"
      BY <2>1, TCPAssumption DEF IInv, AcceptorInv
    <3> QED  BY <2>2, <3>1 DEF IInv, TypeOK, SocketInv
  <2> QED  BY <2>1, <2>3, <2>4
<1> QED  BY <1>1, Invariant, PTL

\* A Stop that returns nil is a graceful drain: handlers are the work, the
\* end of the accept loop begins the drain (tcp.go 92-163).
THEOREM ServerDrains == Spec => ImplementsDrain
<1>1. Init => Drain!Init
  BY DEF Init, Drain!Init, DrainPhase, Handlers, Serving, Registered
<1>2. ASSUME IInv, IInv', [Next]_vars
      PROVE  [Drain!Next]_<<DrainPhase, Handlers>>
  <2>1. drained => acceptor = "done" /\ Handlers = {}
    BY <1>2 DEF IInv, StopInv
  <2>2. drained' => acceptor' = "done" /\ Handlers' = {}
    BY <1>2 DEF IInv, StopInv
  <2>3. CASE StopReturns
    <3>1. UNCHANGED <<acceptor, Handlers>> /\ drained'
      BY <2>3 DEF StopReturns, Handlers
    <3> QED  BY <2>1, <2>2, <3>1 DEF Drain!Next, Drain!EndDrain, DrainPhase
  <2>4. CASE ~StopReturns
    <3>0. drained' = drained
      BY <1>2, <2>4, ServerStep
    <3>1. CASE HandlersKept
      <4>1. acceptor' = "done" <=> acceptor = "done"
        BY <1>2, <3>1, ServerStep DEF HandlersKept, NoConn
      <4> QED  BY <3>0, <3>1, <4>1 DEF HandlersKept, DrainPhase
    <3>2. CASE LoopStarts
      BY <2>1, <2>2, <3>0, <3>2 DEF LoopStarts, DrainPhase, NoConn
    <3>3. CASE LoopEnds
      BY <2>1, <3>0, <3>3 DEF LoopEnds, DrainPhase, NoConn, Drain!Next, Drain!BeginDrain
    <3>4. ASSUME NEW c \in Conns, HandlerAdded(c) PROVE Drain!Accept
      <4>1. acceptor # "done" /\ acceptor' # "done"
        BY <3>4, TCPAssumption DEF HandlerAdded, NoConn
      <4>2. Handlers' \subseteq Conns
        BY DEF Handlers
      <4> QED  BY <2>1, <3>0, <3>4, <4>1, <4>2 DEF HandlerAdded, DrainPhase, Drain!Accept
    <3>5. ASSUME NEW c \in Conns, HandlerRemoved(c) PROVE c \in Handlers /\ Drain!Finish(c)
      BY <3>0, <3>5 DEF HandlerRemoved, DrainPhase, Drain!Finish
    <3> QED  BY <1>2, <3>1, <3>2, <3>3, <3>4, <3>5, HandlersStep DEF Drain!Next
  <2> QED  BY <2>3, <2>4
<1> QED  BY <1>1, <1>2, Invariant, PTL DEF Spec, ImplementsDrain, Drain!Spec
============================================================================
