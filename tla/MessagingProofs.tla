--------------------------- MODULE MessagingProofs ---------------------------
(***************************************************************************)
(* Proofs about the UDP server, for any packets and addresses, any finite  *)
(* pool of workers, any capacity, threshold and length of time, and about  *)
(* the chat room, for any connections, capacity and number of messages.    *)
(***************************************************************************)
EXTENDS UDPServer, Chat, TLAPS, FiniteSetTheorems, SequenceTheorems

(***************************************************************************)
(* The UDP server.                                                         *)
(***************************************************************************)

\* The goroutines that Start counted and that have not ended.
Busy == {w \in Workers : worker[w] \notin {"none", "done"}}
Receiving == receiver.at \notin {"none", "done"}
One(b) == IF b THEN 1 ELSE 0

GoTypes ==
    /\ receiver \in [at : {"none", "loop", "read", "update", "enqueue", "done"},
                     pkt : Packets \cup {None}]
    /\ receiver.at \in {"update", "enqueue"} => receiver.pkt \in Packets
    /\ worker \in [Workers -> {"none", "idle", "done"} \cup Packets]
    /\ packetChan \in Seq(Packets)
    /\ cleaner \in {"none", "run", "done"}
    /\ conn \in {"nil", "open", "closed"}
    /\ shutdown \in BOOLEAN /\ drained \in BOOLEAN
    /\ stop \in {"idle", "close", "wait", "stopped", "timeout"}

TimeTypes == sessions \in [Addrs -> Int] /\ heard \in [Addrs -> Int] /\ now \in Nat

\* A session is what was last heard from its address, or was removed when that
\* was longer ago than the threshold.
SessionInv ==
    \A a \in Addrs :
        \/ sessions[a] = heard[a]
        \/ sessions[a] = Never /\ now - heard[a] > Threshold

WgInv == wg = Cardinality(Busy) + One(Receiving) + One(cleaner = "run")

\* Before Start there are no goroutines; a Stop that waits has closed the socket;
\* one that returned nil left no goroutine.
StopInv ==
    /\ conn = "nil" => Busy = {} /\ ~ Receiving /\ cleaner # "run" /\ stop = "idle"
    /\ stop \in {"wait", "stopped", "timeout"} => conn = "closed"
    /\ drained => conn = "closed" /\ Busy = {} /\ ~ Receiving /\ cleaner # "run"

UDPInv == GoTypes /\ TimeTypes /\ SessionInv /\ WgInv /\ StopInv

----------------------------------------------------------------------------
\* The busy workers are a finite set, whose cardinality is a number.
LEMMA BusyFinite == IsFiniteSet(Busy) /\ Cardinality(Busy) \in Nat
<1>1. Busy \subseteq Workers
  BY DEF Busy
<1> QED  BY <1>1, UDPAssumption, FS_Subset, FS_CardinalityType

\* The initial states satisfy the invariant.
LEMMA UDPInvInit == Init => UDPInv
<1> SUFFICES ASSUME Init PROVE UDPInv
  OBVIOUS
<1>1. Busy = {} /\ ~ Receiving /\ cleaner = "none"
  BY DEF Init, Busy, Receiving, At
<1>2. WgInv
  BY <1>1, FS_EmptySet DEF Init, WgInv, One
<1>3. GoTypes /\ TimeTypes
  <2>1. packetChan \in Seq(Packets) /\ receiver.at = "none"
    BY DEF Init, At
  <2>2. GoTypes
    BY <2>1 DEF Init, GoTypes, At
  <2>3. TimeTypes
    BY DEF Init, TimeTypes, Never
  <2> QED  BY <2>2, <2>3
<1>4. SessionInv /\ StopInv
  BY <1>1 DEF Init, SessionInv, StopInv
<1> QED  BY <1>2, <1>3, <1>4 DEF UDPInv

\* Every step keeps the types of the goroutines.
LEMMA GoTypesStep ==
    ASSUME GoTypes, [Next]_vars
    PROVE  GoTypes'
<1> USE UDPAssumption DEF GoTypes, control, traffic
<1>1. CASE Start
  BY <1>1 DEF Start, At
<1>2. CASE StopCancel \/ StopStep
  BY <1>2 DEF StopCancel, StopStep, StopClose, StopReturns, StopTimesOut
<1>3. CASE ReceiverLoop
  <2>1. UNCHANGED <<conn, shutdown, stop, drained, worker, cleaner, packetChan>>
    BY <1>3 DEF ReceiverLoop
  <2>2. CASE receiver' = At("done", None)
    BY <2>1, <2>2 DEF At
  <2>3. CASE receiver' = At("read", None)
    BY <2>1, <2>3 DEF At
  <2> QED  BY <1>3, <2>2, <2>3 DEF ReceiverLoop
<1>4. CASE ReadFails
  BY <1>4 DEF ReadFails, At
<1>5. CASE updateSession
  BY <1>5 DEF updateSession, At
<1>6. CASE Enqueue
  <2>1. /\ receiver' = At("loop", None)
        /\ UNCHANGED <<conn, shutdown, stop, drained, worker, cleaner>>
        /\ packetChan' = packetChan \/ packetChan' = Append(packetChan, receiver.pkt)
    BY <1>6 DEF Enqueue
  <2>2. receiver.pkt \in Packets
    BY <1>6 DEF Enqueue
  <2>3. packetChan' \in Seq(Packets)
    <3>1. packetChan \in Seq(Packets)
      OBVIOUS
    <3>2. Append(packetChan, receiver.pkt) \in Seq(Packets)
      BY <2>2, <3>1, AppendProperties
    <3> QED  BY <2>1, <3>1, <3>2
  <2> QED  BY <2>1, <2>3 DEF At
<1>7. ASSUME NEW p \in Packets, Read(p) PROVE GoTypes'
  BY <1>7 DEF Read, At
<1>8. CASE cleanupInactiveSessions \/ CleanerEnds \/ Tick
  BY <1>8 DEF cleanupInactiveSessions, CleanerEnds, Tick
<1>9. ASSUME NEW w \in Workers, WorkerEnds(w) \/ HandlerReturns(w) PROVE GoTypes'
  BY <1>9 DEF WorkerEnds, HandlerReturns
<1>10. ASSUME NEW w \in Workers, WorkerTakes(w) PROVE GoTypes'
  <2>1. Head(packetChan) \in Packets /\ Tail(packetChan) \in Seq(Packets)
    <3>1. packetChan # <<>> /\ packetChan \in Seq(Packets)
      BY <1>10 DEF WorkerTakes
    <3> QED  BY <3>1, HeadTailProperties
  <2> QED  BY <1>10, <2>1 DEF WorkerTakes
<1>11. ASSUME NEW p \in Packets, Send(p) PROVE GoTypes'
  BY <1>11 DEF Send
<1>12. CASE UNCHANGED vars
  BY <1>12 DEF vars
<1> QED  BY <1>1, <1>2, <1>3, <1>4, <1>5, <1>6, <1>7, <1>8, <1>9, <1>10, <1>11, <1>12
         DEF Next, ReceiverStep, WorkerStep

\* Every step keeps the sessions as they should be.
LEMMA SessionStep ==
    ASSUME UDPInv, [Next]_vars
    PROVE  TimeTypes' /\ SessionInv'
<1> USE DEF TimeTypes, SessionInv
<1>0. TimeTypes /\ SessionInv /\ Threshold \in Nat
  BY UDPAssumption DEF UDPInv
<1>1. CASE updateSession
  <2> DEFINE a == From[receiver.pkt]
  <2>1. a \in Addrs
    BY <1>1, UDPAssumption DEF updateSession, GoTypes, UDPInv
  <2>2. sessions' = [sessions EXCEPT ![a] = now] /\ heard' = [heard EXCEPT ![a] = now] /\ now' = now
    BY <1>1 DEF updateSession
  <2> QED  BY <1>0, <2>1, <2>2
<1>2. CASE cleanupInactiveSessions
  <2>1. /\ sessions' = [a \in Addrs |-> IF now - sessions[a] > Threshold THEN -1 ELSE sessions[a]]
        /\ now' = now /\ heard' = heard
    BY <1>2 DEF cleanupInactiveSessions, Never
  <2> QED  BY <1>0, <2>1 DEF Never
<1>3. CASE Tick
  <2>1. now' = now + 1 /\ sessions' = sessions /\ heard' = heard
    BY <1>3 DEF Tick
  <2> QED  BY <1>0, <2>1
<1>4. CASE UNCHANGED timing
  BY <1>0, <1>4 DEF timing
<1>5. UNCHANGED timing \/ updateSession \/ cleanupInactiveSessions \/ Tick
  <2>1. ASSUME NEW w \in Workers, WorkerStep(w) \/ HandlerReturns(w) PROVE UNCHANGED timing
    BY <2>1 DEF WorkerStep, WorkerEnds, WorkerTakes, HandlerReturns
  <2>2. ASSUME NEW p \in Packets, Send(p) \/ Read(p) PROVE UNCHANGED timing
    BY <2>2 DEF Send, Read
  <2>3. CASE Start \/ StopCancel \/ StopStep \/ CleanerEnds
    BY <2>3 DEF Start, StopCancel, StopStep, StopClose, StopReturns, StopTimesOut, CleanerEnds
  <2>4. CASE ReceiverLoop \/ ReadFails \/ Enqueue
    BY <2>4 DEF ReceiverLoop, ReadFails, Enqueue
  <2>5. CASE UNCHANGED vars
    BY <2>5 DEF vars
  <2> QED  BY <2>1, <2>2, <2>3, <2>4, <2>5 DEF Next, ReceiverStep
<1> QED  BY <1>1, <1>2, <1>3, <1>4, <1>5

\* How a step changes the goroutines that are counted: all of them start, one of
\* a kind ends, or none does.
Kept == Busy' = Busy /\ (Receiving' <=> Receiving) /\ UNCHANGED cleaner
AllStart == conn = "nil" /\ conn' # "nil" /\ Busy' = Workers /\ Receiving' /\ cleaner' = "run"
WorkerGone(w) == w \in Busy /\ Busy' = Busy \ {w} /\ (Receiving' <=> Receiving) /\ UNCHANGED cleaner
ReceiverGone == Busy' = Busy /\ Receiving /\ ~ Receiving' /\ UNCHANGED cleaner
CleanerGone == Busy' = Busy /\ (Receiving' <=> Receiving) /\ cleaner = "run" /\ cleaner' = "done"

\* Every step is of one of these kinds, and the WaitGroup follows it.
LEMMA CountedStep ==
    ASSUME UDPInv, [Next]_vars
    PROVE  \/ Kept /\ wg' = wg
           \/ AllStart /\ wg' = Cardinality(Workers) + 2
           \/ (ReceiverGone \/ CleanerGone \/ \E w \in Workers : WorkerGone(w)) /\ wg' = wg - 1
<1> USE UDPAssumption DEF UDPInv, GoTypes, control
<1>1. CASE Start
  BY <1>1 DEF Start, AllStart, Busy, Receiving, At
<1>2. CASE StopCancel \/ StopStep \/ Tick \/ cleanupInactiveSessions
  BY <1>2 DEF StopCancel, StopStep, StopClose, StopReturns, StopTimesOut, Tick,
              cleanupInactiveSessions, Kept, Busy, Receiving
<1>3. CASE CleanerEnds
  BY <1>3 DEF CleanerEnds, CleanerGone, Busy, Receiving
<1>4. CASE ReceiverLoop \/ ReadFails
  <2>1. receiver.at \in {"loop", "read"} /\ UNCHANGED <<worker, cleaner>>
    BY <1>4 DEF ReceiverLoop, ReadFails
  <2>2. \/ receiver' = At("done", None) /\ wg' = wg - 1
        \/ receiver' = At("read", None) /\ wg' = wg
        \/ receiver' = At("loop", None) /\ wg' = wg
    <3>1. CASE ReceiverLoop
      BY <3>1 DEF ReceiverLoop
    <3>2. CASE ReadFails /\ shutdown
      BY <3>2 DEF ReadFails
    <3>3. CASE ReadFails /\ ~ shutdown
      BY <3>3 DEF ReadFails
    <3> QED  BY <1>4, <3>1, <3>2, <3>3
  <2>3. Busy' = Busy /\ Receiving
    BY <2>1 DEF Busy, Receiving
  <2>4. CASE receiver' = At("done", None) /\ wg' = wg - 1
    <3>1. ~ Receiving'
      BY <2>4 DEF Receiving, At
    <3> QED  BY <2>1, <2>3, <2>4, <3>1 DEF ReceiverGone
  <2>5. CASE receiver' = At("read", None) /\ wg' = wg
    <3>1. Receiving'
      BY <2>5 DEF Receiving, At
    <3> QED  BY <2>1, <2>3, <2>5, <3>1 DEF Kept
  <2>6. CASE receiver' = At("loop", None) /\ wg' = wg
    <3>1. Receiving'
      BY <2>6 DEF Receiving, At
    <3> QED  BY <2>1, <2>3, <2>6, <3>1 DEF Kept
  <2> QED  BY <2>2, <2>4, <2>5, <2>6
<1>5. ASSUME NEW p \in Packets, Read(p) \/ Send(p) PROVE Kept /\ wg' = wg
  <2>1. CASE Send(p)
    BY <2>1 DEF Send, Kept, Busy, Receiving
  <2>2. CASE Read(p)
    <3>1. receiver.at = "read" /\ receiver' = At("update", p) /\ UNCHANGED <<wg, worker, cleaner>>
      BY <2>2 DEF Read
    <3>2. Receiving /\ Receiving'
      BY <3>1 DEF Receiving, At
    <3> QED  BY <3>1, <3>2 DEF Kept, Busy
  <2> QED  BY <1>5, <2>1, <2>2
<1>6. CASE updateSession \/ Enqueue
  <2>1. UNCHANGED <<wg, worker, cleaner>> /\ receiver.at \in {"update", "enqueue"}
    BY <1>6 DEF updateSession, Enqueue
  <2>2. receiver' = At("enqueue", receiver.pkt) \/ receiver' = At("loop", None)
    BY <1>6 DEF updateSession, Enqueue
  <2>3. Receiving'
    <3>1. CASE receiver' = At("enqueue", receiver.pkt)
      BY <3>1 DEF Receiving, At
    <3>2. CASE receiver' = At("loop", None)
      BY <3>2 DEF Receiving, At
    <3> QED  BY <2>2, <3>1, <3>2
  <2> QED  BY <2>1, <2>3 DEF Kept, Busy, Receiving
<1>7. ASSUME NEW w \in Workers, WorkerEnds(w) PROVE WorkerGone(w) /\ wg' = wg - 1
  BY <1>7 DEF WorkerEnds, WorkerGone, Busy, Receiving
<1>8. ASSUME NEW w \in Workers, WorkerTakes(w) PROVE Kept /\ wg' = wg
  <2>1. Head(packetChan) \in Packets
    <3>1. packetChan # <<>> /\ packetChan \in Seq(Packets)
      BY <1>8 DEF WorkerTakes
    <3> QED  BY <3>1, HeadTailProperties
  <2>2. /\ worker[w] = "idle" /\ UNCHANGED <<wg, receiver, cleaner>>
        /\ worker' = worker \/ worker' = [worker EXCEPT ![w] = Head(packetChan)]
    BY <1>8 DEF WorkerTakes
  <2> QED  BY <2>1, <2>2 DEF Kept, Busy, Receiving
<1>9. ASSUME NEW w \in Workers, HandlerReturns(w) PROVE Kept /\ wg' = wg
  BY <1>9 DEF HandlerReturns, Kept, Busy, Receiving
<1>10. CASE UNCHANGED vars
  BY <1>10 DEF vars, Kept, Busy, Receiving
<1> QED  BY <1>1, <1>2, <1>3, <1>4, <1>5, <1>6, <1>7, <1>8, <1>9, <1>10
         DEF Next, ReceiverStep, WorkerStep

\* Every step keeps the WaitGroup exact.
LEMMA WgStep ==
    ASSUME UDPInv, [Next]_vars
    PROVE  WgInv'
<1> USE DEF WgInv, One
<1>0. wg = Cardinality(Busy) + One(Receiving) + One(cleaner = "run") /\ Cardinality(Busy) \in Nat
  BY BusyFinite DEF UDPInv
<1>1. CASE Kept /\ wg' = wg
  BY <1>0, <1>1 DEF Kept
<1>2. CASE AllStart /\ wg' = Cardinality(Workers) + 2
  <2>1. Cardinality(Busy') = Cardinality(Workers) /\ Cardinality(Workers) \in Nat
    BY <1>2, UDPAssumption, FS_CardinalityType DEF AllStart
  <2> QED  BY <1>2, <2>1 DEF AllStart
<1>3. CASE ReceiverGone /\ wg' = wg - 1
  BY <1>0, <1>3 DEF ReceiverGone
<1>4. CASE CleanerGone /\ wg' = wg - 1
  BY <1>0, <1>4 DEF CleanerGone
<1>5. ASSUME NEW w \in Workers, WorkerGone(w), wg' = wg - 1 PROVE WgInv'
  <2>1. Cardinality(Busy') = Cardinality(Busy) - 1
    BY <1>5, BusyFinite, FS_RemoveElement DEF WorkerGone
  <2> QED  BY <1>0, <1>5, <2>1 DEF WorkerGone
<1> QED  BY <1>1, <1>2, <1>3, <1>4, <1>5, CountedStep

\* But for Start, no step adds to the goroutines.
LEMMA StartsOnlyOnce ==
    ASSUME UDPInv, [Next]_vars, conn # "nil" \/ conn' = "nil"
    PROVE  Busy' \subseteq Busy /\ (Receiving' => Receiving) /\ (cleaner' = "run" => cleaner = "run")
<1>1. ~ AllStart
  BY DEF AllStart
<1> QED  BY <1>1, CountedStep DEF Kept, ReceiverGone, CleanerGone, WorkerGone

\* Every step keeps what is known of Start and Stop.
LEMMA StopStepInv ==
    ASSUME UDPInv, [Next]_vars
    PROVE  StopInv'
<1> USE DEF UDPInv, StopInv
<1>1. CASE Start
  BY <1>1, GoTypesStep DEF Start, GoTypes
<1>2. CASE StopReturns
  <2>1. wg = 0 /\ conn = "closed" /\ UNCHANGED <<conn, worker, receiver, cleaner>> /\ stop' = "stopped"
    BY <1>2 DEF StopReturns
  <2>2. Cardinality(Busy) = 0 /\ ~ Receiving /\ cleaner # "run"
    BY <2>1, BusyFinite DEF WgInv, One
  <2>3. Busy = {}
    BY <2>2, BusyFinite, FS_EmptySet
  <2> QED  BY <2>1, <2>2, <2>3 DEF Busy, Receiving
<1>3. CASE StopCancel \/ StopClose \/ StopTimesOut
  BY <1>3 DEF StopCancel, StopClose, StopTimesOut, Busy, Receiving, GoTypes
<1>4. CASE ~ (Start \/ StopCancel \/ StopStep)
  <2>1. UNCHANGED <<conn, stop, drained>>
    <3>1. ASSUME NEW w \in Workers, WorkerStep(w) \/ HandlerReturns(w)
          PROVE  UNCHANGED <<conn, stop, drained>>
      BY <3>1 DEF WorkerStep, WorkerEnds, WorkerTakes, HandlerReturns, control
    <3>2. ASSUME NEW p \in Packets, Send(p) \/ Read(p) PROVE UNCHANGED <<conn, stop, drained>>
      BY <3>2 DEF Send, Read, control
    <3>3. CASE ReceiverLoop \/ ReadFails \/ updateSession \/ Enqueue
      BY <3>3 DEF ReceiverLoop, ReadFails, updateSession, Enqueue, control
    <3>4. CASE cleanupInactiveSessions \/ CleanerEnds \/ Tick
      BY <3>4 DEF cleanupInactiveSessions, CleanerEnds, Tick, control
    <3>5. CASE UNCHANGED vars
      BY <3>5 DEF vars, control
    <3> QED  BY <1>4, <3>1, <3>2, <3>3, <3>4, <3>5 DEF Next, ReceiverStep
  <2>2. Busy' \subseteq Busy /\ (Receiving' => Receiving) /\ (cleaner' = "run" => cleaner = "run")
    BY <2>1, <1>4, StartsOnlyOnce
  <2> QED  BY <2>1, <2>2
<1> QED  BY <1>1, <1>2, <1>3, <1>4 DEF StopStep
----------------------------------------------------------------------------
\* In every behaviour the goroutines are counted, the sessions follow the traffic
\* and a drained server has none left.
THEOREM UDPInvariant == Spec => []UDPInv
<1>1. Init => UDPInv
  BY UDPInvInit
<1>2. ASSUME UDPInv, [Next]_vars PROVE UDPInv'
  BY <1>2, GoTypesStep, SessionStep, WgStep, StopStepInv DEF UDPInv
<1> QED  BY <1>1, <1>2, PTL DEF Spec

\* However receiver and cleanup interleave, an address heard from within the
\* threshold has a session that says when (udp.go 283-333).
THEOREM SessionsFollowTraffic == Spec => []SessionTracksTraffic
<1>1. ASSUME UDPInv, NEW a \in Addrs, now - heard[a] <= Threshold
      PROVE  sessions[a] = heard[a]
  <2>1. heard[a] \in Int /\ now \in Nat /\ Threshold \in Nat
    BY <1>1, UDPAssumption DEF UDPInv, TimeTypes
  <2>2. ~ (now - heard[a] > Threshold)
    BY <1>1, <2>1
  <2> QED  BY <1>1, <2>2 DEF UDPInv, SessionInv
<1>2. UDPInv => SessionTracksTraffic
  BY <1>1 DEF SessionTracksTraffic
<1> QED  BY <1>2, UDPInvariant, PTL

\* A step of a drained server touches neither its queue nor its sessions.
LEMMA QuietStep ==
    ASSUME UDPInv, drained, [Next]_vars
    PROVE  UNCHANGED <<packetChan, fate, sessions, receiver, worker>>
<1> USE DEF control, traffic, timing
<1>1. conn = "closed" /\ Busy = {} /\ ~ Receiving /\ cleaner # "run"
  BY DEF UDPInv, StopInv
<1>2. CASE Start \/ StopCancel \/ StopStep \/ Tick
  BY <1>1, <1>2 DEF Start, StopCancel, StopStep, StopClose, StopReturns, StopTimesOut, Tick
<1>3. CASE cleanupInactiveSessions \/ CleanerEnds
  BY <1>1, <1>3 DEF cleanupInactiveSessions, CleanerEnds
<1>4. ~ ReceiverStep
  BY <1>1 DEF Receiving, ReceiverStep, ReceiverLoop, Read, ReadFails, updateSession, Enqueue
<1>5. ASSUME NEW w \in Workers, WorkerStep(w) \/ HandlerReturns(w) PROVE FALSE
  <2>1. worker[w] \in {"none", "done"}
    BY <1>1 DEF Busy
  <2> QED  BY <1>5, <2>1, UDPAssumption DEF WorkerStep, WorkerEnds, WorkerTakes, HandlerReturns
<1>6. ASSUME NEW p \in Packets, Send(p) PROVE FALSE
  BY <1>1, <1>6 DEF Send
<1>7. CASE UNCHANGED vars
  BY <1>7 DEF vars
<1> QED  BY <1>2, <1>3, <1>4, <1>5, <1>6, <1>7 DEF Next

\* Once Stop has returned nil no goroutine is left to take a packet, answer one
\* or touch a session (udp.go 119-151).
THEOREM QuietOnceStopped == Spec => QuietAfterStop
<1>1. UDPInv /\ [Next]_vars => [drained => UNCHANGED <<packetChan, fate, sessions, receiver, worker>>]_vars
  BY QuietStep
<1> QED  BY <1>1, UDPInvariant, PTL DEF Spec, QuietAfterStop

(***************************************************************************)
(* The chat room.                                                          *)
(***************************************************************************)

\* The messages due to nobody but members, and not to who sent them.
DueTo(S) == {m \in Message : m.due \subseteq S /\ m.from \notin m.due}

ChatTypes ==
    /\ clients \subseteq Conns /\ member \subseteq Conns
    /\ loop \in [at : {"select", "snapshot", "write", "remove", "done"}, msg : Message,
                 todo : SUBSET Conns, got : SUBSET Conns, bad : Conns \cup {Nobody}]
    /\ broadcast \in Seq(Message)

\* Whoever is due a message is a member still, wherever the message is.
DueInv ==
    /\ \A i \in 1 .. Len(broadcast) : broadcast[i] \in DueTo(member)
    /\ loop.msg \in DueTo(member)

\* A member is in the map, unless a write to it failed; and only for that does
\* the loop remove a client.
MapInv ==
    /\ member \ failed \subseteq clients
    /\ loop.at = "remove" => loop.bad \in failed

ChatInv == ChatTypes /\ DueInv /\ MapInv /\ MembersHear

----------------------------------------------------------------------------
\* The fields of the loop's record.
LEMMA LoopFields ==
    ASSUME NEW l, NEW m, NEW t, NEW g, NEW b
    PROVE  /\ Loop(l, m, t, g, b).at = l /\ Loop(l, m, t, g, b).msg = m
           /\ Loop(l, m, t, g, b).todo = t /\ Loop(l, m, t, g, b).got = g
           /\ Loop(l, m, t, g, b).bad = b
<1> QED  BY DEF Loop

\* The loop's record is of its type when its fields are.
LEMMA LoopType ==
    ASSUME NEW l \in {"select", "snapshot", "write", "remove", "done"}, NEW m \in Message,
           NEW t \in SUBSET Conns, NEW g \in SUBSET Conns, NEW b \in Conns \cup {Nobody}
    PROVE  Loop(l, m, t, g, b) \in
              [at : {"select", "snapshot", "write", "remove", "done"}, msg : Message,
               todo : SUBSET Conns, got : SUBSET Conns, bad : Conns \cup {Nobody}]
<1> QED  BY DEF Loop

\* Taking c out of what a message is due to.
LEMMA NotToDue ==
    ASSUME NEW c, NEW S, NEW m \in DueTo(S)
    PROVE  NotTo(c, m) \in DueTo(S \ {c}) /\ NotTo(c, m).due = m.due \ {c}
<1> QED  BY DEF NotTo, DueTo, Message

\* The initial states satisfy the invariant.
LEMMA ChatInvInit == ChatInit => ChatInv
<1> SUFFICES ASSUME ChatInit PROVE ChatInv
  OBVIOUS
<1> DEFINE m == [from |-> Nobody, due |-> {}]
<1>1. m \in DueTo(member) /\ m \in Message
  BY DEF DueTo, Message
<1>2. loop = Loop("select", m, {}, {}, Nobody)
  BY DEF ChatInit, Waiting
<1> HIDE DEF m
<1>3. loop.at = "select" /\ loop.msg = m
  BY <1>2, LoopFields
<1>4. ChatTypes
  <2>1. broadcast \in Seq(Message) /\ clients = {} /\ member = {}
    BY DEF ChatInit
  <2> QED  BY <1>1, <1>2, <2>1, LoopType DEF ChatTypes
<1>5. DueInv
  BY <1>1, <1>3 DEF DueInv, ChatInit
<1>6. MapInv /\ MembersHear
  BY <1>3 DEF MapInv, MembersHear, ChatInit
<1> QED  BY <1>4, <1>5, <1>6 DEF ChatInv

----------------------------------------------------------------------------
\* A handler that queues a message of its own.
LEMMA QueueStep ==
    ASSUME ChatInv, NEW c \in Conns, Queue(c), UNCHANGED <<clients, loop, member, failed>>
    PROVE  ChatInv'
<1> DEFINE m == [from |-> c, due |-> member \ {c}]
<1>1. m \in DueTo(member) /\ m \in Message
  BY DEF DueTo, Message, ChatInv, ChatTypes
<1>2. broadcast \in Seq(Message) /\ broadcast' = Append(broadcast, m)
  BY DEF Queue, ChatInv, ChatTypes
<1> HIDE DEF m
<1>3. /\ broadcast' \in Seq(Message) /\ Len(broadcast') = Len(broadcast) + 1
      /\ \A i \in 1 .. Len(broadcast) : broadcast'[i] = broadcast[i]
      /\ broadcast'[Len(broadcast) + 1] = m
  BY <1>1, <1>2, AppendProperties
<1>4. Len(broadcast) \in Nat
  BY <1>2, LenProperties
<1>5. \A i \in 1 .. Len(broadcast') : broadcast'[i] \in DueTo(member)
  BY <1>1, <1>3, <1>4 DEF ChatInv, DueInv
<1>6. DueInv' /\ ChatTypes'
  BY <1>3, <1>5 DEF ChatInv, DueInv, ChatTypes
<1>7. MapInv' /\ MembersHear'
  BY DEF ChatInv, MapInv, MembersHear
<1> QED  BY <1>6, <1>7 DEF ChatInv

\* A client that leaves, or whose join is rolled back.
LEMMA ForgetStep ==
    ASSUME ChatInv, NEW c \in Conns, Forget(c), clients' = clients \ {c}, failed' = failed
    PROVE  ChatInv'
<1>1. /\ loop'.at = loop.at /\ loop'.msg = NotTo(c, loop.msg)
      /\ loop'.todo = loop.todo /\ loop'.got = loop.got /\ loop'.bad = loop.bad
      /\ member' = member \ {c}
  BY LoopFields DEF Forget
<1>2. NotTo(c, loop.msg) \in DueTo(member') /\ NotTo(c, loop.msg).due = loop.msg.due \ {c}
  BY <1>1, NotToDue DEF ChatInv, DueInv
<1>3. broadcast \in Seq(Message) /\ broadcast' = [i \in 1 .. Len(broadcast) |-> NotTo(c, broadcast[i])]
  BY LenProperties DEF Forget, ChatInv, ChatTypes
<1>4. \A i \in 1 .. Len(broadcast) : NotTo(c, broadcast[i]) \in DueTo(member')
  BY <1>1, NotToDue DEF ChatInv, DueInv
<1>5. broadcast' \in Seq(Message) /\ Len(broadcast') = Len(broadcast)
  <2>1. Len(broadcast) \in Nat
    BY <1>3, LenProperties
  <2>2. \A i \in 1 .. Len(broadcast) : NotTo(c, broadcast[i]) \in Message
    BY <1>4 DEF DueTo
  <2> QED  BY <1>3, <2>1, <2>2, IsASeq
<1>6. DueInv'
  BY <1>1, <1>2, <1>3, <1>4, <1>5 DEF DueInv
<1>7. loop' \in [at : {"select", "snapshot", "write", "remove", "done"}, msg : Message,
                 todo : SUBSET Conns, got : SUBSET Conns, bad : Conns \cup {Nobody}]
  <2>1. /\ loop.at \in {"select", "snapshot", "write", "remove", "done"} /\ loop.todo \in SUBSET Conns
        /\ loop.got \in SUBSET Conns /\ loop.bad \in Conns \cup {Nobody}
    BY DEF ChatInv, ChatTypes
  <2>2. NotTo(c, loop.msg) \in Message
    BY <1>2 DEF DueTo
  <2> QED  BY <2>1, <2>2, LoopType DEF Forget
<1>8. ChatTypes'
  BY <1>1, <1>5, <1>7 DEF ChatInv, ChatTypes
<1>9. MapInv' /\ MembersHear'
  BY <1>1, <1>2 DEF ChatInv, MapInv, MembersHear
<1> QED  BY <1>6, <1>8, <1>9 DEF ChatInv
\* The steps of broadcastLoop.
LEMMA LoopStepInv ==
    ASSUME ChatInv, LoopStep
    PROVE  ChatInv'
<1>0. /\ loop.msg \in Message /\ loop.todo \in SUBSET Conns /\ loop.got \in SUBSET Conns
      /\ clients \subseteq Conns /\ member \subseteq Conns /\ broadcast \in Seq(Message)
      /\ loop.msg \in DueTo(member)
  BY DEF ChatInv, ChatTypes, DueInv
<1>1. CASE LoopTake
  <2>1. broadcast # <<>> /\ broadcast' = Tail(broadcast) /\ UNCHANGED <<clients, member, failed>>
    BY <1>1 DEF LoopTake, history
  <2>2. /\ Len(broadcast) \in Nat /\ Head(broadcast) = broadcast[1] /\ Head(broadcast) \in Message
        /\ broadcast' \in Seq(Message) /\ Len(broadcast') = Len(broadcast) - 1
        /\ \A i \in 1 .. Len(broadcast') : broadcast'[i] = broadcast[i + 1]
    <3>1. Len(broadcast) \in Nat
      BY <1>0, LenProperties
    <3>2. Head(broadcast) = broadcast[1]
      OBVIOUS
    <3> QED  BY <1>0, <2>1, <3>1, <3>2, HeadTailProperties
  <2>3. Len(broadcast) # 0
    BY <1>0, <2>1, EmptySeq
  <2>4. broadcast[1] \in DueTo(member) /\ \A i \in 1 .. Len(broadcast') : broadcast'[i] \in DueTo(member)
    BY <2>2, <2>3 DEF ChatInv, DueInv
  <2>5. loop' = Loop("snapshot", Head(broadcast), {}, {}, Nobody)
    BY <1>1 DEF LoopTake
  <2>6. loop'.at = "snapshot" /\ loop'.msg = broadcast[1]
    BY <2>2, <2>5, LoopFields
  <2>7. ChatTypes'
    BY <1>0, <2>1, <2>2, <2>5, LoopType DEF ChatTypes
  <2>8. DueInv'
    BY <2>1, <2>4, <2>6 DEF DueInv
  <2>9. MapInv' /\ MembersHear'
    BY <2>1, <2>6 DEF ChatInv, MapInv, MembersHear
  <2> QED  BY <2>7, <2>8, <2>9 DEF ChatInv
<1>2. CASE LoopSnapshot
  <2>1. /\ loop' = Loop("write", loop.msg, clients \ {loop.msg.from}, {}, Nobody)
        /\ UNCHANGED <<clients, broadcast, member, failed>>
    BY <1>2 DEF LoopSnapshot, history
  <2>2. loop'.at = "write" /\ loop'.msg = loop.msg /\ loop'.todo = clients \ {loop.msg.from}
    BY <2>1, LoopFields
  <2>3. ChatTypes'
    BY <1>0, <2>1, LoopType DEF ChatTypes
  <2>4. loop.msg.due \subseteq member /\ loop.msg.from \notin loop.msg.due
    BY <1>0 DEF DueTo
  <2>5. DueInv' /\ MapInv'
    BY <2>1, <2>2 DEF ChatInv, DueInv, MapInv
  <2>6. MembersHear'
    BY <2>1, <2>2, <2>4 DEF ChatInv, MapInv, MembersHear
  <2> QED  BY <2>3, <2>5, <2>6 DEF ChatInv
<1>3. ASSUME NEW c \in Conns, LoopWrite(c) PROVE ChatInv'
  <2>1. /\ loop' = Loop("write", loop.msg, loop.todo \ {c}, loop.got \cup {c}, Nobody)
        /\ loop.at = "write" /\ UNCHANGED <<clients, broadcast, member, failed>>
    BY <1>3 DEF LoopWrite, history
  <2>2. /\ loop'.at = "write" /\ loop'.msg = loop.msg
        /\ loop'.todo = loop.todo \ {c} /\ loop'.got = loop.got \cup {c}
    BY <2>1, LoopFields
  <2>3. ChatTypes'
    <3>1. loop.todo \ {c} \in SUBSET Conns /\ loop.got \cup {c} \in SUBSET Conns
      BY <1>0
    <3> QED  BY <1>0, <2>1, <3>1, LoopType DEF ChatTypes
  <2>4. DueInv' /\ MapInv' /\ MembersHear'
    BY <2>1, <2>2 DEF ChatInv, DueInv, MapInv, MembersHear
  <2> QED  BY <2>3, <2>4 DEF ChatInv
<1>4. ASSUME NEW c \in Conns, LoopWriteFails(c) PROVE ChatInv'
  <2>1. /\ loop' = Loop("remove", loop.msg, loop.todo \ {c}, loop.got, c)
        /\ loop.at = "write" /\ failed' = failed \cup {c} /\ UNCHANGED <<clients, broadcast, member>>
    BY <1>4 DEF LoopWriteFails
  <2>2. /\ loop'.at = "remove" /\ loop'.msg = loop.msg /\ loop'.bad = c
        /\ loop'.todo = loop.todo \ {c} /\ loop'.got = loop.got
    BY <2>1, LoopFields
  <2>3. ChatTypes'
    BY <1>0, <2>1, LoopType DEF ChatTypes
  <2>4. DueInv' /\ MapInv' /\ MembersHear'
    BY <2>1, <2>2 DEF ChatInv, DueInv, MapInv, MembersHear
  <2> QED  BY <2>3, <2>4 DEF ChatInv
<1>5. CASE LoopRemove
  <2>1. /\ loop' = Loop("write", loop.msg, loop.todo, loop.got, Nobody)
        /\ loop.at = "remove" /\ clients' = clients \ {loop.bad} /\ UNCHANGED <<broadcast, member, failed>>
    BY <1>5 DEF LoopRemove, history
  <2>2. /\ loop'.at = "write" /\ loop'.msg = loop.msg
        /\ loop'.todo = loop.todo /\ loop'.got = loop.got
    BY <2>1, LoopFields
  <2>3. ChatTypes'
    BY <1>0, <2>1, LoopType DEF ChatTypes
  <2>4. DueInv' /\ MapInv' /\ MembersHear'
    BY <2>1, <2>2 DEF ChatInv, DueInv, MapInv, MembersHear
  <2> QED  BY <2>3, <2>4 DEF ChatInv
<1>6. CASE LoopNext \/ LoopEnds
  <2> DEFINE m == [from |-> Nobody, due |-> {}]
  <2>1. /\ loop' = Loop("select", m, {}, {}, Nobody) \/ loop' = Loop("done", m, {}, {}, Nobody)
        /\ UNCHANGED <<clients, broadcast, member, failed>>
    BY <1>6 DEF LoopNext, LoopEnds, Waiting, history
  <2>2. m \in Message /\ m \in DueTo(member)
    BY DEF Message, DueTo
  <2> HIDE DEF m
  <2>3. loop'.at \in {"select", "done"} /\ loop'.msg = m
    BY <2>1, LoopFields
  <2>4. ChatTypes'
    <3>1. CASE loop' = Loop("select", m, {}, {}, Nobody)
      BY <1>0, <2>1, <2>2, <3>1, LoopType DEF ChatTypes
    <3>2. CASE loop' = Loop("done", m, {}, {}, Nobody)
      BY <1>0, <2>1, <2>2, <3>2, LoopType DEF ChatTypes
    <3> QED  BY <2>1, <3>1, <3>2
  <2>5. DueInv' /\ MapInv' /\ MembersHear'
    BY <2>1, <2>2, <2>3 DEF ChatInv, DueInv, MapInv, MembersHear
  <2> QED  BY <2>4, <2>5 DEF ChatInv
<1> QED  BY <1>1, <1>2, <1>3, <1>4, <1>5, <1>6 DEF LoopStep

\* Every step keeps the invariant.
LEMMA ChatInvStep ==
    ASSUME ChatInv, [ChatNext]_chatVars
    PROVE  ChatInv'
<1>1. CASE LoopStep
  BY <1>1, LoopStepInv
<1>2. CASE UNCHANGED <<clients, broadcast, loop, member, failed>>
  BY <1>2 DEF ChatInv, ChatTypes, DueInv, MapInv, MembersHear
<1>3. ASSUME NEW c \in Conns, JoinRegister(c) PROVE ChatInv'
  <2>1. /\ clients' = clients \cup {c} /\ member' = member \cup {c}
        /\ UNCHANGED <<broadcast, loop, failed>>
    BY <1>3 DEF JoinRegister
  <2>2. DueTo(member) \subseteq DueTo(member')
    BY <2>1 DEF DueTo
  <2> QED  BY <2>1, <2>2 DEF ChatInv, ChatTypes, DueInv, MapInv, MembersHear
<1>4. ASSUME NEW c \in Conns, JoinSelect(c) \/ LeaveSelect(c) \/ ChatMessage(c) PROVE ChatInv'
  <2>1. UNCHANGED <<clients, loop, member, failed>> /\ (Queue(c) \/ UNCHANGED broadcast)
    BY <1>4 DEF JoinSelect, LeaveSelect, ChatMessage, history
  <2> QED  BY <1>2, <2>1, QueueStep
<1>5. ASSUME NEW c \in Conns, JoinRollback(c) \/ LeaveDelete(c) PROVE ChatInv'
  <2>1. Forget(c) /\ clients' = clients \ {c} /\ failed' = failed
    BY <1>5 DEF JoinRollback, LeaveDelete
  <2> QED  BY <2>1, ForgetStep
<1>6. ASSUME NEW c \in Conns, Disconnect(c) PROVE ChatInv'
  BY <1>2, <1>6 DEF Disconnect, history
<1>7. CASE Shutdown \/ UNCHANGED chatVars
  BY <1>2, <1>7 DEF Shutdown, chatVars, history
<1> QED  BY <1>1, <1>3, <1>4, <1>5, <1>6, <1>7 DEF ChatNext, HandlerStep

----------------------------------------------------------------------------
\* In every behaviour of the chat room the invariant holds.
THEOREM ChatInvariant == ChatSpec => []ChatInv
<1> QED  BY ChatInvInit, ChatInvStep, PTL DEF ChatSpec

\* A message reaches every client that was a member when it was queued and
\* stayed one, unless a write to it failed (chat.go 97-129, chat_join.go 21-37).
THEOREM MembersAlwaysHear == ChatSpec => []MembersHear
<1>1. ChatInv => MembersHear
  BY DEF ChatInv
<1> QED  BY <1>1, ChatInvariant, PTL
==============================================================================
