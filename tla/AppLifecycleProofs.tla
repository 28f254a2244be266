------------------------- MODULE AppLifecycleProofs -------------------------
(***************************************************************************)
(* Proofs about AppLifecycle: why, on every way out and whatever fails,    *)
(* the parts are stopped once and in order, the servers before them, the   *)
(* events come in pairs and a failure is reported.                         *)
(***************************************************************************)
EXTENDS AppLifecycle, TLAPS, SequenceTheorems

\* Before Run waits, nothing has been stopped yet.
Rising == {"wire", "startHooks", "logStartup", "startTCP", "startUDP", "undoTCP", "serveHTTP", "wait"}
Falling == {"shutHTTP", "stopTCP", "stopUDP", "publishStopped"}
Places == Rising \cup Falling \cup {"rollback", "stopHooks"} \cup Ended

AppTypes ==
    /\ pc \in Places
    /\ {ctxDone, notified, signalled, httpFailed, failed, appStarted, inShutdown} \subseteq BOOLEAN

HookTypes ==
    /\ stage \in 1 .. Len(Stages) + 1
    /\ hooks \in Seq(HookNames)
    /\ hookStates \in Seq([started : BOOLEAN, stopped : BOOLEAN])
    /\ Len(hookStates) = Len(hooks)
    /\ next \in 0 .. Len(hooks) + 1
    /\ stops \in Seq([hook : HookNames, ok : BOOLEAN, phase : {"rollback", "stopHooks"}])

----------------------------------------------------------------------------
(* A failure is reported.                                                  *)

\* What cancels the context is a signal or is reported, and nothing else
\* than it or a failure leads to the shutdown.
FailureInv ==
    /\ ctxDone => signalled \/ failed \/ httpFailed
    /\ http \in {"stored", "failed"} => httpFailed
    /\ pc \in Falling \cup {"rollback", "undoTCP", "stopHooks"} => failed \/ ctxDone
    /\ FailureReported


\* Every step keeps it, and the types.
LEMMA FailureStep == AppTypes /\ FailureInv /\ [Next]_vars => AppTypes' /\ FailureInv'
<1> SUFFICES ASSUME AppTypes, FailureInv, [Next]_vars PROVE AppTypes' /\ FailureInv'
  OBVIOUS
<1> USE DEF AppTypes, FailureInv, FailureReported, Places, Rising, Falling, Ended,
            process, servers, lifecycle, events
<1>1. CASE Wire
  <2>1. CASE \E s \in Optional : WireDisabled(s)
    BY <2>1 DEF WireDisabled, Wiring
  <2>2. CASE \E s \in HookNames : WireHooked(s)
    BY <2>2 DEF WireHooked, Wiring
  <2>3. CASE WireLogger
    BY <2>3 DEF WireLogger, Wiring
  <2>4. CASE wireHTTP
    BY <2>4 DEF wireHTTP, Wiring
  <2>5. CASE wireTCP
    BY <2>5 DEF wireTCP, Wiring
  <2>6. CASE wireUDP
    BY <2>6 DEF wireUDP, Wiring
  <2>7. CASE \E s \in Fallible : WireFails(s)
    BY <2>7 DEF WireFails, Wiring
  <2> QED  BY <1>1, <2>1, <2>2, <2>3, <2>4, <2>5, <2>6, <2>7 DEF Wire
<1>2. CASE Start
  <2>1. CASE RunBegin
    BY <2>1 DEF RunBegin
  <2>2. CASE StartHook
    BY <2>2 DEF StartHook
  <2>3. CASE StartHookFails
    BY <2>3 DEF StartHookFails
  <2>4. CASE StartHooksDone
    BY <2>4 DEF StartHooksDone
  <2>5. CASE logStartup
    BY <2>5 DEF logStartup, BusOpen
  <2>6. CASE StartTCP
    BY <2>6 DEF StartTCP
  <2>7. CASE StartTCPFails
    BY <2>7 DEF StartTCPFails, stop
  <2>8. CASE StartUDP
    BY <2>8 DEF StartUDP
  <2>9. CASE StartUDPFails
    BY <2>9 DEF StartUDPFails, stop
  <2>10. CASE UndoTCP
    BY <2>10 DEF UndoTCP, stop
  <2>11. CASE ServeHTTP
    BY <2>11 DEF ServeHTTP
  <2> QED  BY <1>2, <2>1, <2>2, <2>3, <2>4, <2>5, <2>6, <2>7, <2>8, <2>9, <2>10, <2>11 DEF Start
<1>3. CASE Stop
  <2>1. CASE WaitDone
    BY <2>1 DEF WaitDone
  <2>2. CASE ShutdownHTTP
    BY <2>2 DEF ShutdownHTTP
  <2>3. CASE StopTCP
    BY <2>3 DEF StopTCP
  <2>4. CASE StopUDP
    BY <2>4 DEF StopUDP
  <2>5. CASE PublishStopped
    BY <2>5 DEF PublishStopped, BusWired, BusOpen
  <2>6. CASE stopHookAt
    BY <2>6 DEF stopHookAt, Sweeping, CallOnStop
  <2>7. CASE RollbackDone
    BY <2>7 DEF RollbackDone
  <2>8. CASE Return
    BY <2>8 DEF Return
  <2> QED  BY <1>3, <2>1, <2>2, <2>3, <2>4, <2>5, <2>6, <2>7, <2>8 DEF Stop
<1>4. CASE Http
  <2>1. CASE HttpBinds
    BY <2>1 DEF HttpBinds, HttpStep
  <2>2. CASE HttpServes
    BY <2>2 DEF HttpServes, HttpStep
  <2>3. CASE HttpErrs
    BY <2>3 DEF HttpErrs, HttpStep
  <2>4. CASE HttpStoreFailed
    BY <2>4 DEF HttpStoreFailed, HttpStep
  <2>5. CASE HttpStop
    BY <2>5 DEF HttpStop, HttpStep, stop
  <2> QED  BY <1>4, <2>1, <2>2, <2>3, <2>4, <2>5 DEF Http
<1>5. CASE Signal
  BY <1>5 DEF Signal
<1>6. CASE UNCHANGED vars
  BY <1>6 DEF vars
<1> QED  BY <1>1, <1>2, <1>3, <1>4, <1>5, <1>6 DEF Next, Main, Terminated

\* app.go 111-113, 163-164: Run returns no error only to a signal.
THEOREM FailuresAreReported == Spec => []FailureReported
<1>1. Init => AppTypes /\ FailureInv
  BY DEF Init, AppTypes, FailureInv, FailureReported, Places, Rising, Falling, Ended
<1>2. AppTypes /\ FailureInv => FailureReported
  BY DEF FailureInv
<1> QED  BY <1>1, <1>2, FailureStep, PTL DEF Spec

----------------------------------------------------------------------------
(* The servers come down first.                                            *)

Down(server) == server \in {"nil", "off"}

\* Serve does not run, and cannot come up any more.
HttpQuiet == http # "serving" /\ (Down(http) \/ inShutdown)

ServersInv ==
    /\ pc \in {"wire", "startHooks", "rollback", "logStartup"} => Down(http) /\ Down(tcp) /\ Down(udp)
    /\ pc \in {"stopTCP", "stopUDP", "publishStopped", "stopHooks"} => HttpQuiet
    /\ pc \in {"stopUDP", "publishStopped", "stopHooks"} => tcp # "listening"
    /\ pc \in {"publishStopped", "stopHooks"} => udp # "listening"
    /\ pc \in Rising => stops = <<>>
    /\ stops # <<>> => HttpQuiet /\ tcp # "listening" /\ udp # "listening"


\* Every step keeps it.
LEMMA ServersStep == ServersInv /\ [Next]_vars => ServersInv'
<1> SUFFICES ASSUME ServersInv, [Next]_vars PROVE ServersInv'
  OBVIOUS
<1> USE DEF ServersInv, HttpQuiet, Down, Rising, Ended, process, servers, lifecycle, events
<1>1. CASE Wire
  <2>1. CASE \E s \in Optional : WireDisabled(s)
    BY <2>1 DEF WireDisabled, Wiring
  <2>2. CASE \E s \in HookNames : WireHooked(s)
    BY <2>2 DEF WireHooked, Wiring
  <2>3. CASE WireLogger
    BY <2>3 DEF WireLogger, Wiring
  <2>4. CASE wireHTTP
    BY <2>4 DEF wireHTTP, Wiring
  <2>5. CASE wireTCP
    BY <2>5 DEF wireTCP, Wiring
  <2>6. CASE wireUDP
    BY <2>6 DEF wireUDP, Wiring
  <2>7. CASE \E s \in Fallible : WireFails(s)
    BY <2>7 DEF WireFails, Wiring
  <2> QED  BY <1>1, <2>1, <2>2, <2>3, <2>4, <2>5, <2>6, <2>7 DEF Wire
<1>2. CASE Start
  <2>1. CASE RunBegin
    BY <2>1 DEF RunBegin
  <2>2. CASE StartHook
    BY <2>2 DEF StartHook
  <2>3. CASE StartHookFails
    BY <2>3 DEF StartHookFails
  <2>4. CASE StartHooksDone
    BY <2>4 DEF StartHooksDone
  <2>5. CASE logStartup
    BY <2>5 DEF logStartup, BusOpen
  <2>6. CASE StartTCP
    BY <2>6 DEF StartTCP
  <2>7. CASE StartTCPFails
    BY <2>7 DEF StartTCPFails, stop
  <2>8. CASE StartUDP
    BY <2>8 DEF StartUDP
  <2>9. CASE StartUDPFails
    BY <2>9 DEF StartUDPFails, stop
  <2>10. CASE UndoTCP
    BY <2>10 DEF UndoTCP, stop
  <2>11. CASE ServeHTTP
    BY <2>11 DEF ServeHTTP
  <2> QED  BY <1>2, <2>1, <2>2, <2>3, <2>4, <2>5, <2>6, <2>7, <2>8, <2>9, <2>10, <2>11 DEF Start
<1>3. CASE Stop
  <2>1. CASE WaitDone
    BY <2>1 DEF WaitDone
  <2>2. CASE ShutdownHTTP
    BY <2>2 DEF ShutdownHTTP
  <2>3. CASE StopTCP
    BY <2>3 DEF StopTCP, Stopped
  <2>4. CASE StopUDP
    BY <2>4 DEF StopUDP, Stopped
  <2>5. CASE PublishStopped
    BY <2>5 DEF PublishStopped, BusWired, BusOpen
  <2>6. CASE stopHookAt
    BY <2>6 DEF stopHookAt, Sweeping, CallOnStop
  <2>7. CASE RollbackDone
    BY <2>7 DEF RollbackDone
  <2>8. CASE Return
    BY <2>8 DEF Return
  <2> QED  BY <1>3, <2>1, <2>2, <2>3, <2>4, <2>5, <2>6, <2>7, <2>8 DEF Stop
<1>4. CASE Http
  <2>1. CASE HttpBinds
    BY <2>1 DEF HttpBinds, HttpStep
  <2>2. CASE HttpServes
    BY <2>2 DEF HttpServes, HttpStep
  <2>3. CASE HttpErrs
    BY <2>3 DEF HttpErrs, HttpStep
  <2>4. CASE HttpStoreFailed
    BY <2>4 DEF HttpStoreFailed, HttpStep
  <2>5. CASE HttpStop
    BY <2>5 DEF HttpStop, HttpStep, stop
  <2> QED  BY <1>4, <2>1, <2>2, <2>3, <2>4, <2>5 DEF Http
<1>5. CASE Signal
  BY <1>5 DEF Signal
<1>6. CASE UNCHANGED vars
  BY <1>6 DEF vars
<1> QED  BY <1>1, <1>2, <1>3, <1>4, <1>5, <1>6 DEF Next, Main, Terminated

\* app.go 158-167, 178-232: the servers are shut before the first OnStop, and
\* none comes up after it.
THEOREM ServersComeDownFirst == Spec => []ServersBeforeInfra
<1>1. Init => ServersInv
  BY DEF Init, ServersInv, HttpQuiet, Down, Rising
<1>2. ServersInv => ServersBeforeInfra
  BY DEF ServersInv, ServersBeforeInfra, HttpQuiet
<1> QED  BY <1>1, <1>2, ServersStep, PTL DEF Spec

----------------------------------------------------------------------------
(* The hooks.                                                              *)

\* The hook that a stage registers, if it registers one.
Registers(s) == IF s = "tcp" THEN "chat_handler" ELSE s

\* Every hook is that of a stage that is over, and no two are the same.
HooksInv ==
    /\ \A i \in 1 .. Len(hooks) : \E k \in 1 .. stage - 1 : hooks[i] = Registers(Stages[k])
    /\ \A i, j \in 1 .. Len(hooks) : hooks[i] = hooks[j] => i = j

\* The part behind a hook was acquired.
Acquired(i) == HasOnStart(hooks[i]) => hookStates[i].started

\* A hook counts as stopped exactly when a call of its OnStop succeeded.
StopsInv ==
    /\ \A j \in 1 .. Len(stops) : \E i \in 1 .. Len(hooks) : stops[j].hook = hooks[i]
    /\ \A j \in 1 .. Len(stops), i \in 1 .. Len(hooks) :
        stops[j].ok /\ stops[j].hook = hooks[i] => hookStates[i].stopped
    /\ \A i \in 1 .. Len(hooks) : hookStates[i].stopped =>
        \E j \in 1 .. Len(stops) : stops[j].ok /\ stops[j].hook = hooks[i]
    /\ \A j, k \in 1 .. Len(stops) : j < k /\ stops[j].hook = stops[k].hook => ~stops[j].ok

\* The last sweep has dealt with the hooks it has passed.
SweepInv ==
    /\ pc \in {"stopHooks", "exit"} =>
        \A i \in 1 .. Len(hooks) : i > next /\ Acquired(i) =>
            \E k \in 1 .. Len(stops) :
                stops[k].hook = hooks[i] /\ (stops[k].ok \/ stops[k].phase = "stopHooks")
    /\ pc = "exit" => next = 0
    /\ pc \in {"rollback", "stopHooks"} => next <= Len(hooks)
    /\ pc = "startHooks" => next > 0

\* An application that came up sweeps its hooks once.
OrderInv ==
    /\ pc \in {"wire", "startHooks", "rollback", "logStartup"} => ~appStarted
    /\ pc \in Rising => stops = <<>>
    /\ appStarted /\ pc \in Falling => stops = <<>>
    /\ appStarted => \E i \in 1 .. Len(hooks) : hooks[i] = "event_bus"
    /\ appStarted /\ pc = "stopHooks" =>
        \A j \in 1 .. Len(stops), i \in 1 .. Len(hooks) : stops[j].hook = hooks[i] => i > next
    /\ appStarted =>
        \A j, k \in 1 .. Len(stops), h, i \in 1 .. Len(hooks) :
            j < k /\ stops[j].hook = hooks[h] /\ stops[k].hook = hooks[i] => h > i

LifecycleInv == HookTypes /\ HooksInv /\ StopsInv /\ SweepInv /\ OrderInv

\* The stages are different, and so are the hooks they register.
LEMMA StagesApart ==
    /\ Len(Stages) = 10
    /\ \A i, j \in 1 .. 10 : Registers(Stages[i]) = Registers(Stages[j]) => i = j
<1>1. Len(Stages) = 10
  BY DEF Stages
<1>2. ASSUME NEW i \in 1 .. 10, NEW j \in 1 .. 10, Registers(Stages[i]) = Registers(Stages[j])
      PROVE  i = j
  BY <1>2 DEF Stages, Registers
<1> QED  BY <1>1, <1>2

Early == {"wire", "startHooks", "rollback", "logStartup"}

\* How the calling goroutine gets from place to place.
Moves ==
    \/ pc' = pc /\ next' = next
    \/ /\ pc \in Rising /\ pc' \in Rising \cup Falling
       /\ pc' \in Early => pc \in Early
       /\ pc' = "startHooks" => next' > 0
    \/ pc \in Falling /\ pc' \in Falling
    \/ pc = "startHooks" /\ pc' = "rollback" /\ next' <= Len(hooks)
    \/ pc = "rollback" /\ pc' = "shutHTTP"
    \/ pc = "publishStopped" /\ pc' = "stopHooks" /\ next' = Len(hooks)
    \/ pc = "stopHooks" /\ next = 0 /\ pc' = "exit" /\ next' = 0
    \/ pc' = "killed"

\* A step that neither registers, starts nor stops a hook.
LEMMA MoveStep ==
    ASSUME LifecycleInv, UNCHANGED <<hooks, hookStates, stops, appStarted>>,
           stage' \in {stage, stage + 1}, stage' \in 1 .. Len(Stages) + 1,
           next' \in 0 .. Len(hooks) + 1, Moves
    PROVE  LifecycleInv'
<1>1. HookTypes'
  BY DEF LifecycleInv, HookTypes
<1>2. HooksInv'
  <2>1. stage \in 1 .. 11
    BY StagesApart DEF LifecycleInv, HookTypes
  <2>2. \A k \in 1 .. stage - 1 : k \in 1 .. stage' - 1
    <3>1. CASE stage' = stage
      BY <3>1
    <3>2. CASE stage' = stage + 1
      BY <2>1, <3>2
    <3> QED  BY <3>1, <3>2
  <2> QED  BY <2>2 DEF LifecycleInv, HooksInv
<1>3. StopsInv'
  BY DEF LifecycleInv, StopsInv
<1>4. SweepInv'
  <2>1. Len(hooks) \in Nat
    BY DEF LifecycleInv, HookTypes
  <2>2. CASE pc' \notin {"stopHooks", "exit"}
    BY <2>2 DEF SweepInv, Moves, LifecycleInv, Rising, Falling
  <2>3. CASE pc' = "stopHooks" /\ next' = Len(hooks)
    BY <2>1, <2>3 DEF SweepInv
  <2>4. CASE pc' \in {"stopHooks", "exit"} /\ next' = next /\ pc \in {"stopHooks", "exit"}
             /\ (pc' = "exit" => next = 0) /\ (pc' = "stopHooks" => pc = "stopHooks")
    BY <2>4 DEF LifecycleInv, SweepInv, Acquired
  <2> QED  BY <2>2, <2>3, <2>4 DEF Moves, Rising, Falling, LifecycleInv, SweepInv
<1>5. OrderInv'
  <2>1. pc' \in Early => ~appStarted
    BY DEF Moves, LifecycleInv, OrderInv, Early, Rising, Falling
  <2>2. pc' \in Rising => stops = <<>>
    BY DEF Moves, LifecycleInv, OrderInv, Rising, Falling
  <2>3. appStarted /\ pc' \in Falling => stops = <<>>
    BY DEF Moves, LifecycleInv, OrderInv, Rising, Falling
  <2>4. ASSUME appStarted, pc' = "stopHooks"
        PROVE  \A j \in 1 .. Len(stops), i \in 1 .. Len(hooks) : stops[j].hook = hooks[i] => i > next'
    <3>1. CASE pc = "stopHooks" /\ next' = next
      BY <2>4, <3>1 DEF LifecycleInv, OrderInv
    <3>2. CASE pc = "publishStopped"
      BY <2>4, <3>2 DEF LifecycleInv, OrderInv, Falling
    <3> QED  BY <2>4, <3>1, <3>2 DEF Moves, Rising, Falling
  <2> QED  BY <2>1, <2>2, <2>3, <2>4 DEF LifecycleInv, OrderInv, Early
<1> QED  BY <1>1, <1>2, <1>3, <1>4, <1>5 DEF LifecycleInv


\* What addHook leaves in the two lists.
LEMMA AddedIs ==
    ASSUME HookTypes, NEW h \in HookNames, addHook(h)
    PROVE  /\ hooks' \in Seq(HookNames) /\ Len(hooks') = Len(hooks) + 1
           /\ hookStates' \in Seq([started : BOOLEAN, stopped : BOOLEAN])
           /\ Len(hookStates') = Len(hooks) + 1
           /\ \A i \in 1 .. Len(hooks) : hooks'[i] = hooks[i] /\ hookStates'[i] = hookStates[i]
           /\ hooks'[Len(hooks) + 1] = h /\ ~hookStates'[Len(hooks) + 1].stopped
<1> DEFINE new == [started |-> FALSE, stopped |-> FALSE]
<1>1. new \in [started : BOOLEAN, stopped : BOOLEAN] /\ ~new.stopped
  OBVIOUS
<1>2. hooks' = Append(hooks, h) /\ hookStates' = Append(hookStates, new)
  BY DEF addHook
<1> HIDE DEF new
<1>3. /\ hooks' \in Seq(HookNames) /\ Len(hooks') = Len(hooks) + 1
      /\ \A i \in 1 .. Len(hooks) : hooks'[i] = hooks[i]
      /\ hooks'[Len(hooks) + 1] = h
  BY <1>2, AppendProperties DEF HookTypes
<1>4. /\ hookStates' \in Seq([started : BOOLEAN, stopped : BOOLEAN])
      /\ Len(hookStates') = Len(hooks) + 1
      /\ \A i \in 1 .. Len(hooks) : hookStates'[i] = hookStates[i]
      /\ hookStates'[Len(hooks) + 1] = new
  BY <1>1, <1>2, AppendProperties DEF HookTypes
<1> QED  BY <1>1, <1>3, <1>4

\* A stage registers its hook while the application is wired.
LEMMA RegisterStep ==
    ASSUME LifecycleInv, NEW s, Wiring(s), Registers(s) \in HookNames, addHook(Registers(s)),
           stage' = stage + 1, UNCHANGED <<pc, next, stops, appStarted>>
    PROVE  LifecycleInv'
<1>1. HookTypes /\ pc = "wire" /\ stops = <<>> /\ ~appStarted /\ stage \in 1 .. 10
      /\ s = Stages[stage]
  BY StagesApart DEF LifecycleInv, HookTypes, OrderInv, Wiring, Rising
<1>2. /\ hooks' \in Seq(HookNames) /\ Len(hooks') = Len(hooks) + 1
      /\ hookStates' \in Seq([started : BOOLEAN, stopped : BOOLEAN])
      /\ Len(hookStates') = Len(hooks) + 1
      /\ \A i \in 1 .. Len(hooks) : hooks'[i] = hooks[i] /\ hookStates'[i] = hookStates[i]
      /\ hooks'[Len(hooks) + 1] = Registers(s) /\ ~hookStates'[Len(hooks) + 1].stopped
  BY <1>1, AddedIs
<1>3. Len(hooks) \in Nat /\ Len(stops) = 0
      /\ \A i \in 1 .. Len(hooks) + 1 : i \in 1 .. Len(hooks) \/ i = Len(hooks) + 1
  BY <1>1 DEF HookTypes
<1>4. HookTypes'
  BY <1>1, <1>2, <1>3, StagesApart DEF HookTypes
<1>5. HooksInv'
  <2>1. ASSUME NEW i \in 1 .. Len(hooks) + 1
        PROVE  \E k \in 1 .. stage : hooks'[i] = Registers(Stages[k])
                                     /\ (i # Len(hooks) + 1 => k < stage)
    <3>1. CASE i \in 1 .. Len(hooks)
      <4>1. PICK k \in 1 .. stage - 1 : hooks[i] = Registers(Stages[k])
        BY <3>1 DEF LifecycleInv, HooksInv
      <4> QED  BY <1>1, <1>2, <3>1, <4>1
    <3>2. CASE i = Len(hooks) + 1
      BY <1>1, <1>2, <3>2
    <3> QED  BY <1>3, <3>1, <3>2
  <2>2. ASSUME NEW i \in 1 .. Len(hooks) PROVE hooks'[i] # hooks'[Len(hooks) + 1]
    <3>1. PICK k \in 1 .. stage - 1 : hooks[i] = Registers(Stages[k])
      BY DEF LifecycleInv, HooksInv
    <3>2. k \in 1 .. 10 /\ k # stage
      BY <1>1, <3>1
    <3>3. Registers(Stages[k]) # Registers(Stages[stage])
      BY <1>1, <3>2, StagesApart
    <3> QED  BY <1>1, <1>2, <3>1, <3>3
  <2>3. ASSUME NEW i \in 1 .. Len(hooks) + 1, NEW j \in 1 .. Len(hooks) + 1, hooks'[i] = hooks'[j]
        PROVE  i = j
    <3>1. CASE i \in 1 .. Len(hooks) /\ j \in 1 .. Len(hooks)
      BY <1>2, <2>3, <3>1 DEF LifecycleInv, HooksInv
    <3> QED  BY <1>3, <2>2, <2>3, <3>1
  <2>4. stage' - 1 = stage
    BY <1>1
  <2> QED  BY <1>2, <2>1, <2>3, <2>4 DEF HooksInv
<1>6. StopsInv'
  <2>1. \A i \in 1 .. Len(hooks) + 1 : ~hookStates'[i].stopped
    <3>1. \A i \in 1 .. Len(hooks) : ~hookStates[i].stopped
      BY <1>3 DEF LifecycleInv, StopsInv
    <3> QED  BY <1>2, <1>3, <3>1
  <2> QED  BY <1>2, <1>3, <2>1 DEF StopsInv
<1>7. SweepInv' /\ OrderInv'
  BY <1>1, <1>3 DEF SweepInv, OrderInv, Falling
<1> QED  BY <1>4, <1>5, <1>6, <1>7 DEF LifecycleInv

\* A hook is started before anything is stopped.
LEMMA StartHookStep == LifecycleInv /\ StartHook => LifecycleInv'
<1> SUFFICES ASSUME LifecycleInv, StartHook PROVE LifecycleInv'
  OBVIOUS
<1> DEFINE State == [started : BOOLEAN, stopped : BOOLEAN]
<1>1. /\ pc = "startHooks" /\ pc' = pc /\ next' = next + 1 /\ next <= Len(hooks)
      /\ hookStates' = [hookStates EXCEPT ![next].started = HasOnStart(hooks[next])]
      /\ UNCHANGED <<stage, hooks, stops, appStarted>>
  BY DEF StartHook, events
<1>2. /\ hookStates \in Seq(State) /\ Len(hookStates) = Len(hooks) /\ Len(hooks) \in Nat
      /\ next \in 0 .. Len(hooks) + 1 /\ DOMAIN hookStates = 1 .. Len(hooks)
  BY DEF LifecycleInv, HookTypes
<1>3. stops = <<>> /\ ~appStarted
  BY <1>1 DEF LifecycleInv, OrderInv, Rising
<1>4. /\ hookStates' \in Seq(State) /\ Len(hookStates') = Len(hooks)
      /\ \A i \in 1 .. Len(hooks) : hookStates'[i].stopped = hookStates[i].stopped
  <2>1. \A i \in 1 .. Len(hooks) : hookStates[i] \in State
    <3> HIDE DEF State
    <3> QED  BY <1>2, ElementOfSeq
  <2>2. HasOnStart(hooks[next]) \in BOOLEAN
    BY DEF HasOnStart
  <2>3. hookStates' = [i \in 1 .. Len(hooks) |->
            IF i = next THEN [hookStates[i] EXCEPT !.started = HasOnStart(hooks[next])]
                        ELSE hookStates[i]]
    BY <1>1, <1>2
  <2>4. \A i \in 1 .. Len(hooks) : hookStates'[i] \in State
                                   /\ hookStates'[i].stopped = hookStates[i].stopped
    BY <2>1, <2>2, <2>3
  <2>5. hookStates' \in [1 .. Len(hooks) -> State]
    BY <2>3, <2>4
  <2> QED  BY <1>2, <2>4, <2>5
<1>5. HookTypes'
  BY <1>1, <1>2, <1>4 DEF LifecycleInv, HookTypes
<1>6. HooksInv' /\ SweepInv'
  BY <1>1, <1>2 DEF LifecycleInv, HooksInv, SweepInv
<1>7. StopsInv'
  BY <1>1, <1>3, <1>4 DEF LifecycleInv, StopsInv
<1>8. OrderInv'
  BY <1>1, <1>3 DEF LifecycleInv, OrderInv, Falling
<1> QED  BY <1>5, <1>6, <1>7, <1>8 DEF LifecycleInv

\* OnStop is called on a hook that is not stopped yet.
LEMMA CallStep ==
    ASSUME LifecycleInv, Sweeping, NeedsStop(next), NEW ok \in BOOLEAN, CallOnStop(next, ok),
           next' = next - 1, UNCHANGED <<pc, stage, hooks, appStarted>>
    PROVE  LifecycleInv'
<1> DEFINE State == [started : BOOLEAN, stopped : BOOLEAN]
           Call  == [hook : HookNames, ok : BOOLEAN, phase : {"rollback", "stopHooks"}]
           call  == [hook |-> hooks[next], ok |-> ok, phase |-> pc]
           n     == Len(stops)
<1>1. pc \in {"rollback", "stopHooks"} /\ next \in 1 .. Len(hooks) /\ ~hookStates[next].stopped
  BY DEF Sweeping, NeedsStop, LifecycleInv, HookTypes, SweepInv
<1>2. /\ hooks \in Seq(HookNames) /\ stops \in Seq(Call) /\ Len(hooks) \in Nat /\ n \in Nat
      /\ hookStates \in Seq(State) /\ Len(hookStates) = Len(hooks)
      /\ DOMAIN hookStates = 1 .. Len(hooks)
  BY DEF LifecycleInv, HookTypes
<1>3. call \in Call /\ call.hook = hooks[next] /\ call.ok = ok /\ call.phase = pc
  BY <1>1, <1>2
<1>4. /\ stops' \in Seq(Call) /\ Len(stops') = n + 1 /\ stops'[n + 1] = call
      /\ \A j \in 1 .. n : stops'[j] = stops[j]
  <2>1. stops' = Append(stops, call)
    BY DEF CallOnStop
  <2> HIDE DEF call
  <2> QED  BY <1>2, <1>3, <2>1, AppendProperties
<1>5. /\ hookStates' \in Seq(State) /\ Len(hookStates') = Len(hooks)
      /\ \A i \in 1 .. Len(hooks) : i # next => hookStates'[i] = hookStates[i]
      /\ hookStates'[next].stopped = ok /\ hookStates'[next].started = hookStates[next].started
  <2>1. hookStates' = [hookStates EXCEPT ![next].stopped = ok]
    BY DEF CallOnStop
  <2>2. \A i \in 1 .. Len(hooks) : hookStates[i] \in State
    <3> HIDE DEF State
    <3> QED  BY <1>2, ElementOfSeq
  <2>3. hookStates' = [i \in 1 .. Len(hooks) |->
            IF i = next THEN [hookStates[i] EXCEPT !.stopped = ok] ELSE hookStates[i]]
    BY <1>2, <2>1
  <2>4. \A i \in 1 .. Len(hooks) : hookStates'[i] \in State
    BY <2>2, <2>3
  <2>5. hookStates' \in [1 .. Len(hooks) -> State]
    BY <2>3, <2>4
  <2> QED  BY <1>1, <1>2, <2>2, <2>3, <2>5
<1> HIDE DEF State, Call, call, n
<1>6. HookTypes'
  BY <1>1, <1>2, <1>4, <1>5 DEF LifecycleInv, HookTypes, State, Call
<1>7. HooksInv'
  BY DEF LifecycleInv, HooksInv
<1>8. \A j \in 1 .. n + 1 : j \in 1 .. n \/ j = n + 1
  BY <1>2
<1>9. \A i \in 1 .. Len(hooks) : hooks[i] = hooks[next] => i = next
  BY <1>1 DEF LifecycleInv, HooksInv
<1>10. \A j \in 1 .. n : stops[j].hook = hooks[next] => ~stops[j].ok
  BY <1>1 DEF LifecycleInv, StopsInv, n
<1>11. StopsInv'
  <2>1. ASSUME NEW j \in 1 .. n + 1 PROVE \E i \in 1 .. Len(hooks) : stops'[j].hook = hooks[i]
    <3>1. CASE j \in 1 .. n
      BY <1>4, <3>1 DEF LifecycleInv, StopsInv, n
    <3>2. CASE j = n + 1
      BY <1>1, <1>3, <1>4, <3>2
    <3> QED  BY <1>8, <3>1, <3>2
  <2>2. ASSUME NEW j \in 1 .. n + 1, NEW i \in 1 .. Len(hooks), stops'[j].ok,
               stops'[j].hook = hooks[i]
        PROVE  hookStates'[i].stopped
    <3>1. CASE j \in 1 .. n
      <4>1. hookStates[i].stopped /\ i # next
        BY <1>1, <1>4, <2>2, <3>1 DEF LifecycleInv, StopsInv, n
      <4> QED  BY <1>5, <4>1
    <3>2. CASE j = n + 1
      BY <1>3, <1>4, <1>5, <1>9, <2>2, <3>2
    <3> QED  BY <1>8, <3>1, <3>2
  <2>3. ASSUME NEW i \in 1 .. Len(hooks), hookStates'[i].stopped
        PROVE  \E j \in 1 .. n + 1 : stops'[j].ok /\ stops'[j].hook = hooks[i]
    <3>1. CASE i = next
      <4>1. n + 1 \in 1 .. n + 1
        BY <1>2
      <4> QED  BY <1>3, <1>4, <1>5, <2>3, <3>1, <4>1
    <3>2. CASE i # next
      <4>1. PICK j \in 1 .. n : stops[j].ok /\ stops[j].hook = hooks[i]
        BY <1>5, <2>3, <3>2 DEF LifecycleInv, StopsInv, n
      <4>2. j \in 1 .. n + 1
        BY <1>2
      <4> QED  BY <1>4, <4>1, <4>2
    <3> QED  BY <3>1, <3>2
  <2>4. ASSUME NEW j \in 1 .. n + 1, NEW k \in 1 .. n + 1, j < k, stops'[j].hook = stops'[k].hook
        PROVE  ~stops'[j].ok
    <3>1. j \in 1 .. n
      BY <1>2, <2>4
    <3>2. CASE k \in 1 .. n
      BY <1>4, <2>4, <3>1, <3>2 DEF LifecycleInv, StopsInv, n
    <3>3. CASE k = n + 1
      BY <1>3, <1>4, <1>10, <2>4, <3>1, <3>3
    <3> QED  BY <1>8, <3>2, <3>3
  <2> QED  BY <1>4, <2>1, <2>2, <2>3, <2>4 DEF StopsInv
<1>12. SweepInv'
  <2>1. ASSUME pc = "stopHooks", NEW i \in 1 .. Len(hooks), i > next - 1, Acquired(i)'
        PROVE  \E k \in 1 .. n + 1 :
                  stops'[k].hook = hooks[i] /\ (stops'[k].ok \/ stops'[k].phase = "stopHooks")
    <3>1. CASE i = next
      <4>1. n + 1 \in 1 .. n + 1
        BY <1>2
      <4> QED  BY <1>3, <1>4, <2>1, <3>1, <4>1
    <3>2. CASE i # next
      <4>1. i > next /\ Acquired(i)
        BY <1>1, <1>2, <1>5, <2>1, <3>2 DEF Acquired
      <4>2. PICK k \in 1 .. n :
                  stops[k].hook = hooks[i] /\ (stops[k].ok \/ stops[k].phase = "stopHooks")
        BY <2>1, <4>1 DEF LifecycleInv, SweepInv, n
      <4>3. k \in 1 .. n + 1
        BY <1>2
      <4> QED  BY <1>4, <4>2, <4>3
    <3> QED  BY <3>1, <3>2
  <2>2. next - 1 <= Len(hooks) /\ pc' # "exit"
    BY <1>1, <1>2
  <2> QED  BY <1>1, <1>4, <2>1, <2>2 DEF SweepInv
<1>13. OrderInv'
  <2>1. appStarted => pc = "stopHooks"
    BY <1>1 DEF LifecycleInv, OrderInv
  <2>2. ASSUME appStarted, NEW j \in 1 .. n + 1, NEW i \in 1 .. Len(hooks), stops'[j].hook = hooks[i]
        PROVE  i > next - 1 /\ (j # n + 1 => i > next) /\ (j = n + 1 => i = next)
    <3>1. CASE j \in 1 .. n
      <4>1. i > next
        BY <1>4, <2>1, <2>2, <3>1 DEF LifecycleInv, OrderInv, n
      <4> QED  BY <1>1, <1>2, <3>1, <4>1
    <3>2. CASE j = n + 1
      <4>1. i = next
        BY <1>3, <1>4, <1>9, <2>2, <3>2
      <4> QED  BY <1>1, <3>2, <4>1
    <3> QED  BY <1>8, <3>1, <3>2
  <2>3. ASSUME appStarted, NEW j \in 1 .. n + 1, NEW k \in 1 .. n + 1, NEW h \in 1 .. Len(hooks),
               NEW i \in 1 .. Len(hooks), j < k, stops'[j].hook = hooks[h], stops'[k].hook = hooks[i]
        PROVE  h > i
    <3>1. j \in 1 .. n
      BY <1>2, <2>3
    <3>2. CASE k \in 1 .. n
      BY <1>4, <2>3, <3>1, <3>2 DEF LifecycleInv, OrderInv, n
    <3>3. CASE k = n + 1
      <4>1. j # n + 1
        BY <1>2, <3>1
      <4>2. i = next /\ h > next
        BY <2>2, <2>3, <3>3, <4>1
      <4> QED  BY <4>2
    <3> QED  BY <1>8, <3>2, <3>3
  <2> QED  BY <1>1, <1>4, <2>1, <2>2, <2>3 DEF LifecycleInv, OrderInv, Rising, Falling
<1> QED  BY <1>6, <1>7, <1>11, <1>12, <1>13 DEF LifecycleInv

\* A hook that needs no call is passed over.
LEMMA PassStep ==
    ASSUME LifecycleInv, Sweeping, ~NeedsStop(next), next' = next - 1,
           UNCHANGED <<pc, stage, hooks, hookStates, stops, appStarted>>
    PROVE  LifecycleInv'
<1>1. pc \in {"rollback", "stopHooks"} /\ next \in 1 .. Len(hooks) /\ Len(hooks) \in Nat
  BY DEF Sweeping, LifecycleInv, HookTypes, SweepInv
<1>2. HookTypes' /\ HooksInv' /\ StopsInv'
  BY <1>1 DEF LifecycleInv, HookTypes, HooksInv, StopsInv
<1>3. SweepInv'
  <2>1. ASSUME pc = "stopHooks", NEW i \in 1 .. Len(hooks), i > next - 1, Acquired(i)
        PROVE  \E k \in 1 .. Len(stops) :
                  stops[k].hook = hooks[i] /\ (stops[k].ok \/ stops[k].phase = "stopHooks")
    <3>1. CASE i = next
      <4>1. hookStates[i].stopped
        BY <2>1, <3>1 DEF NeedsStop, Acquired
      <4> QED  BY <4>1 DEF LifecycleInv, StopsInv
    <3>2. CASE i # next
      <4>1. i > next
        BY <1>1, <2>1, <3>2
      <4> QED  BY <2>1, <4>1 DEF LifecycleInv, SweepInv
    <3> QED  BY <3>1, <3>2
  <2>2. next - 1 <= Len(hooks) /\ pc' \notin {"exit", "startHooks"}
    BY <1>1
  <2> QED  BY <1>1, <2>1, <2>2 DEF SweepInv, Acquired
<1>4. OrderInv'
  <2>1. \A i \in 1 .. Len(hooks) : i > next => i > next - 1
    BY <1>1
  <2> QED  BY <1>1, <2>1 DEF LifecycleInv, OrderInv, Rising, Falling
<1> QED  BY <1>2, <1>3, <1>4 DEF LifecycleInv

\* The bus is wired and open when the application comes up.
LEMMA StartupStep == LifecycleInv /\ logStartup => LifecycleInv'
<1> SUFFICES ASSUME LifecycleInv, logStartup PROVE LifecycleInv'
  OBVIOUS
<1>1. /\ pc = "logStartup" /\ pc' = (IF BusOpen THEN "startTCP" ELSE "shutHTTP")
      /\ appStarted' = BusOpen
      /\ UNCHANGED <<stage, next, hooks, hookStates, stops>>
  BY DEF logStartup, lifecycle
<1>2. stops = <<>> /\ ~appStarted
  BY <1>1 DEF LifecycleInv, OrderInv, Rising
<1>3. appStarted' => \E i \in 1 .. Len(hooks) : hooks[i] = "event_bus"
  <2>1. DOMAIN hooks = 1 .. Len(hooks)
    BY DEF LifecycleInv, HookTypes
  <2> QED  BY <1>1, <2>1 DEF BusOpen
<1>4. HookTypes' /\ HooksInv' /\ StopsInv'
  BY <1>1 DEF LifecycleInv, HookTypes, HooksInv, StopsInv
<1>5. SweepInv'
  BY <1>1 DEF SweepInv
<1>6. OrderInv'
  BY <1>1, <1>2, <1>3 DEF OrderInv, Rising, Falling
<1> QED  BY <1>4, <1>5, <1>6 DEF LifecycleInv

\* Every step keeps it.
LEMMA LifecycleStep == LifecycleInv /\ [Next]_vars => LifecycleInv'
<1> SUFFICES ASSUME LifecycleInv, [Next]_vars PROVE LifecycleInv'
  OBVIOUS
<1>1. stage \in 1 .. 11 /\ Len(Stages) = 10 /\ next \in 0 .. Len(hooks) + 1 /\ Len(hooks) \in Nat
  BY StagesApart DEF LifecycleInv, HookTypes
<1>2. CASE Wire
  <2>1. ASSUME stage' = stage + 1, stage <= 10, UNCHANGED <<pc, hooks, hookStates, stops, next, appStarted>>
        PROVE  LifecycleInv'
    BY <1>1, <2>1, MoveStep DEF Moves
  <2>2. CASE \E s \in Optional : WireDisabled(s)
    BY <1>1, <2>1, <2>2 DEF WireDisabled, Wiring, lifecycle, events
  <2>3. CASE \E s \in HookNames : WireHooked(s)
    <3>1. PICK s \in HookNames : WireHooked(s)
      BY <2>3
    <3>2. Registers(s) = s
      BY DEF Registers, HookNames
    <3>3. Wiring(s) /\ addHook(s) /\ stage' = stage + 1 /\ UNCHANGED <<pc, next, stops, appStarted>>
      BY <3>1 DEF WireHooked, events
    <3> QED  BY <3>2, <3>3, RegisterStep
  <2>4. CASE WireLogger
    BY <1>1, <2>1, <2>4 DEF WireLogger, Wiring, lifecycle, events
  <2>5. CASE wireHTTP
    BY <1>1, <2>1, <2>5 DEF wireHTTP, Wiring, lifecycle, events
  <2>6. CASE wireTCP
    <3>1. Registers("tcp") = "chat_handler" /\ "chat_handler" \in HookNames
      BY DEF Registers, HookNames
    <3>2. Wiring("tcp") /\ addHook("chat_handler") /\ stage' = stage + 1
          /\ UNCHANGED <<pc, next, stops, appStarted>>
      BY <2>6 DEF wireTCP, events
    <3> QED  BY <3>1, <3>2, RegisterStep
  <2>7. CASE wireUDP
    BY <1>1, <2>1, <2>7 DEF wireUDP, Wiring, lifecycle, events
  <2>8. CASE \E s \in Fallible : WireFails(s)
    <3>1. pc = "wire" /\ pc' = "shutHTTP" /\ UNCHANGED <<stage, hooks, hookStates, stops, next, appStarted>>
      BY <2>8 DEF WireFails, Wiring, lifecycle, events
    <3> QED  BY <1>1, <3>1, MoveStep DEF Moves, Rising, Falling, Early
  <2> QED  BY <1>2, <2>2, <2>3, <2>4, <2>5, <2>6, <2>7, <2>8 DEF Wire
<1> DEFINE Kept == UNCHANGED <<stage, hooks, hookStates, stops, appStarted>>
<1>3. ASSUME Kept, Moves, next' \in 0 .. Len(hooks) + 1 PROVE LifecycleInv'
  BY <1>1, <1>3, MoveStep
<1> USE DEF lifecycle, events
<1>4. CASE Start
  <2>1. CASE RunBegin
    <3>1. Kept /\ Moves /\ next' = 1
      BY <2>1 DEF RunBegin, Moves, Rising, Falling, Early
    <3> QED  BY <1>1, <1>3, <3>1
  <2>2. CASE StartHook
    BY <2>2, StartHookStep
  <2>3. CASE StartHookFails
    <3>1. pc = "startHooks" /\ pc' = "rollback" /\ next <= Len(hooks) /\ next' = next - 1 /\ Kept
      BY <2>3 DEF StartHookFails
    <3>2. next > 0
      BY <3>1 DEF LifecycleInv, SweepInv
    <3>3. next' <= Len(hooks) /\ next' \in 0 .. Len(hooks) + 1
      BY <1>1, <3>1, <3>2
    <3> QED  BY <1>3, <3>1, <3>3 DEF Moves
  <2>4. CASE StartHooksDone
    <3>1. Kept /\ Moves /\ next' = next
      BY <2>4 DEF StartHooksDone, Moves, Rising, Falling, Early
    <3> QED  BY <1>1, <1>3, <3>1
  <2>5. CASE logStartup
    BY <2>5, StartupStep
  <2>6. CASE StartTCP \/ StartTCPFails \/ StartUDP \/ StartUDPFails \/ UndoTCP \/ ServeHTTP
    <3>1. Kept /\ next' = next
      BY <2>6 DEF StartTCP, StartTCPFails, StartUDP, StartUDPFails, UndoTCP, ServeHTTP
    <3>2. Moves
      BY <2>6 DEF StartTCP, StartTCPFails, StartUDP, StartUDPFails, UndoTCP, ServeHTTP, Moves,
                  Rising, Falling, Early
    <3> QED  BY <1>1, <1>3, <3>1, <3>2
  <2> QED  BY <1>4, <2>1, <2>2, <2>3, <2>4, <2>5, <2>6 DEF Start
<1>5. CASE Stop
  <2>1. CASE WaitDone \/ ShutdownHTTP \/ StopTCP \/ StopUDP \/ RollbackDone \/ Return
    <3>1. Kept /\ next' = next
      BY <2>1 DEF WaitDone, ShutdownHTTP, StopTCP, StopUDP, RollbackDone, Return
    <3>2. Moves
      BY <2>1, <3>1 DEF WaitDone, ShutdownHTTP, StopTCP, StopUDP, RollbackDone, Return, Moves,
                        Rising, Falling, Early
    <3> QED  BY <1>1, <1>3, <3>1, <3>2
  <2>2. CASE PublishStopped
    <3>1. Kept /\ Moves /\ next' = Len(hooks)
      BY <2>2 DEF PublishStopped, Moves
    <3> QED  BY <1>1, <1>3, <3>1
  <2>3. CASE stopHookAt
    <3>1. Sweeping /\ next' = next - 1 /\ UNCHANGED <<pc, stage, hooks, appStarted>>
      BY <2>3 DEF stopHookAt
    <3>2. CASE NeedsStop(next)
      <4>1. PICK ok \in BOOLEAN : CallOnStop(next, ok)
        BY <2>3, <3>2 DEF stopHookAt
      <4> QED  BY <3>1, <3>2, <4>1, CallStep
    <3>3. CASE ~NeedsStop(next)
      <4>1. UNCHANGED <<stops, hookStates>>
        BY <2>3, <3>3 DEF stopHookAt
      <4> QED  BY <3>1, <3>3, <4>1, PassStep
    <3> QED  BY <3>2, <3>3
  <2> QED  BY <1>5, <2>1, <2>2, <2>3 DEF Stop
<1>6. CASE Http
  <2>1. Kept /\ next' = next /\ pc' = pc
    BY <1>6 DEF Http, HttpBinds, HttpServes, HttpErrs, HttpStoreFailed, HttpStop, HttpStep
  <2> QED  BY <1>1, <1>3, <2>1 DEF Moves
<1>7. CASE Signal
  <2>1. Kept /\ next' = next /\ pc' \in {pc, "killed"}
    BY <1>7 DEF Signal
  <2> QED  BY <1>1, <1>3, <2>1 DEF Moves
<1>8. CASE UNCHANGED vars
  <2>1. Kept /\ next' = next /\ pc' = pc
    BY <1>8 DEF vars
  <2> QED  BY <1>1, <1>3, <2>1 DEF Moves
<1> QED  BY <1>2, <1>4, <1>5, <1>6, <1>7, <1>8 DEF Next, Main, Terminated

\* It holds throughout.
THEOREM LifecycleInvariant == Spec => []LifecycleInv
<1>1. Init => LifecycleInv
  <2> SUFFICES ASSUME Init PROVE LifecycleInv
    OBVIOUS
  <2>1. /\ hooks = <<>> /\ hookStates = <<>> /\ stops = <<>> /\ Len(hooks) = 0 /\ Len(stops) = 0
        /\ stage = 1 /\ next = 1 /\ pc = "wire" /\ appStarted = FALSE
    BY DEF Init
  <2>2. HookTypes
    BY <2>1, StagesApart DEF HookTypes
  <2> QED  BY <2>1, <2>2 DEF LifecycleInv, HooksInv, StopsInv, SweepInv, OrderInv, Falling
<1> QED  BY <1>1, LifecycleStep, PTL DEF Spec

\* lifecycle.go 54-100: on every way out the acquired parts are stopped, none of
\* them twice, and in the reverse of their order when the application was up.
THEOREM StopsOnceInOrder == Spec => []StoppedOnceInOrder
<1>1. LifecycleInv => StoppedOnceInOrder
  <2> SUFFICES ASSUME LifecycleInv PROVE StoppedOnceInOrder
    OBVIOUS
  <2>1. DOMAIN stops = 1 .. Len(stops) /\ DOMAIN hooks = 1 .. Len(hooks)
    BY DEF LifecycleInv, HookTypes
  <2>2. NoDoubleStop
    BY <2>1 DEF LifecycleInv, StopsInv, NoDoubleStop
  <2>3. NothingLeaked
    <3>1. \A i \in 1 .. Len(hooks) : i > 0
      OBVIOUS
    <3> QED  BY <2>1, <3>1 DEF LifecycleInv, SweepInv, NothingLeaked, Acquired
  <2>4. StartedStopsLIFO
    <3>1. ASSUME NEW i \in 1 .. Len(hooks) PROVE Position(hooks[i]) = i
      BY <2>1 DEF Position, LifecycleInv, HooksInv
    <3>2. ASSUME appStarted, NEW j \in 1 .. Len(stops), NEW k \in 1 .. Len(stops), j < k
          PROVE  Position(stops[j].hook) > Position(stops[k].hook)
      <4>1. PICK h \in 1 .. Len(hooks) : stops[j].hook = hooks[h]
        BY DEF LifecycleInv, StopsInv
      <4>2. PICK i \in 1 .. Len(hooks) : stops[k].hook = hooks[i]
        BY DEF LifecycleInv, StopsInv
      <4>3. h > i
        BY <3>2, <4>1, <4>2 DEF LifecycleInv, OrderInv
      <4> QED  BY <3>1, <4>1, <4>2, <4>3
    <3> QED  BY <2>1, <3>2 DEF StartedStopsLIFO
  <2> QED  BY <2>2, <2>3, <2>4 DEF StoppedOnceInOrder
<1> QED  BY <1>1, LifecycleInvariant, PTL

----------------------------------------------------------------------------
(* The events.                                                             *)

EventsInv ==
    /\ ~appStarted => published = <<>>
    /\ appStarted /\ pc \in Rising \cup Falling => published = <<"app.started">>
    /\ appStarted /\ pc \in {"stopHooks", "exit"} => published = <<"app.started", "app.stopped">>

\* One event, then another.
LEMMA AppendOne == ASSUME NEW S, NEW a \in S, NEW b \in S PROVE Append(<<a>>, b) = <<a, b>>
<1> DEFINE one == <<a>>
           two == <<a, b>>
           both == Append(one, b)
<1>1. one \in Seq(S) /\ Len(one) = 1 /\ one[1] = a
  OBVIOUS
<1>2. two \in Seq(S) /\ Len(two) = 2 /\ two[1] = a /\ two[2] = b
  OBVIOUS
<1> HIDE DEF one, two
<1>3. both \in Seq(S)
  BY <1>1
<1>4. Len(both) = Len(one) + 1
  BY <1>1, AppendProperties
<1>5. both[1] = a
  BY <1>1
<1>6. both[Len(one) + 1] = b
  BY <1>1, AppendProperties
<1>7. Len(both) = 2 /\ both[2] = b
  BY <1>1, <1>4, <1>6
<1> HIDE DEF both
<1>8. \A i \in 1 .. Len(both) : both[i] = two[i]
  BY <1>2, <1>5, <1>7
<1>9. both = two
  BY <1>2, <1>3, <1>7, <1>8, SeqEqual
<1> QED  BY <1>9 DEF both, one, two

LEMMA BothEvents == Append(<<"app.started">>, "app.stopped") = <<"app.started", "app.stopped">>
<1> DEFINE S == {"app.started", "app.stopped"}
<1>1. "app.started" \in S /\ "app.stopped" \in S
  OBVIOUS
<1> HIDE DEF S
<1> QED  BY <1>1, AppendOne

\* Nothing has closed the bus when the end is to be published.
LEMMA BusStillOpen == LifecycleInv /\ appStarted /\ pc = "publishStopped" => BusOpen
<1> SUFFICES ASSUME LifecycleInv, appStarted, pc = "publishStopped" PROVE BusOpen
  OBVIOUS
<1>1. stops = <<>> /\ Len(stops) = 0
  BY DEF LifecycleInv, OrderInv, Falling
<1>2. DOMAIN hooks = 1 .. Len(hooks)
  BY DEF LifecycleInv, HookTypes
<1>3. PICK i \in 1 .. Len(hooks) : hooks[i] = "event_bus"
  BY DEF LifecycleInv, OrderInv
<1>4. ~hookStates[i].stopped
  BY <1>1 DEF LifecycleInv, StopsInv
<1> QED  BY <1>2, <1>3, <1>4 DEF BusOpen

\* Every step keeps it.
LEMMA EventsStep == LifecycleInv /\ EventsInv /\ [Next]_vars => EventsInv'
<1> SUFFICES ASSUME LifecycleInv, EventsInv, [Next]_vars PROVE EventsInv'
  OBVIOUS
<1>0. pc \in Early => ~appStarted
  BY DEF LifecycleInv, OrderInv, Early
<1> USE <1>0 DEF EventsInv, Early, Rising, Falling, Ended, process, servers, lifecycle, events
<1>1. CASE Wire
  <2>1. CASE \E s \in Optional : WireDisabled(s)
    BY <2>1 DEF WireDisabled, Wiring
  <2>2. CASE \E s \in HookNames : WireHooked(s)
    BY <2>2 DEF WireHooked, Wiring
  <2>3. CASE WireLogger
    BY <2>3 DEF WireLogger, Wiring
  <2>4. CASE wireHTTP
    BY <2>4 DEF wireHTTP, Wiring
  <2>5. CASE wireTCP
    BY <2>5 DEF wireTCP, Wiring
  <2>6. CASE wireUDP
    BY <2>6 DEF wireUDP, Wiring
  <2>7. CASE \E s \in Fallible : WireFails(s)
    BY <2>7 DEF WireFails, Wiring
  <2> QED  BY <1>1, <2>1, <2>2, <2>3, <2>4, <2>5, <2>6, <2>7 DEF Wire
<1>2. CASE Start
  <2>1. CASE RunBegin
    BY <2>1 DEF RunBegin
  <2>2. CASE StartHook
    BY <2>2 DEF StartHook
  <2>3. CASE StartHookFails
    BY <2>3 DEF StartHookFails
  <2>4. CASE StartHooksDone
    BY <2>4 DEF StartHooksDone
  <2>5. CASE logStartup
    BY <2>5 DEF logStartup, BusOpen
  <2>6. CASE StartTCP
    BY <2>6 DEF StartTCP
  <2>7. CASE StartTCPFails
    BY <2>7 DEF StartTCPFails, stop
  <2>8. CASE StartUDP
    BY <2>8 DEF StartUDP
  <2>9. CASE StartUDPFails
    BY <2>9 DEF StartUDPFails, stop
  <2>10. CASE UndoTCP
    BY <2>10 DEF UndoTCP, stop
  <2>11. CASE ServeHTTP
    BY <2>11 DEF ServeHTTP
  <2> QED  BY <1>2, <2>1, <2>2, <2>3, <2>4, <2>5, <2>6, <2>7, <2>8, <2>9, <2>10, <2>11 DEF Start
<1>3. CASE Stop
  <2>1. CASE WaitDone
    BY <2>1 DEF WaitDone
  <2>2. CASE ShutdownHTTP
    BY <2>2 DEF ShutdownHTTP
  <2>3. CASE StopTCP
    BY <2>3 DEF StopTCP
  <2>4. CASE StopUDP
    BY <2>4 DEF StopUDP
  <2>5. CASE PublishStopped
    <3>1. pc = "publishStopped" /\ pc' = "stopHooks" /\ appStarted' = appStarted
      BY <2>5 DEF PublishStopped
    <3>2. CASE appStarted
      <4>1. BusOpen
        BY <3>1, <3>2, BusStillOpen
      <4>2. published = <<"app.started">> /\ published' = Append(published, "app.stopped")
        BY <2>5, <3>1, <3>2, <4>1 DEF PublishStopped
      <4>3. published' = <<"app.started", "app.stopped">>
        BY <4>2, BothEvents, Zenon
      <4> QED  BY <3>1, <3>2, <4>3
    <3>3. CASE ~appStarted
      BY <2>5, <3>1, <3>3 DEF PublishStopped
    <3> QED  BY <3>2, <3>3
  <2>6. CASE stopHookAt
    BY <2>6 DEF stopHookAt, Sweeping
  <2>7. CASE RollbackDone
    BY <2>7 DEF RollbackDone
  <2>8. CASE Return
    BY <2>8 DEF Return
  <2> QED  BY <1>3, <2>1, <2>2, <2>3, <2>4, <2>5, <2>6, <2>7, <2>8 DEF Stop
<1>4. CASE Http
  <2>1. CASE HttpBinds
    BY <2>1 DEF HttpBinds, HttpStep
  <2>2. CASE HttpServes
    BY <2>2 DEF HttpServes, HttpStep
  <2>3. CASE HttpErrs
    BY <2>3 DEF HttpErrs, HttpStep
  <2>4. CASE HttpStoreFailed
    BY <2>4 DEF HttpStoreFailed, HttpStep
  <2>5. CASE HttpStop
    BY <2>5 DEF HttpStop, HttpStep, stop
  <2> QED  BY <1>4, <2>1, <2>2, <2>3, <2>4, <2>5 DEF Http
<1>5. CASE Signal
  BY <1>5 DEF Signal
<1>6. CASE UNCHANGED vars
  BY <1>6 DEF vars
<1> QED  BY <1>1, <1>2, <1>3, <1>4, <1>5, <1>6 DEF Next, Main, Terminated

\* app.go 92-96, 219-227: app.started and app.stopped are published both or
\* neither.
THEOREM EventsComeInPairs == Spec => []EventsPaired
<1>1. Init => EventsInv
  BY DEF Init, EventsInv, Rising, Falling
<1>2. EventsInv => EventsPaired
  BY DEF EventsInv, EventsPaired
<1> QED  BY <1>1, <1>2, LifecycleInvariant, EventsStep, PTL DEF Spec
=============================================================================
