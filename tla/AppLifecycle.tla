---------------------------- MODULE AppLifecycle ----------------------------
(***************************************************************************)
(* internal/app: New wires the application, Run starts the hooks and the   *)
(* servers and waits, shutdown stops everything.                           *)
(*                                                                         *)
(* Two goroutines run: the one that calls New and Run, whose place in the  *)
(* code is pc, and the one startServers spawns around HTTPServer.Serve,    *)
(* whose place is http.  Signals arrive at any time.  Every call that can  *)
(* fail has an action for its failure.  A configuration is the set of      *)
(* parts it enables, chosen in Init.                                       *)
(***************************************************************************)
EXTENDS Integers, Sequences

VARIABLES
    cfg,            \* the enabled parts
    pc,             \* the calling goroutine
    stage,          \* index of the next wiring stage
    hooks,          \* a.hooks, by name
    hookStates,     \* a.hookStates
    next,           \* loop index of startHooks, rollbackStartedHooks, stopHooks
    ctxDone,        \* Run's ctx is cancelled
    notified,       \* signal.NotifyContext catches signals
    httpFailed,     \* a.httpFailed
    appStarted,     \* a.appStarted
    http,           \* the goroutine around HTTPServer.Serve
    inShutdown,     \* net/http: Shutdown was called
    tcp, udp,       \* the two other servers
    failed,         \* New or Run has an error to return
    published,      \* history: lifecycle events the bus accepted
    stops,          \* history: calls of OnStop
    signalled       \* history: a signal arrived while it was caught

lifecycle == <<hooks, hookStates, next, stops>>
servers   == <<http, inShutdown, tcp, udp>>
process   == <<ctxDone, notified, signalled, httpFailed, failed>>
events    == <<appStarted, published>>
vars == <<cfg, pc, stage, lifecycle, servers, process, events>>

Optional == {"redis_client", "scheduler", "http", "tcp", "udp"}

\* The order of wireInfra, wireHTTP, wireTCP and wireUDP.
Stages == <<"logger", "database", "redis_client", "cache", "event_bus", "tracer",
            "scheduler", "http", "tcp", "udp">>

\* The stages whose constructors return errors.
Fallible == {"logger", "database", "redis_client", "cache", "tracer", "http"}

Servers == {"http", "tcp", "udp"}

HookNames == {"database", "redis_client", "cache", "event_bus", "tracer", "scheduler",
              "chat_handler"}

\* All hooks have an OnStop; only the scheduler's has an OnStart too.
HasOnStart(h) == h = "scheduler"

\* The hooks whose OnStop can return an error.
StopFallible == {"database", "redis_client", "tracer"}

Ended == {"exit", "killed"}

TypeOK ==
    /\ cfg \subseteq Optional
    /\ pc \in {"wire", "startHooks", "rollback", "logStartup", "startTCP", "startUDP", "undoTCP",
               "serveHTTP", "wait", "shutHTTP", "stopTCP", "stopUDP", "publishStopped",
               "stopHooks"} \cup Ended
    /\ stage \in 1 .. Len(Stages) + 1
    /\ hooks \in Seq(HookNames)
    /\ hookStates \in Seq([started : BOOLEAN, stopped : BOOLEAN])
    /\ Len(hookStates) = Len(hooks)
    /\ next \in 0 .. Len(hooks) + 1
    /\ {ctxDone, notified, signalled, httpFailed, failed, appStarted, inShutdown} \subseteq BOOLEAN
    /\ http \in {"nil", "off", "spawned", "binding", "serving", "draining", "closed", "errored",
                 "stored", "failed"}
    /\ tcp \in {"nil", "off", "listening", "draining", "stopped"}
    /\ udp \in {"nil", "off", "listening", "draining", "stopped"}
    /\ published \in Seq({"app.started", "app.stopped"})
    /\ stops \in Seq([hook : HookNames, ok : BOOLEAN, phase : {"rollback", "stopHooks"}])

Init ==
    /\ cfg \in SUBSET Optional
    /\ pc = "wire" /\ stage = 1
    /\ hooks = <<>> /\ hookStates = <<>> /\ next = 1 /\ stops = <<>>
    /\ http = "nil" /\ tcp = "nil" /\ udp = "nil" /\ inShutdown = FALSE
    /\ ctxDone = FALSE /\ notified = FALSE /\ signalled = FALSE
    /\ httpFailed = FALSE /\ failed = FALSE
    /\ appStarted = FALSE /\ published = <<>>

----------------------------------------------------------------------------
(* New.                                                                    *)

addHook(h) ==
    /\ hooks' = Append(hooks, h)
    /\ hookStates' = Append(hookStates, [started |-> FALSE, stopped |-> FALSE])

Enabled(s) == s \in Optional => s \in cfg

Wiring(s) == pc = "wire" /\ stage <= Len(Stages) /\ Stages[stage] = s

\* if !a.cfg.X.Enabled { return nil }
WireDisabled(s) ==
    /\ Wiring(s) /\ ~Enabled(s)
    /\ stage' = stage + 1
    /\ UNCHANGED <<cfg, pc, lifecycle, servers, process, events>>

\* A part of wireInfra that registers its hook once it is constructed.
WireHooked(s) ==
    /\ Wiring(s) /\ s \in HookNames /\ Enabled(s)
    /\ addHook(s)
    /\ stage' = stage + 1
    /\ UNCHANGED <<cfg, pc, next, stops, servers, process, events>>

WireLogger ==
    /\ Wiring("logger")
    /\ stage' = stage + 1
    /\ UNCHANGED <<cfg, pc, lifecycle, servers, process, events>>

wireHTTP ==
    /\ Wiring("http") /\ Enabled("http")
    /\ http' = "off"
    /\ stage' = stage + 1
    /\ UNCHANGED <<cfg, pc, lifecycle, inShutdown, tcp, udp, process, events>>

wireTCP ==
    /\ Wiring("tcp") /\ Enabled("tcp")
    /\ tcp' = "off"
    /\ addHook("chat_handler")
    /\ stage' = stage + 1
    /\ UNCHANGED <<cfg, pc, next, stops, http, inShutdown, udp, process, events>>

wireUDP ==
    /\ Wiring("udp") /\ Enabled("udp")
    /\ udp' = "off"
    /\ stage' = stage + 1
    /\ UNCHANGED <<cfg, pc, lifecycle, http, inShutdown, tcp, process, events>>

\* A constructor fails: New calls shutdownBestEffort and returns the error.
WireFails(s) ==
    /\ Wiring(s) /\ s \in Fallible /\ Enabled(s)
    /\ pc' = "shutHTTP"
    /\ failed' = TRUE
    /\ UNCHANGED <<cfg, stage, lifecycle, servers, ctxDone, notified, signalled, httpFailed, events>>

----------------------------------------------------------------------------
(* Run up to the wait.                                                     *)

RunBegin ==
    /\ pc = "wire" /\ stage = Len(Stages) + 1
    /\ pc' = "startHooks" /\ next' = 1
    /\ notified' = TRUE
    /\ UNCHANGED <<cfg, stage, hooks, hookStates, stops, servers, ctxDone, signalled, httpFailed,
                   failed, events>>

\* One turn of the loop of startHooks: no OnStart, or one that succeeds.
StartHook ==
    /\ pc = "startHooks" /\ next <= Len(hooks)
    /\ hookStates' = [hookStates EXCEPT ![next].started = HasOnStart(hooks[next])]
    /\ next' = next + 1
    /\ UNCHANGED <<cfg, pc, stage, hooks, stops, servers, process, events>>

\* OnStart fails: rollbackStartedHooks from the hook before it.
StartHookFails ==
    /\ pc = "startHooks" /\ next <= Len(hooks) /\ HasOnStart(hooks[next])
    /\ pc' = "rollback" /\ next' = next - 1
    /\ failed' = TRUE
    /\ UNCHANGED <<cfg, stage, hooks, hookStates, stops, servers, ctxDone, notified, signalled,
                   httpFailed, events>>

StartHooksDone ==
    /\ pc = "startHooks" /\ next > Len(hooks)
    /\ pc' = "logStartup"
    /\ UNCHANGED <<cfg, stage, lifecycle, servers, process, events>>

\* a.eventBus != nil, and Publish does not return ErrClosed.
BusWired == \E i \in DOMAIN hooks : hooks[i] = "event_bus"
BusOpen  == \E i \in DOMAIN hooks : hooks[i] = "event_bus" /\ ~hookStates[i].stopped

\* Mutant: appStarted is set nowhere before the servers run.
LogStartupOnly ==
    /\ pc = "logStartup"
    /\ published' = IF BusOpen THEN Append(published, "app.started") ELSE published
    /\ failed' = (failed \/ ~BusOpen)
    /\ pc' = IF BusOpen THEN "startTCP" ELSE "shutHTTP"
    /\ UNCHANGED <<cfg, stage, lifecycle, servers, ctxDone, notified, signalled, httpFailed,
                   appStarted>>

logStartup ==
    /\ pc = "logStartup"
    /\ published' = IF BusOpen THEN Append(published, "app.started") ELSE published
    /\ appStarted' = BusOpen
    /\ failed' = (failed \/ ~BusOpen)
    /\ pc' = IF BusOpen THEN "startTCP" ELSE "shutHTTP"
    /\ UNCHANGED <<cfg, stage, lifecycle, servers, ctxDone, notified, signalled, httpFailed>>

\* startServers: a server that is not wired is passed over.
StartTCP ==
    /\ pc = "startTCP"
    /\ tcp' = IF tcp = "off" THEN "listening" ELSE tcp
    /\ pc' = "startUDP"
    /\ UNCHANGED <<cfg, stage, lifecycle, http, inShutdown, udp, process, events>>

StartUDP ==
    /\ pc = "startUDP"
    /\ udp' = IF udp = "off" THEN "listening" ELSE udp
    /\ pc' = "serveHTTP"
    /\ UNCHANGED <<cfg, stage, lifecycle, http, inShutdown, tcp, process, events>>

\* stop() of Run: ctx is cancelled and signals are no longer caught.
stop == ctxDone' = TRUE /\ notified' = FALSE

\* startServers returns an error: Run calls stop and shutdownBestEffort.
StartTCPFails ==
    /\ pc = "startTCP" /\ tcp = "off"
    /\ stop
    /\ failed' = TRUE
    /\ pc' = "shutHTTP"
    /\ UNCHANGED <<cfg, stage, lifecycle, servers, signalled, httpFailed, events>>

\* With TCP up, it is stopped before startServers returns.
StartUDPFails ==
    /\ pc = "startUDP" /\ udp = "off"
    /\ IF tcp = "nil" THEN stop /\ pc' = "shutHTTP"
                      ELSE UNCHANGED <<ctxDone, notified>> /\ pc' = "undoTCP"
    /\ failed' = TRUE
    /\ UNCHANGED <<cfg, stage, lifecycle, servers, signalled, httpFailed, events>>

\* What TCPServer.Stop and UDPServer.Stop do: nothing when never started,
\* else the listener closes and the handlers end in time, or they do not.
Stopped(server, after, timedOut) ==
    \/ server \in {"nil", "off"} /\ after = server /\ ~timedOut
    \/ server \in {"listening", "draining", "stopped"} /\ after = "stopped" /\ ~timedOut
    \/ server \in {"listening", "draining"} /\ after = "draining" /\ timedOut

UndoTCP ==
    /\ pc = "undoTCP"
    /\ \E timedOut \in BOOLEAN : Stopped(tcp, tcp', timedOut)
    /\ stop
    /\ pc' = "shutHTTP"
    /\ UNCHANGED <<cfg, stage, lifecycle, http, inShutdown, udp, signalled, httpFailed, failed, events>>

\* go func() { ... Serve() ... }(), and Run waits on ctx.Done().
ServeHTTP ==
    /\ pc = "serveHTTP"
    /\ http' = IF http = "off" THEN "spawned" ELSE http
    /\ pc' = "wait"
    /\ UNCHANGED <<cfg, stage, lifecycle, inShutdown, tcp, udp, process, events>>

WaitDone ==
    /\ pc = "wait" /\ ctxDone
    /\ pc' = "shutHTTP"
    /\ UNCHANGED <<cfg, stage, lifecycle, servers, process, events>>

\* SIGINT or SIGTERM: caught it cancels ctx, not caught it ends the process.
Signal ==
    /\ pc \notin Ended
    /\ IF notified
       THEN /\ ctxDone' = TRUE /\ signalled' = TRUE
            /\ UNCHANGED pc
       ELSE pc' = "killed" /\ UNCHANGED <<ctxDone, signalled>>
    /\ UNCHANGED <<cfg, stage, lifecycle, servers, notified, httpFailed, failed, events>>

----------------------------------------------------------------------------
(* The goroutine around Serve.  net/http looks for a Shutdown before it    *)
(* binds and again before it accepts, and only then answers ErrServerClosed*)

HttpStep(from, to) ==
    /\ pc \notin Ended
    /\ http = from /\ http' = to
    /\ UNCHANGED <<cfg, pc, stage, lifecycle, inShutdown, tcp, udp, signalled, failed, events>>

HttpBinds ==
    /\ HttpStep("spawned", IF inShutdown THEN "closed" ELSE "binding")
    /\ UNCHANGED <<ctxDone, notified, httpFailed>>

HttpServes ==
    /\ HttpStep("binding", IF inShutdown THEN "closed" ELSE "serving")
    /\ UNCHANGED <<ctxDone, notified, httpFailed>>

\* The port is taken, or accepting fails: an error other than ErrServerClosed.
HttpErrs ==
    /\ HttpStep("binding", "errored") \/ HttpStep("serving", "errored")
    /\ UNCHANGED <<ctxDone, notified, httpFailed>>

\* Mutant: stop comes before the store.
HttpStopFirst ==
    /\ HttpStep("errored", "stored")
    /\ stop
    /\ UNCHANGED httpFailed

HttpStoreFailed ==
    /\ HttpStep("errored", "stored")
    /\ httpFailed' = TRUE
    /\ UNCHANGED <<ctxDone, notified>>

\* Mutant: the failure is recorded and nobody is told.
HttpNoStop ==
    /\ HttpStep("stored", "failed")
    /\ UNCHANGED <<ctxDone, notified, httpFailed>>

HttpStop ==
    /\ HttpStep("stored", "failed")
    /\ stop
    /\ UNCHANGED httpFailed

----------------------------------------------------------------------------
(* shutdown: no step's failure keeps the next one from running.            *)

\* Mutant: Shutdown is left out while the goroutine does not serve yet.
ShutdownServing ==
    /\ pc = "shutHTTP"
    /\ IF http = "serving" THEN http' = "closed" /\ inShutdown' = TRUE
                           ELSE UNCHANGED <<http, inShutdown>>
    /\ pc' = "stopTCP"
    /\ UNCHANGED <<cfg, stage, lifecycle, tcp, udp, process, events>>

ShutdownHTTP ==
    /\ pc = "shutHTTP"
    /\ inShutdown' = (http # "nil")
    /\ \E timedOut \in IF http = "serving" THEN BOOLEAN ELSE {FALSE} :
        /\ http' = IF http = "serving" THEN IF timedOut THEN "draining" ELSE "closed" ELSE http
        /\ failed' = (failed \/ timedOut)
    /\ pc' = "stopTCP"
    /\ UNCHANGED <<cfg, stage, lifecycle, tcp, udp, ctxDone, notified, signalled, httpFailed, events>>

StopTCP ==
    /\ pc = "stopTCP"
    /\ \E timedOut \in BOOLEAN : Stopped(tcp, tcp', timedOut) /\ failed' = (failed \/ timedOut)
    /\ pc' = "stopUDP"
    /\ UNCHANGED <<cfg, stage, lifecycle, http, inShutdown, udp, ctxDone, notified, signalled,
                   httpFailed, events>>

StopUDP ==
    /\ pc = "stopUDP"
    /\ \E timedOut \in BOOLEAN : Stopped(udp, udp', timedOut) /\ failed' = (failed \/ timedOut)
    /\ pc' = "publishStopped"
    /\ UNCHANGED <<cfg, stage, lifecycle, http, inShutdown, tcp, ctxDone, notified, signalled,
                   httpFailed, events>>

PublishStopped ==
    /\ pc = "publishStopped"
    /\ published' = IF appStarted /\ BusOpen THEN Append(published, "app.stopped") ELSE published
    /\ failed' = (failed \/ (appStarted /\ BusWired /\ ~BusOpen))
    /\ pc' = "stopHooks" /\ next' = Len(hooks)
    /\ UNCHANGED <<cfg, stage, hooks, hookStates, stops, servers, ctxDone, notified, signalled,
                   httpFailed, appStarted>>

Sweeping == pc \in {"rollback", "stopHooks"} /\ next > 0

\* Mutant: the stopped flag is not looked at.
NeedsStopAgain(i) == HasOnStart(hooks[i]) => hookStates[i].started

\* The early returns of stopHookAt.
NeedsStop(i) ==
    /\ ~hookStates[i].stopped
    /\ HasOnStart(hooks[i]) => hookStates[i].started

\* hook.OnStop and what stopHookAt makes of its answer.
CallOnStop(i, ok) ==
    /\ ok \/ hooks[i] \in StopFallible
    /\ stops' = Append(stops, [hook |-> hooks[i], ok |-> ok, phase |-> pc])
    /\ hookStates' = [hookStates EXCEPT ![i].stopped = ok]
    /\ failed' = (failed \/ ~ok)

\* One turn of rollbackStartedHooks or of stopHooks.
stopHookAt ==
    /\ Sweeping
    /\ IF NeedsStop(next) THEN \E ok \in BOOLEAN : CallOnStop(next, ok)
                          ELSE UNCHANGED <<stops, hookStates, failed>>
    /\ next' = next - 1
    /\ UNCHANGED <<cfg, pc, stage, hooks, servers, ctxDone, notified, signalled, httpFailed, events>>

RollbackDone ==
    /\ pc = "rollback" /\ next = 0
    /\ pc' = "shutHTTP"
    /\ UNCHANGED <<cfg, stage, lifecycle, servers, process, events>>

\* New or Run returns; httpFailed is read last, and Run's deferred stop runs.
Return ==
    /\ pc = "stopHooks" /\ next = 0
    /\ failed' = (failed \/ httpFailed)
    /\ notified' = FALSE
    /\ pc' = "exit"
    /\ UNCHANGED <<cfg, stage, lifecycle, servers, ctxDone, signalled, httpFailed, events>>

----------------------------------------------------------------------------
Wire ==
    \/ \E s \in Optional : WireDisabled(s)
    \/ \E s \in HookNames : WireHooked(s)
    \/ WireLogger \/ wireHTTP \/ wireTCP \/ wireUDP
    \/ \E s \in Fallible : WireFails(s)

Start ==
    \/ RunBegin \/ StartHook \/ StartHookFails \/ StartHooksDone \/ logStartup
    \/ StartTCP \/ StartTCPFails \/ StartUDP \/ StartUDPFails \/ UndoTCP \/ ServeHTTP

Stop ==
    \/ WaitDone \/ ShutdownHTTP \/ StopTCP \/ StopUDP \/ PublishStopped
    \/ stopHookAt \/ RollbackDone \/ Return

Main == Wire \/ Start \/ Stop

Http == HttpBinds \/ HttpServes \/ HttpErrs \/ HttpStoreFailed \/ HttpStop

Terminated == pc \in Ended /\ UNCHANGED vars

Next == Main \/ Http \/ Signal \/ Terminated

Spec == Init /\ [][Next]_vars

\* Both goroutines are scheduled and their calls return.  Nobody is obliged
\* to send a signal, and the HTTP server may serve for ever.
FairSpec == Spec /\ WF_vars(Main) /\ WF_vars(HttpBinds \/ HttpServes \/ HttpStoreFailed \/ HttpStop)

----------------------------------------------------------------------------
(* Properties.                                                             *)

\* OnStop is never called again on a hook it stopped, although a failed start
\* sweeps the hooks twice (the stopped flag, lifecycle.go 75-77, 98).
NoDoubleStop ==
    \A j, k \in DOMAIN stops : j < k /\ stops[j].hook = stops[k].hook => ~stops[j].ok

\* Whatever failed on the way, New and Run return only when every hook whose
\* part was acquired has been stopped, or its OnStop failed in the last sweep
\* (shutdown after every error path, app.go 60-115; lifecycle.go 64-72).
NothingLeaked ==
    pc = "exit" => \A i \in DOMAIN hooks :
        (HasOnStart(hooks[i]) => hookStates[i].started) =>
            \E k \in DOMAIN stops :
                stops[k].hook = hooks[i] /\ (stops[k].ok \/ stops[k].phase = "stopHooks")

Position(h) == CHOOSE i \in DOMAIN hooks : hooks[i] = h

\* An application that came up stops its hooks in the reverse of the order
\* in which they were registered, each once: the scheduler before the Redis
\* client it holds a lock through, the database last (lifecycle.go 64-72).
StartedStopsLIFO ==
    appStarted => \A j, k \in DOMAIN stops :
        j < k => Position(stops[j].hook) > Position(stops[k].hook)

\* All three: on every way out each acquired part is stopped exactly once, and in
\* the right order when the application had come up (lifecycle.go 54-100).
StoppedOnceInOrder == NoDoubleStop /\ NothingLeaked /\ StartedStopsLIFO

\* From the first OnStop on no server accepts: the servers of startServers
\* are shut first, and a Serve that is scheduled late does not come up
\* after the Shutdown it missed (app.go 158-167, 178-232).
ServersBeforeInfra ==
    stops # <<>> => http # "serving" /\ tcp # "listening" /\ udp # "listening"

\* The bus sees app.started and app.stopped both, in this order, or neither,
\* on every path to the end (appStarted, app.go 92-96, 219-227).
EventsPaired ==
    pc = "exit" => published \in {<<>>, <<"app.started", "app.stopped">>}

\* Run returns no error only to a signal: an HTTP failure that ends it is
\* reported (Store before stop, app.go 163-164, 111-113).
FailureReported == pc = "exit" /\ ~failed => signalled

\* A cancelled context, an error or a failed HTTP server ends the process,
\* whatever fails while it shuts down (app.go 99-115, 178-244).
ProcessEnds == ctxDone \/ failed \/ httpFailed ~> pc \in Ended

----------------------------------------------------------------------------
(* What the documentation says, and the code does not do.                  *)

\* lifecycle.go, "OnStop LIFO": when no OnStop fails, of two hooks that were
\* stopped the one registered last was stopped first.
StopsLIFO ==
    (\A k \in DOMAIN stops : stops[k].ok) =>
        \A j, k \in DOMAIN stops : j < k => Position(stops[j].hook) > Position(stops[k].hook)
============================================================================
