----------------------------- MODULE MCServices -----------------------------
(***************************************************************************)
(* Five components that share nothing, explored in one run: the lock, the  *)
(* goroutine limiter, the captcha, the migrations and the way of a request *)
(* to its handler.  A behaviour is one of a single component; the others   *)
(* stay as they start.                                                     *)
(***************************************************************************)
EXTENDS Locker, GoLimiter, Captcha, Migrate, HTTPEdge

VARIABLE on         \* the component this behaviour is of

allVars == <<lockVars, goVars, captchaVars, migrateVars, edgeVars, on>>

MCRPS == [global |-> 2, ip |-> 1, user |-> 1]

\* While the limiter is on all requests are of one client, with a token, and one of
\* them may be without; else they do not interact and one is enough, with everything
\* it may be.
MCConfigurations ==
    {c \in Confs : c.limit # "off" => c.jwt /\ ~ c.serviceKey /\ c.skip = {}}
MCOffered ==
    LET one == CHOOSE r \in Requests : TRUE
        limited == (Requests \X {<<"client", "access", FALSE>>})
                   \cup ({one} \X {<<"client", "none", FALSE>>, <<"system", "none", FALSE>>}) IN
    [l \in Limiters |->
        IF l = "off" THEN {c \in HTTPCalls : c[1] = one}
        ELSE {c \in HTTPCalls : <<c[1], <<c[2], c[3], c[4]>>>> \in limited}]

Init ==
    /\ on \in {"lock", "go", "captcha", "migrate", "edge"}
    /\ LockInit /\ (on # "lock" => backend = "memory")
    /\ GoInit
    /\ CaptchaInit /\ (on # "captcha" => driver = "memory")
    /\ MigrateInit
    /\ EdgeInit
    /\ on # "edge" => conf = [jwt |-> FALSE, serviceKey |-> FALSE, skip |-> {}, limit |-> "off"]

LockOn == on = "lock" /\ LockNext /\ UNCHANGED <<goVars, captchaVars, migrateVars, edgeVars, on>>
GoOn == on = "go" /\ GoNext /\ UNCHANGED <<lockVars, captchaVars, migrateVars, edgeVars, on>>
CaptchaOn == on = "captcha" /\ CaptchaNext /\ UNCHANGED <<lockVars, goVars, migrateVars, edgeVars, on>>
MigrateOn == on = "migrate" /\ MigrateNext /\ UNCHANGED <<lockVars, goVars, captchaVars, edgeVars, on>>
EdgeOn == on = "edge" /\ EdgeNext /\ UNCHANGED <<lockVars, goVars, captchaVars, migrateVars, on>>

Next == LockOn \/ GoOn \/ CaptchaOn \/ MigrateOn \/ EdgeOn

Spec == Init /\ [][Next]_allVars /\ GoFairness
=============================================================================
