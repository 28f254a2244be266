------------------------------- MODULE Config -------------------------------
(***************************************************************************)
(* internal/config and the commands that use it: LoadWithMeta layers the   *)
(* defaults, the primary file, the overlay, the dotenv files and the       *)
(* process environment; Validate accepts or refuses the result; app.New    *)
(* wires the components it asks for.                                       *)
(***************************************************************************)
EXTENDS Integers, Sequences, SequencesExt, FiniteSets

CONSTANTS
    MaxEdits,       \* bound: keys the primary file sets to other than the default
    MaxDotenv       \* bound: dotenv files that exist

VARIABLES
    launch,         \* flags, environment and files the process is started with
    load,           \* where the command is and what LoadWithMeta has found out
    cfg,            \* the configuration, as far as it is read
    edits           \* keys set so far

configVars == <<launch, load, cfg, edits>>

None == <<"none", "none">>
File(dir, name) == <<dir, name>>
Files == {File("configs", "config"), File("configs", "config.prod"),
          File("cwd", "config"), File("cwd", "config.prod"), File("cwd", "other")}
OverlayOf == [prod |-> "config.prod", test |-> "config.test"]

\* The keys Validate or the wiring looks at, and the values that tell them
\* apart.  A secret is represented by the layer it comes from.
Domain ==
    [Name |-> {"", "app"}, Env |-> {"", "dev", "prod", "test", "other"},
     LogLevel |-> {"info", "bad"}, LogFormat |-> {"json", "bad"},
     LogOutput |-> {"stdout", "file", "bad"}, LogFilename |-> {"", "app.log"},
     HTTPEnabled |-> BOOLEAN, HTTPPort |-> {0, 1, 65535, 65536},
     TLSEnabled |-> BOOLEAN, CertFile |-> {"", "crt"}, KeyFile |-> {"", "key"},
     MinVersion |-> {"1.2", "1.3", "bad"},
     Driver |-> {"", "sqlite", "mysql", "postgres", "bad"}, DBHost |-> {"", "db"},
     Database |-> {"", "app.db"}, SSLMode |-> {"", "require", "bad"},
     RedisEnabled |-> BOOLEAN, RedisHost |-> {"", "redis"},
     Secret |-> {"", "short", "base", "overlay", "dotenv1", "dotenv2", "dotenv3", "dotenv4", "process"},
     RateEnabled |-> BOOLEAN, RateStore |-> {"", "memory", "redis", "bad"},
     CacheEnabled |-> BOOLEAN, CacheDriver |-> {"", "memory", "redis", "multi", "bad"},
     NumCounters |-> {0, 1}, MaxCost |-> {0, 1}, BufferItems |-> {0, 1},
     TCPEnabled |-> BOOLEAN, TCPPort |-> {0, 1, 65535, 65536}, MaxConnections |-> {0, 1},
     MaxTimeoutCount |-> {-1, 0}, HeartbeatInterval |-> {0, 1}, TCPCodec |-> {"json", "bad"},
     UDPEnabled |-> BOOLEAN, UDPPort |-> {0, 1, 65535, 65536}, WorkerPoolSize |-> {0, 1},
     CleanupInterval |-> {-1, 0}, InactiveThreshold |-> {-1, 0}, UDPCodec |-> {"json", "bad"},
     TracingEnabled |-> BOOLEAN, Endpoint |-> {"", "otlp"}, SampleRate |-> {-1, 0, 1, 2},
     MetricsEnabled |-> BOOLEAN, MetricsPath |-> {"", "/metrics", "metrics"}]

setDefaults ==
    [Name |-> "app", Env |-> "dev", LogLevel |-> "info", LogFormat |-> "json",
     LogOutput |-> "stdout", LogFilename |-> "app.log",
     HTTPEnabled |-> TRUE, HTTPPort |-> 1, TLSEnabled |-> FALSE, CertFile |-> "",
     KeyFile |-> "", MinVersion |-> "1.3", Driver |-> "sqlite", DBHost |-> "",
     Database |-> "", SSLMode |-> "", RedisEnabled |-> FALSE, RedisHost |-> "redis",
     Secret |-> "", RateEnabled |-> FALSE, RateStore |-> "memory",
     CacheEnabled |-> FALSE, CacheDriver |-> "memory", NumCounters |-> 1,
     MaxCost |-> 1, BufferItems |-> 1, TCPEnabled |-> FALSE, TCPPort |-> 1,
     MaxConnections |-> 1, MaxTimeoutCount |-> 0, HeartbeatInterval |-> 1,
     TCPCodec |-> "json", UDPEnabled |-> FALSE, UDPPort |-> 1, WorkerPoolSize |-> 1,
     CleanupInterval |-> 0, InactiveThreshold |-> 0, UDPCodec |-> "json",
     TracingEnabled |-> FALSE, Endpoint |-> "", SampleRate |-> 1,
     MetricsEnabled |-> FALSE, MetricsPath |-> "/metrics"]

ConfigTypeOK ==
    /\ \A f \in DOMAIN Domain : cfg[f] \in Domain[f]
    /\ edits \in 0 .. MaxEdits
    /\ load.base \in Files \cup {None} /\ load.overlay \in Files \cup {None}
    /\ load.at \in {"edit", "dotenv", "base", "overlay", "resolve", "validate", "wire",
                    "running", "load_failed", "refused", "wire_failed"}

\* There is no default for the database.
SampleDatabase == [setDefaults EXCEPT !.Database = "app.db"]

Start ==
    [at |-> "edit", overlayEnv |-> "", base |-> None, named |-> FALSE, overlay |-> None,
     reported |-> None, plain |-> "default", process |-> ""]

ConfigInit ==
    /\ cfg = SampleDatabase /\ load = Start
    /\ launch \in [flag : {"", "prod", "test"}, appEnv : {"", "prod"},
                   path : {None, File("configs", "config"), File("cwd", "other")},
                   file : [Files -> {"absent", "empty", "full", "broken"}],
                   dotenv : {D \in SUBSET (1 .. 4) : Cardinality(D) <= MaxDotenv},
                   secret : {"unset", "empty", "set"}]
    /\ launch.flag = "test" <=> launch.flag # "" /\ launch.appEnv # ""
    /\ launch.file[File("cwd", "other")] # "absent" => launch.path = File("cwd", "other")
    /\ LET broken == {f \in Files : launch.file[f] = "broken"} IN
        broken # {} => Cardinality(broken) = 1 /\ launch.dotenv = {} /\ launch.secret = "unset"
    /\ \/ edits = MaxEdits
       \/ /\ edits = 0
          /\ launch.appEnv = "" /\ launch.secret = "unset" /\ launch.dotenv = {}
          /\ launch.path = File("configs", "config")
          /\ launch.file = [f \in Files |-> IF f = launch.path THEN "empty" ELSE "absent"]

At(label) == load.at = label
Exists(f) == f \in Files /\ launch.file[f] # "absent"
Fails(outcome) == load' = [load EXCEPT !.at = outcome] /\ UNCHANGED <<launch, cfg, edits>>

\* What else the primary file says.
Edit(f, v) ==
    /\ At("edit") /\ edits < MaxEdits
    /\ cfg[f] # v /\ (f = "Secret" => v \in {"short", "base"})
    /\ cfg' = [cfg EXCEPT ![f] = v]
    /\ edits' = edits + 1
    /\ UNCHANGED <<launch, load>>

----------------------------------------------------------------------------
(* LoadWithMeta.                                                           *)

SelectOverlay ==
    /\ At("edit")
    /\ load' = [load EXCEPT
                 !.at = "dotenv",
                 !.overlayEnv = IF launch.flag # "" THEN launch.flag ELSE launch.appEnv]
    /\ UNCHANGED <<launch, cfg, edits>>

Dotenvs == <<"dotenv1", "dotenv2", "dotenv3", "dotenv4">>

\* Mutant: a later file overrides an earlier one.
loadDotenvFilesOverload ==
    /\ At("dotenv")
    /\ LET found == launch.dotenv \ (IF load.overlayEnv = "" THEN {1, 2} ELSE {}) IN
        load' = [load EXCEPT
                  !.at = "base",
                  !.process = CASE launch.secret = "set" -> "process"
                                [] launch.secret = "unset" /\ found # {} -> Dotenvs[Max(found)]
                                [] OTHER -> ""]
    /\ UNCHANGED <<launch, cfg, edits>>

\* .env.<env> and ./configs/.env.<env>, if an overlay is selected, then .env and
\* ./configs/.env; a variable that is set, to nothing even, is left alone.
loadDotenvFiles ==
    /\ At("dotenv")
    /\ LET found == launch.dotenv \ (IF load.overlayEnv = "" THEN {1, 2} ELSE {}) IN
        load' = [load EXCEPT
                  !.at = "base",
                  !.process = CASE launch.secret = "set" -> "process"
                                [] launch.secret = "unset" /\ found # {} -> Dotenvs[Min(found)]
                                [] OTHER -> ""]
    /\ UNCHANGED <<launch, cfg, edits>>

\* viper: the first of the directories that has the file.
Search(dirs, name) ==
    LET hits == {i \in DOMAIN dirs : Exists(File(dirs[i], name))} IN
    IF hits = {} THEN None ELSE File(dirs[Min(hits)], name)

Primary == IF launch.path # None THEN launch.path ELSE Search(<<"configs", "cwd">>, "config")

ReadPrimary ==
    /\ At("base") /\ Exists(Primary) /\ launch.file[Primary] # "broken"
    /\ load' = [load EXCEPT !.at = "overlay", !.base = Primary, !.named = (Primary[2] = "config"),
                            !.plain = IF launch.file[Primary] = "full" THEN "base" ELSE @]
    /\ cfg' = IF launch.file[Primary] = "full"
              THEN [cfg EXCEPT !.Env = "test", !.Secret = "base"] ELSE cfg
    /\ UNCHANGED <<launch, edits>>

\* Only a file that was asked for by name has to be there.
ReadPrimaryFails ==
    /\ At("base")
    /\ \/ launch.path # None /\ ~ Exists(Primary)
       \/ Exists(Primary) /\ launch.file[Primary] = "broken"
    /\ Fails("load_failed")

ReadNone ==
    /\ At("base") /\ Primary = None
    /\ load' = [load EXCEPT !.at = "overlay"]
    /\ UNCHANGED <<launch, cfg, edits>>

\* Stat looks beside the primary file.
Sibling ==
    IF load.overlayEnv = "" \/ ~ load.named THEN None
    ELSE File(load.base[1], OverlayOf[load.overlayEnv])

\* MergeInConfig searches the directories that were added, in that order.
Overlay ==
    Search(IF launch.path # None THEN <<load.base[1]>> ELSE <<"configs", "cwd", load.base[1]>>,
           OverlayOf[load.overlayEnv])

MergeOverlay ==
    /\ At("overlay") /\ Exists(Sibling) /\ launch.file[Overlay] # "broken"
    /\ load' = [load EXCEPT !.at = "resolve", !.overlay = Overlay, !.reported = Sibling,
                            !.plain = IF launch.file[Overlay] = "full" THEN "overlay" ELSE @]
    /\ cfg' = IF launch.file[Overlay] = "full" THEN [cfg EXCEPT !.Secret = "overlay"] ELSE cfg
    /\ UNCHANGED <<launch, edits>>

MergeOverlayFails ==
    /\ At("overlay") /\ Exists(Sibling) /\ launch.file[Overlay] = "broken"
    /\ Fails("load_failed")

NoOverlay ==
    /\ At("overlay") /\ ~ Exists(Sibling)
    /\ load' = [load EXCEPT !.at = "resolve"]
    /\ UNCHANGED <<launch, cfg, edits>>

\* Mutant: app.env keeps what the files say.
ResolveYAML ==
    /\ At("resolve")
    /\ load' = [load EXCEPT !.at = "validate"]
    /\ cfg' = [cfg EXCEPT
                !.Secret = IF load.process # "" THEN load.process ELSE @,
                !.Env = IF @ # "" THEN @ ELSE "dev"]
    /\ UNCHANGED <<launch, edits>>

\* Unmarshal: a bound variable that is not empty wins over the files.
Resolve ==
    /\ At("resolve")
    /\ load' = [load EXCEPT !.at = "validate"]
    /\ cfg' = [cfg EXCEPT
                !.Secret = IF load.process # "" THEN load.process ELSE @,
                !.Env = IF load.overlayEnv # "" THEN load.overlayEnv
                        ELSE IF @ # "" THEN @ ELSE "dev"]
    /\ UNCHANGED <<launch, edits>>

----------------------------------------------------------------------------
(* Validate and the wiring.                                                *)

OneOf(value, allowed) == value \in allowed \cup {""}
PortOK(p) == p \in 1 .. 65535

validateEnums(c) ==
    /\ OneOf(c.Env, {"dev", "prod", "test"})
    /\ c.LogLevel # "bad" /\ c.LogFormat # "bad" /\ c.LogOutput # "bad"
    /\ c.LogOutput = "file" => c.LogFilename # ""
    /\ OneOf(c.Driver, {"sqlite", "mysql", "postgres"})
    /\ c.Driver = "postgres" => OneOf(c.SSLMode, {"require"})
    /\ OneOf(c.MinVersion, {"1.2", "1.3"})
    /\ c.RateEnabled => OneOf(c.RateStore, {"memory", "redis"})
    /\ c.CacheEnabled => OneOf(c.CacheDriver, {"memory", "redis", "multi"})
    /\ c.TCPEnabled => OneOf(c.TCPCodec, {"json"})
    /\ c.UDPEnabled => OneOf(c.UDPCodec, {"json"})

Validate(c) ==
    /\ c.Name # ""
    /\ validateEnums(c)
    /\ c.HTTPEnabled => PortOK(c.HTTPPort)
    /\ c.Driver # "" /\ c.Database # ""
    /\ c.Driver # "sqlite" => c.DBHost # ""
    /\ c.RedisEnabled => c.RedisHost # ""
    /\ c.Secret # "short"
    /\ c.Env = "prod" => c.Secret # ""
    /\ c.RateEnabled /\ c.RateStore = "redis" => c.RedisEnabled
    /\ c.TLSEnabled => c.CertFile # "" /\ c.KeyFile # ""
    /\ c.TCPEnabled => PortOK(c.TCPPort) /\ c.MaxConnections > 0 /\ c.MaxTimeoutCount >= 0
    /\ c.UDPEnabled => /\ PortOK(c.UDPPort) /\ c.WorkerPoolSize > 0
                       /\ c.CleanupInterval >= 0 /\ c.InactiveThreshold >= 0
    /\ c.CacheEnabled =>
        /\ c.CacheDriver \in {"redis", "multi"} => c.RedisEnabled
        /\ c.CacheDriver \in {"memory", "multi"} => c.NumCounters > 0 /\ c.MaxCost > 0
    /\ c.TracingEnabled => c.Endpoint # "" /\ c.SampleRate \in 0 .. 1
    /\ c.MetricsEnabled => c.MetricsPath = "/metrics"

Accept ==
    /\ At("validate") /\ Validate(cfg)
    /\ load' = [load EXCEPT !.at = "wire"]
    /\ UNCHANGED <<launch, cfg, edits>>

Refuse == At("validate") /\ ~ Validate(cfg) /\ Fails("refused")

\* Factory.Create and, below it, ristretto.NewCache return an error.
CacheFails(c) ==
    /\ c.CacheEnabled
    /\ \/ c.CacheDriver \notin {"memory", "redis", "multi"}
       \/ c.CacheDriver # "redis" /\ 0 \in {c.NumCounters, c.MaxCost, c.BufferItems}

RedisClient(c) == c.RedisEnabled
RequireAdminAuth(c) == c.HTTPEnabled /\ c.Secret # ""
LimiterStore(c) == IF c.RateStore = "redis" /\ RedisClient(c) THEN "redis" ELSE "memory"

Wire ==
    /\ At("wire") /\ ~ CacheFails(cfg)
    /\ load' = [load EXCEPT !.at = "running"]
    /\ UNCHANGED <<launch, cfg, edits>>

WireFails == At("wire") /\ CacheFails(cfg) /\ Fails("wire_failed")

ConfigNext ==
    \/ \E f \in DOMAIN Domain : \E v \in Domain[f] : Edit(f, v)
    \/ SelectOverlay \/ loadDotenvFiles
    \/ ReadPrimary \/ ReadPrimaryFails \/ ReadNone
    \/ MergeOverlay \/ MergeOverlayFails \/ NoOverlay \/ Resolve
    \/ Accept \/ Refuse \/ Wire \/ WireFails

ConfigSpec == ConfigInit /\ [][ConfigNext]_configVars

----------------------------------------------------------------------------
(* Properties.                                                             *)

Loaded == load.at \in {"validate", "wire", "running", "refused", "wire_failed"}

\* README, "Configuration Priority": a secret comes from the process, else from
\* the first dotenv file that exists, else from the overlay, else from the
\* primary file, whichever of the files exist and whatever they hold; other
\* keys from the last three (config.go 280-365, 577-604).
PriorityHolds ==
    Loaded /\ edits = MaxEdits /\ cfg.Secret # "short" =>
        LET dotenv == {i \in launch.dotenv : load.overlayEnv # "" \/ i > 2}
            says(f) == f # None /\ launch.file[f] = "full"
            file == CASE says(load.overlay) -> "overlay"
                      [] ~ says(load.overlay) /\ says(load.base) -> "base"
                      [] OTHER -> "" IN
        /\ load.overlay # None => load.overlayEnv # "" /\ load.base[2] = "config"
        /\ file # "" => load.plain = file
        /\ CASE launch.secret = "set" -> cfg.Secret = "process"
             [] launch.secret = "unset" /\ dotenv # {} ->
                    \E i \in dotenv : cfg.Secret = Dotenvs[i] /\ \A j \in dotenv : i <= j
             [] OTHER -> file # "" => cfg.Secret = file

\* What runs is what was asked for: started for production it demands a token on
\* the admin routes, whatever the files say; a rate limit or a cache that is to
\* be shared through Redis never falls back to one of this process alone
\* (config.go 355-363, 394-404, 452-456, app/http.go 29, server/http.go 103-112).
AcceptedIsWired ==
    load.at = "running" =>
        /\ load.overlayEnv = "prod" /\ cfg.HTTPEnabled => RequireAdminAuth(cfg)
        /\ launch.flag = "prod" \/ (launch.flag = "" /\ launch.appEnv = "prod") => cfg.Env = "prod"
        /\ cfg.RateEnabled /\ cfg.RateStore = "redis" => LimiterStore(cfg) = "redis"
        /\ cfg.CacheEnabled /\ cfg.CacheDriver \in {"redis", "multi"} => RedisClient(cfg)

\* config.go, of cache.driver: checked when the cache is enabled, one of memory,
\* redis and multi; so an accepted configuration does not fail in the factory.
\* Not so: "" passes Validate, and so does buffer_items = 0.
ValidStarts == load.at # "wire_failed"
============================================================================
