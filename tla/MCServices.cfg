SPECIFICATION Spec
CONSTANTS
    Lockers = {p1, p2, p3}
    TTL = 2
    MaxTime = 3
    MaxCalls = 2
    Tasks = {t1, t2, t3}
    Limit = 2
    MaxRetries = 1
    MaxResizes = 1
    Instances = {i1, i2}
    Verifiers = {v1, v2}
    Migrators = {m1, m2}
    NumMigrations = 2
    MaxCommands = 2
    Requests = {r1, r2, r3}
    MaxKeys = 2
    RPS <- MCRPS
    Configurations <- MCConfigurations
    Offered <- MCOffered
    MaxSeconds = 1
\* Every component stops when its bounded work is done.
CHECK_DEADLOCK FALSE
INVARIANTS
    OneHolder
    SlotsMatch
    SpentStaysSpent
    AppliedOnce
    HandlerNeedsCredentials
    RateHolds
PROPERTY
    WaitEnds
