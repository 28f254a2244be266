\* Two requests in two processes, every kind of cache, one failure.
SPECIFICATION Spec
CONSTANTS
    Procs = {p1, p2}
    Requests = {r1, r2}
    Drivers = {"nop", "memory", "redis", "multi"}
    TTL = 2
    WarmTTL = 1
    MaxVersion = 3
    MaxWarmUps = 1
    MaxFaults = 1
SYMMETRY Symmetry
VIEW View
INVARIANTS
    CoherentWithoutRaces
    AccountsSound
PROPERTIES
    NoResurrection
    StaleRunsOut
