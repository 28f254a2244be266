\* Processes crash and restart, heartbeats are late, one panics or a Redis call fails.
SPECIFICATION FairSpec
CONSTANTS
    Instances = {i1, i2}
    TTL = 2
    RenewInterval = 1
    MaxIncarnations = 2
    MaxFaults = 1
    PromptStart = TRUE
    PromptHeartbeat = FALSE
INVARIANTS
    LeaderUnlessFaults
    LostLockStopsCron
PROPERTIES
    OthersLockKept
    SplitBrainHeals
    StopTerminates
