\* Heartbeats are on time, two renewals fail.
SPECIFICATION Spec
CONSTANTS
    Instances = {i1, i2}
    TTL = 3
    RenewInterval = 1
    MaxIncarnations = 1
    MaxFaults = 2
    PromptStart = TRUE
    PromptHeartbeat = TRUE
INVARIANT
    AtMostOneCron
