\* Every configuration, every failure, signals at any time.
SPECIFICATION FairSpec
INVARIANTS
    StoppedOnceInOrder
    ServersBeforeInfra
    EventsPaired
    FailureReported
PROPERTY
    ProcessEnds
