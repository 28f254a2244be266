\* Two connections against a limit of one, and a Stop at any time; the first
\* read timeout ends a connection.
SPECIFICATION FairSpec
CONSTANTS
    Conns = {c1, c2}
    MaxConnections = 1
    MaxTimeoutCount = 1
    MaxStops = 1
INVARIANT
    StopLeavesNothing
PROPERTIES
    ImplementsDrain
    BacklogServed
    ConnectionsEnd
