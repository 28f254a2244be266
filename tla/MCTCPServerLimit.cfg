\* Two connections against a limit of one.
SPECIFICATION Spec
CONSTANTS
    Conns = {c1, c2}
    MaxConnections = 1
    MaxTimeoutCount = 2
    MaxStops = 1
INVARIANT
    ConnectionsLimited
