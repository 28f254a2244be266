\* One silent connection.
SPECIFICATION Spec
CONSTANTS
    Conns = {c1}
    MaxConnections = 1
    MaxTimeoutCount = 2
    MaxStops = 1
INVARIANT
    TimeoutsCounted
