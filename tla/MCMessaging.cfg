\* UDP: three packets from two clients, one worker and a channel of one, so that
\* a packet can be with the worker, one queued and one dropped.  Chat: three
\* connections that send messages over a channel of one.
SPECIFICATION MCSpec
CONSTANTS
    p1 = p1
    p2 = p2
    p3 = p3
    a1 = a1
    a2 = a2
    Packets = {p1, p2, p3}
    Addrs = {a1, a2}
    From <- MCFrom
    Workers = {w1}
    ChanCap = 1
    Threshold = 1
    MaxTime = 2
    Conns = {c1, c2, c3}
    BroadcastCap = 1
    MaxOps = 3
CHECK_DEADLOCK FALSE
INVARIANTS
    SessionTracksTraffic
    MembersHear
PROPERTIES
    QuietAfterStop
    PacketsServed
    HandlersReturn
