\* Two publishers, subscriptions of one name and two overlapping patterns, and a
\* Close at any time.
SPECIFICATION FairSpec
CONSTANTS
    Names = {"user.created"}
    Patterns = {"user.*", "*.created", "["}
    BadPatterns = {"["}
    Matches <- MCMatches
    OptionLists <- SyncAndAsync
    Publishers = {p1, p2}
    Closers = {c1}
    MaxSubscribers = 2
    MaxSubs = 2
    MaxPublish = 1
INVARIANTS
    SnapshotExact
    ListsOrdered
PROPERTIES
    ImplementsDrain
    CloseTerminates
