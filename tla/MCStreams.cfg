CONSTANTS
    a = a
    b = b
    Clients <- MCClients
    Filtered <- OnlyA
    Waiters <- OnlyB
    MaxSequence = 3
    QueueCapacity = 1
    ReplayCapacity = 1
    MaxSubscribers = 1
    Oversized = {3}
    MaxEvents = 2
    MaxRestarts = 1
    MaxFailures = 1
    MaxRefreshes = 1
    MaxTroubles = 2
SPECIFICATION StreamsSpec
INVARIANTS BusSafe
PROPERTIES ImplementsStream BusLive FollowerSafe FollowerLive
CHECK_DEADLOCK FALSE
