SPECIFICATION ClientsSpec
CONSTANTS
    r1 = r1
    r2 = r2
    r3 = r3
    r4 = r4
    Request = {r1, r2, r3, r4}
    maxConcurrent = 2
    maxRetries = 1
    Calls = {"c1", "c2"}
    Offered <- OfferedMethods
    NServers = 2
    MaxRetries = 1
    QueueRetries = 1
    PollRetries = 2
    MaxLosses = 2
    Mutations = {"m1", "m2"}
    Strategy = "merge"
    MaxSyncAttempts = 2
    MaxMishaps = 1
    Removable = {"m1"}
    LedgerOf <- EventLedgers
    Polls = {"p1", "p2"}
    Corruptible = {1, 2}
    PageLimit = 2
    MaxSeen = 4
    MaxReconnects = 1
    MaxFeedFaults = 2
    MaxStarts = 2
INVARIANTS
    QueueSlotsExact
    CallsTakeEffectOnce
    FeedDeliversOnce
    OfflineWritesKept
    IndexKept
PROPERTIES
    ClientsSettle
\* Everything asked of a part may have been done.
CHECK_DEADLOCK FALSE
