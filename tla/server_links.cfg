SPECIFICATION Spec
CONSTANTS
    Commands = {"c1", "c2"}
    Auth = "AUTH"
    Quit = "QUIT"
    MaxRetries = 2
    MaxDrops = 2
    MaxConnects = 2
    Callers = {"a", "b", "c"}
    FailureThreshold = 3
    SuccessThreshold = 2
    OpenDuration = 2
    RpcMaxRetries = 1
    MaxStrays = 1
    Dids = {"d1"}
    Readers = {"r1", "r2"}
    CacheFailureThreshold = 2
    MaxVersion = 2
    MaxOutages = 2
    Jobs = {"j1", "j2"}
    Workers = {"w1"}
    Handled = {"j1"}
    Priority <- JobPriority
    Delay <- JobDelay
    MaxAttempts = 2
    RetryBackoff = 2
    ScoreBase = 10
    StartTime = 17
    MaxTime = 17
    MaxFaults = 1
    Ops = {"q", "p", "t", "x"}
    KindOf <- CallKind
    MaxClients = 2
    DbRetries = 1
    MaxDbFaults = 1
INVARIANTS
    RedisFlagBacked
    CacheStaleOnlyByRace
    JobsKept
    PairKeepsJobs
    PoolSound
PROPERTIES
    BreakerCountsStreak
    JobContractKept
    LinksSettle
\* Everything asked of a part may have been done.
CHECK_DEADLOCK FALSE
