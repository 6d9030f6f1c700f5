SPECIFICATION Spec
CONSTANTS
    Creds = {"c1"}
    Requests = {"r1"}
    Readers = {"q1"}
    Jobs = {}
    Reported = {"c1"}
    MaxVersion = 1
    MaxStoreFaults = 0
    MaxReads = 0
    Hooks = {"h1", "h2"}
    Edits <- HookEdits
    Events = {"v1"}
    Concurrency = 1
    MaxRetries = 1
    MaxLogFailures = 0
    Keys = {"k1"}
    Callers = {"c1", "c2"}
    MaxKeyRestarts = 0
    MaxKeyFaults = 0
    MaxKeyClock = 1
    Tenants = {"t1", "t2"}
    Admins = {"r1", "r2"}
    Asks <- RequestedTenants
    MaxTenantRestarts = 0
    MaxTenantFaults = 0
    AuthCalls = {"x", "y", "z"}
    Scenarios <- AuthScenarios
    Clients = {"k"}
    NewClient = "n"
    ClientScope <- RegisteredScope
    OwnerScope = {"r", "w"}
    Perishable <- RefreshTokens
    MaxAuthRestarts = 0
    MaxStoreFailures = 0
    Calls = {"a1", "a2", "b1"}
    Fingerprint <- RequestPrints
    DedupeTtl = 1
    MaxEntries = 1
    Window = 1
    EndpointLimit = 2
    TierLimit = 2
    Day = 1
    DailyLimit = 1
    MaxCredentials = 1
    MaxClock = 0
    Listers = {"l1"}
    Others = {"o1"}
    CacheTtl = 1
INVARIANT RefreshTokenSingleUse
CHECK_DEADLOCK FALSE
