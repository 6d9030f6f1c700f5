SPECIFICATION Spec
CONSTANTS
    Creds = {"c1"}
    Requests = {"r1", "r2"}
    Readers = {"q1"}
    Jobs = {"j1"}
    Reported = {"c1"}
    MaxVersion = 1
    MaxStoreFaults = 1
    MaxReads = 1
    Hooks = {"h1", "h2"}
    Edits <- HookEdits
    Events = {"v1"}
    Concurrency = 1
    MaxRetries = 2
    MaxLogFailures = 1
    Keys = {"k1"}
    Callers = {"c1", "c2"}
    MaxKeyRestarts = 1
    MaxKeyFaults = 1
    MaxKeyClock = 1
    Tenants = {"t1", "t2"}
    Admins = {"r1", "r2"}
    Asks <- RequestedTenants
    MaxTenantRestarts = 1
    MaxTenantFaults = 1
    AuthCalls = {"x", "y", "z"}
    Scenarios <- AuthScenarios
    Clients = {"k"}
    NewClient = "n"
    ClientScope <- RegisteredScope
    OwnerScope = {"r", "w"}
    Perishable <- RefreshTokens
    MaxAuthRestarts = 1
    MaxStoreFailures = 1
    Calls = {"a1", "a2", "b1"}
    Fingerprint <- RequestPrints
    DedupeTtl = 1
    MaxEntries = 1
    Window = 1
    EndpointLimit = 2
    TierLimit = 2
    Day = 1
    DailyLimit = 1
    MaxCredentials = 1
    MaxClock = 1
    Listers = {"l1"}
    Others = {"o1"}
    CacheTtl = 1
INVARIANTS
    StoreKeepsChanges
    DeliveriesTracked
    RequestsAdmittedOnce
    KeysEnforced
    EventLogKept
    TenantsInForce
    TokensSound
PROPERTIES
    RequestsSettle
\* Everything asked of a part may have been done.
CHECK_DEADLOCK FALSE
