SPECIFICATION ContractsSpec
CONSTANTS
    v1 = v1
    v2 = v2
    v3 = v3
    a1 = a1
    a2 = a2
    i1 = i1
    h1 = h1
    h2 = h2
    h3 = h3
    s1 = s1
    s2 = s2
    s3 = s3
    ethereum = ethereum
    did1 = did1
    doc1 = doc1
    doc2 = doc2
    Voter = {v1, v2, v3}
    Unset = Unset
    WeightTables <- Tables
    PctInput = {0, 50, 101}
    U64 = 1024
    VOTING_PERIOD = 1
    DEFAULT_TIMELOCK_SECONDS = 1
    MaxProposals = 1
    MaxDelegations = 1
    MaxGovTime = 3
    Account = {a1, a2}
    Absent = Absent
    Chain = {ethereum}
    Did = {did1}
    Document = {doc1, doc2}
    Roots <- Trees
    MAX_CACHE_TTL = 2
    RATE_WINDOW_SECS = 2
    MAX_CALLS_PER_WINDOW = 1
    MaxTimestamp = 3
    Address = {a1, a2}
    None = None
    ServiceId = {}
    Url = {}
    MetadataInput <- OneMetadata
    MAX_SERVICES = 1
    MAX_BATCH_DIDS = 2
    MAX_BATCH_UPDATE_SIZE = 1
    RECOVERY_TIMELOCK_LEDGERS = 2
    MaxLedger = 3
    Party = {i1, h1, h2}
    Missing = Missing
    Triple <- OneSubject
    Recipient = {h2}
    ExpiryInput = {0, 1}
    MaxNonce = 2
    MaxVersion = 2
    MaxSuspended = 0
    MaxTime = 2
    MAX_ISSUERS = 1
    MAX_PREREQS = 0
    MAX_DEP_DEPTH = 1
INVARIANTS
    GovernanceSound
    BridgeServesProved
    RegistryAgrees
    DocumentsStayWellFormed
    OneLivePerTriple
    HolderRecordsAgree
    PrerequisitesListed
    PrerequisitesAcyclic
    VerifiedStandsOnValid
PROPERTIES
    DecidedIsFinal
    PauseFreezesDocuments
    TransferNeedsFullTimelock
    RevokedIsFinal
\* All proposals may be decided and the clocks at their bounds.
CHECK_DEADLOCK FALSE
