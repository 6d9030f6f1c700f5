SPECIFICATION Spec
CONSTANTS
    Address = {a1, a2}
    None = None
    ServiceId = {}
    Url = {u1, u2}
    MetadataInput <- OneMetadata
    MAX_SERVICES = 1
    MAX_BATCH_DIDS = 2
    MAX_BATCH_UPDATE_SIZE = 1
    RECOVERY_TIMELOCK_LEDGERS = 2
    MaxLedger = 3
PROPERTY RecoveredByRegisteredAddress
CHECK_DEADLOCK FALSE
