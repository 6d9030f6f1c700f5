SPECIFICATION CacheSpec
CONSTANTS
    Dids = {d1}
    Readers = {r1}
    CacheFailureThreshold = 1
    MaxVersion = 2
    MaxOutages = 0
INVARIANT NoneOutlivesInvalidation
CHECK_DEADLOCK FALSE
