SPECIFICATION StoreSpec
CONSTANTS
    Creds = {c1}
    Requests = {r1, r2}
    Readers = {q1}
    Jobs = {}
    Reported = {c1}
    MaxVersion = 1
    MaxStoreFaults = 0
    MaxReads = 1
INVARIANT NoLostUpdate
CHECK_DEADLOCK FALSE
