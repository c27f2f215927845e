\* a worker that lost its lease fails and releases the row under its successor
CONSTANTS
    Requests = {r1}
    Workers = {w1, w2}
    Quotas = {1, 2}
    Capacity <- MCSources
    TokenCapacity = 3
    Unlimited = FALSE
    Playground = {}
    Realtime = {}
    SourceOrder <- MCWalletFirst
    MaxAttempts = 3
    Faults = {"slow", "dberr"}
    MaxFetches = 0
    MaxFaults = 2
SPECIFICATION Spec
INVARIANT RowIsSourceOfTruth
CHECK_DEADLOCK FALSE
