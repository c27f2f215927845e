\* a request is still running when its reservation turns an hour old
CONSTANTS
    Requests = {r1}
    Workers = {w1, w2}
    Quotas = {1, 2}
    Capacity <- MCSources
    TokenCapacity = 3
    Unlimited = FALSE
    Playground = {}
    Realtime = {}
    SourceOrder <- MCWalletFirst
    MaxAttempts = 3
    Faults = {"slow_request"}
    MaxFetches = 0
    MaxFaults = 0
SPECIFICATION Spec
INVARIANT LedgerMatchesRow
CHECK_DEADLOCK FALSE
