\* one request whose task is fetched at any time, with scarce funds, as many attempts
\* as faults, and every fault but a slow request
CONSTANTS
    Requests = {r1}
    Workers = {w1, w2}
    Quotas = {1, 2}
    Capacity <- MCScarce
    TokenCapacity = 3
    Unlimited = FALSE
    Playground = {}
    Realtime = {r1}
    SourceOrder <- MCWalletFirst
    MaxAttempts = 2
    Faults = {"crash", "slow", "dberr", "ack", "count", "recount", "delete"}
    MaxFetches = 1
    MaxFaults = 2
SPECIFICATION FairSpec
INVARIANT NoOverdraft
PROPERTIES OrphanRefunded PendingResolved
CHECK_DEADLOCK FALSE
