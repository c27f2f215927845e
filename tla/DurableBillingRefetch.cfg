\* a task is fetched again in real time after it has failed; with Realtime = {},
\* MaxFaults = 1 and Faults = {"count"} or {"recount"} the property fails by a failed COUNT
CONSTANTS
    Requests = {r1}
    Workers = {w1, w2}
    Quotas = {1, 2}
    Capacity <- MCSources
    TokenCapacity = 3
    Unlimited = FALSE
    Playground = {}
    Realtime = {r1}
    SourceOrder <- MCWalletFirst
    MaxAttempts = 3
    Faults = {}
    MaxFetches = 1
    MaxFaults = 0
SPECIFICATION Spec
INVARIANT NoneSkippedNorDuplicated
CHECK_DEADLOCK FALSE
