\* two requests, one of them from the playground, compete for scarce funds and two
\* workers for their rows, under every fault the code is meant to survive
CONSTANTS
    Requests = {r1, r2}
    Workers = {w1, w2}
    Quotas = {1, 2}
    Capacity <- MCScarce
    TokenCapacity = 1
    Unlimited = FALSE
    Playground = {r2}
    Realtime = {}
    SourceOrder <- MCSubscriptionFirst
    MaxAttempts = 2
    Faults = {"crash", "slow", "dberr", "ack"}
    MaxFetches = 0
    MaxFaults = 2
SPECIFICATION Spec
SYMMETRY MCSymmetry
INVARIANTS TypeOK LedgerMatchesRow UsageMatchesCharge OutcomeMatchesTask
    LiveTaskIsReserved TaskMirrorsRow NoOverdraft
PROPERTIES FinalIsFinal ImplementsLedger
CHECK_DEADLOCK FALSE
