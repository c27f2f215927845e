\* both kinds of event, two passes at once, every fault
CONSTANTS
    CacheEvents = {c1}
    LogEvents = {l1}
    Workers = {w1, w2}
    LogEnabled = TRUE
    Faults = {"crash", "slow", "error", "ack"}
    MaxFaults = 3
SPECIFICATION FairSpec
INVARIANTS TypeOK OneLogPerEvent DeliveredMeansDone
PROPERTY EventuallyDelivered
CHECK_DEADLOCK FALSE
