SPECIFICATION Spec
CONSTANTS
    s1 = s1
    Sessions = {s1}
    Playground = {}
    Quotas = {0, 1}
    Total = 2
    MaxPeriods = 1
    RefundAttempts = 3
    Faults = {}
    MaxFaults = 0
CHECK_DEADLOCK FALSE
INVARIANT
    CancelledIsFinal
