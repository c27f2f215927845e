SPECIFICATION Spec
CONSTANTS
    s1 = s1
    s2 = s2
    Sessions = {s1, s2}
    Playground = {s2}
    Quotas = {0, 2}
    Total = 3
    MaxPeriods = 1
    RefundAttempts = 2
    Faults = {"dberr", "ack", "crash"}
    MaxFaults = 2
CHECK_DEADLOCK FALSE
INVARIANTS
    TypeOK
    LedgerAtEnd
    NeverOverRefunded
    WithinTotal
