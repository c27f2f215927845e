CONSTANTS
    s1 = s1
    f1 = f1
    c1 = c1
    n1 = n1
    Tasks = {s1, f1, c1, n1}
    MaxTasks = 1
    AgentTasks = {a1}
    Kind <- MCKind
    Faults = {"reload", "conn", "stall", "quota"}
    MaxFaults = 2
SPECIFICATION FairSpec
INVARIANTS TypeOK UnsettledHasRunner OneRunner StoredMatchesMemory
PROPERTIES SettledStays EventuallySettled
CHECK_DEADLOCK FALSE
