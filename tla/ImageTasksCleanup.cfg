CONSTANTS
    s1 = s1
    f1 = f1
    c1 = c1
    n1 = n1
    Tasks = {s1}
    MaxTasks = 1
    AgentTasks = {a1}
    Kind <- MCKind
    Faults = {}
    MaxFaults = 0
SPECIFICATION Spec
PROPERTY CleanupKeepsFailed
CHECK_DEADLOCK FALSE
