CONSTANTS
    MaxRounds = 2
    MaxExecs = 2
    MaxTasks = 2
    MaxTurns = 1
    MaxToolCalls = 1
    MaxDeletes = 1
    MaxReloads = 1
SPECIFICATION FairSpec
INVARIANTS TypeOK RunningCanBeStopped RunningTaskHasExecution
PROPERTIES StoppedMakesNoCall LateEndKeepsController DoneStays EventuallyIdle
CHECK_DEADLOCK FALSE
