CONSTANTS
    c1 = c1
    c2 = c2
    Clients <- MCClients
    Owner = c1
    Loop = theLoop
    RepeatIntervals = {1}
    TimerIdSpace = 1
    MaxTasks = 2
    MaxTimers = 1
    MaxStarts = 2
SPECIFICATION FairSpec
INVARIANTS
    Fifo
    StopIsGraceful
    NoLostWakeup
PROPERTIES
    ImplementsExecutor
    StopEndsLoop
    SubmittedTaskRuns
    DestructionFinishes
