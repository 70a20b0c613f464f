CONSTANTS
    c1 = c1
    c2 = c2
    c3 = c3
    Clients <- MCClients
    Owner = c1
    Worker = theThread
    MaxTasks = 4
    MaxStarts = 3
SPECIFICATION FairSpec
INVARIANTS
    TypeOK
    NoLostWakeup
    PopFindsTask
    AtMostOneLate
PROPERTIES
    TaskRunsUnlessStopped
    StopReturnsUnlessAsleep
    ImplementsExecutor
