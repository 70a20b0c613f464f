CONSTANTS
    c1 = c1
    c2 = c2
    Clients <- MCClients
    Owner = c1
    ThreadCounts = {2}
    TimerIdSpace = 4
    MaxSubmits = 2
    MaxStarts = 2
SPECIFICATION FairSpec
INVARIANTS
    TypeOK
    PoolOutlivesItsTasks
    StopReachesEveryWorker
    StopDrainsPool
    
PROPERTIES
    WaitReturns
    DestructionFinishes
