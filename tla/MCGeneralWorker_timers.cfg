CONSTANTS
    c1 = c1
    c2 = c2
    Clients <- MCClients
    Owner = c1
    Loop = theLoop
    RepeatIntervals = {0, 1}
    TimerIdSpace = 2
    MaxTasks = 1
    MaxTimers = 2
    MaxStarts = 1
SPECIFICATION Spec
INVARIANTS
    TypeOK
    PurgeIsFinal
    DueTimersAreInstalled
    OneShotFiresOnce
    RepeatStaysRegistered
