CONSTANTS
    c1 = c1
    c2 = c2
    Clients <- MCClients
    Owner = c1
    Loop = theLoop
    RepeatIntervals = {1}
    TimerIdSpace = 1
    MaxTasks = 1
    MaxTimers = 1
    MaxStarts = 1
SPECIFICATION Spec
INVARIANT PurgeIsNeverLost
