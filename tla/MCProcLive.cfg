CONSTANTS
    idle = idle
    init = init
    u1 = u1
    u2 = u2
    u3 = u3
    Users <- TwoUsers
    Idle = idle
    InitP = init
    MaxProcess = 4
    MaxTimeSlice = 2
    TickNum = 2
    MaxSleep = 1
SPECIFICATION FairSpec
PROPERTIES
    RunnableRuns
    AllExitedThenShutdown
    SleeperWakes
