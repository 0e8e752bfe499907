CONSTANTS
    idle = idle
    init = init
    u1 = u1
    u2 = u2
    u3 = u3
    Users <- ThreeUsers
    Idle = idle
    InitP = init
    MaxProcess = 5
    MaxTimeSlice = 1
    TickNum = 2
    MaxSleep = 2
SPECIFICATION Spec
SYMMETRY UserSymmetry
INVARIANTS
    TypeOK
    RunQueueExact
    SleepHasReason
    TimerInSleep
    NoLostChildWakeup
    CleanShutdown
