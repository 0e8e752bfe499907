SPECIFICATION TableSpec
CONSTANTS
    Users = {u1, u2, u3}
    Idle = idle
    InitP = init
    Null = null
    MAX_PID = 6
    MAX_PROCESS = 5
INVARIANTS
    NoDangling
    ChildListExact
    PidUnique
    PidNamesOne
PROPERTY WalksEnd
