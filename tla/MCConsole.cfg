CONSTANTS
    Reader = {r1, r2}
    Idle = idle
    ComSize = 6
    ConsSize = 3
    StdinSize = 2
    MaxChars = 6
    MaxLen = 2
SPECIFICATION FairSpec
INVARIANTS
    InputExact
    WaitQueueExact
PROPERTIES
    InputWakes
