CONSTANTS
    Thread = {t1, t2, t3, t4}
    Permits = 2
SPECIFICATION LockFairSpec
INVARIANTS
    Exclusion
PROPERTIES
    Fifo
    CounterSafety
    DownEnds
