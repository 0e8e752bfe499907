CONSTANTS
    Owner = {p1, p2, p3, p4}
    MaxTime = 4
SPECIFICATION TimersFairSpec
INVARIANTS
    DeltaExact
    HeadNotExpired
PROPERTIES
    ServiceSafety
    TimerEnds
