CONSTANTS
    N = 4
    TIMES = 2
SPECIFICATION FairSpec
INVARIANTS
    OneActive
    ConditionHolds
    CountsExact
PROPERTIES
    EveryoneDines
