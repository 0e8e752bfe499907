CONSTANTS
    NPages = 4
    PageUnits = 5
    Small = {2}
    Big = {5}
    MaxHeld = 4
    MaxBlock = 2
SPECIFICATION Spec
CHECK_DEADLOCK FALSE
INVARIANTS
    FreeListExact
    MemoryPartition
    RingExact
PROPERTIES
    PagesSafety
