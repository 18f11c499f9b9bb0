SPECIFICATION Spec
CONSTANTS
    Capacity = 3
    StreamLength = 6
    MaxBlock = 4
INVARIANTS
    NoSlotConflict
    AvailableNeverNegative
PROPERTY
    ImplementsFifo
CHECK_DEADLOCK FALSE
