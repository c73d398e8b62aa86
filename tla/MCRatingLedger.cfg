CONSTANTS
    Player = {1, 2}
    Partition <- MCPartition
    Log <- MCLog
    InitialRating = 3
    Floor = 2
    MaxAttempts = 2
    MaxFaults = 1
SPECIFICATION Spec
INVARIANTS
    LedgerSound
PROPERTIES
    LedgerSettles
CHECK_DEADLOCK FALSE
