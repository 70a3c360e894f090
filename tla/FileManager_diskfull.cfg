SPECIFICATION Spec
CONSTANTS
    NumPieces = 2
    NumBlocks = 2
    Peers = {p1}
    DiskMayFill = TRUE
    MaxReads = 0
    MaxPri = 0
INVARIANTS
    CompletedIsOnDisk
CHECK_DEADLOCK FALSE
