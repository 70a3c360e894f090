SPECIFICATION FairSpec
CONSTANTS
    NumPieces = 2
    NumBlocks = 2
    Peers = {p1}
    DiskMayFill = TRUE
    MaxReads = 1
    MaxPri = 1
INVARIANTS
    TypeOK
    PendingIsQueued
    OneWritePerPiece
    CompletedIsVerified
    ReadsAreServable
PROPERTIES
    LedgerSpec
    WritesLand
    ReadsDrain
    JoinReturns
CHECK_DEADLOCK FALSE
