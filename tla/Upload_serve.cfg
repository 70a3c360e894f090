SPECIFICATION MCFairSpec
CONSTANTS
    NumPieces = 2
    NumBlocks = 2
    Peers = {p1, p2}
    DiskMayFill = FALSE
    MaxReads = 1
    MaxPri = 0
    Sources = {p1}
    MaxRequested = 1
INVARIANTS
    AnnouncedIsEligible
PROPERTIES
    SentIsVerified
    PieceAnnounced
