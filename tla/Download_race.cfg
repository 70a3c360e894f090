SPECIFICATION MCFairSpec
CONSTANTS
    NumPieces = 2
    NumBlocks = 2
    Peers = {p1, p2, p3}
    Seeders = {p1, p2}
    Liars = {p3}
    BadData = {"corrupt"}
    DiskMayFill = FALSE
    MaxReads = 0
    MaxPri = 5
    MaxWire = 0
    MaxQueue = 1
INVARIANTS
    SeederPieceIsGenuine
    SomeoneAsked
PROPERTIES
    Finishes
