SPECIFICATION MCSpec
CONSTANTS
    NumPieces = 2
    NumBlocks = 2
    Peers = {p1, p2}
    Seeders = {p1, p2}
    Liars = {}
    BadData = {"corrupt"}
    DiskMayFill = FALSE
    MaxReads = 0
    MaxPri = 3
    MaxWire = 0
    MaxQueue = 1
INVARIANTS
    HonestNeverRefused
