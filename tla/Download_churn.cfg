SPECIFICATION MCSpec
CONSTANTS
    NumPieces = 1
    NumBlocks = 3
    Peers = {p1, p2}
    Seeders = {}
    Liars = {p2}
    BadData = {"corrupt", "lookalike"}
    DiskMayFill = FALSE
    MaxReads = 0
    MaxPri = 5
    MaxWire = 6
    MaxQueue = 2
INVARIANTS
    DownloadTypeOK
    NothingForgotten
