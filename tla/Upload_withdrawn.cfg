SPECIFICATION MCSpec
CONSTANTS
    NumPieces = 2
    NumBlocks = 2
    Peers = {p1, p2}
    DiskMayFill = FALSE
    MaxReads = 2
    MaxPri = 0
    Sources = {p1}
    MaxRequested = 2
PROPERTIES
    WithdrawnNotSent
