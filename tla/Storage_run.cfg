SPECIFICATION FileSpec
CONSTANTS
    Alphabet <- MCAlphabet
    Word = 10000
    AddressSpace = 10000
    IntSpace = 12
    SumLength = 2
    PieceBytes = 4
    Layouts <- MCLayouts
    Inputs <- MCInputs
    Torrents <- MCTorrents
    OnDisk <- MCOnDisk
    Matching <- MCMatching
INVARIANTS
    InfoHashIsOriginal
    CompletedIsStored
    ReadsAreExact
    CountsAreRight
PROPERTIES
    ScanFindsWhatIsThere
    OpenImplementsStorage
CHECK_DEADLOCK FALSE
