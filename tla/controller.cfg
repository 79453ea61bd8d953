SPECIFICATION FairSpec
CONSTANTS
    length = 5
    piece_length = 4
    block_length = 2
    total_pieces = 2
    p1 = p1
    p2 = p2
    Peers = {p1, p2}
    Mode = "LEECHER"
    Data = {"good", "bad", "short"}
    InitialDisks <- AnyEarlierFile
    DiskMayFail = FALSE
INVARIANTS
    TypeOK
    DoneOnDisk
    ServedIsVerified
    NoPieceLeftAssembled
    NoLostWakeup
    ReturnedMeansComplete
PROPERTIES
    VerifiedForever
    MainReturns
    ImplementsDownload
CHECK_DEADLOCK FALSE
