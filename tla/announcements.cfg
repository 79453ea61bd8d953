SPECIFICATION PeerSpec
CONSTANTS
    length = 2
    piece_length = 1
    block_length = 1
    total_pieces = 2
    p1 = p1
    p2 = p2
    Peers = {p1, p2}
    Mode = "LEECHER"
    Data = {"good"}
    InitialDisks <- FreshDisk
    DiskMayFail = FALSE
    PIPELINE = 1
    Kinds = {"Unchoke", "Bitfield", "Piece"}
    Unsolicited = FALSE
    ReadsTwice = TRUE
    SendsMayFail = FALSE
SYMMETRY PeerSymmetry
INVARIANTS
    NothingUnannounced
    ToldTruth
CHECK_DEADLOCK FALSE
