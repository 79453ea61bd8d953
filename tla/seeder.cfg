SPECIFICATION PeerSpec
CONSTANTS
    length = 2
    piece_length = 2
    block_length = 1
    total_pieces = 1
    p1 = p1
    p2 = p2
    Peers = {p1, p2}
    Mode = "SEEDER"
    Data = {"good"}
    InitialDisks <- WholeOrMissingFile
    DiskMayFail = FALSE
    PIPELINE = 1
    Kinds = {"KeepAlive", "Choke", "Unchoke", "Interested", "NotInterested", "Have", "Bitfield", "Request", "Piece", "Cancel"}
    Unsolicited = TRUE
    ReadsTwice = TRUE
    SendsMayFail = TRUE
SYMMETRY PeerSymmetry
INVARIANTS
    ServedInstantly
CHECK_DEADLOCK FALSE
