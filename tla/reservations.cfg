SPECIFICATION PeerSpec
CONSTANTS
    length = 2
    piece_length = 2
    block_length = 1
    total_pieces = 1
    p1 = p1
    p2 = p2
    Peers = {p1, p2}
    Mode = "LEECHER"
    Data = {"good", "bad"}
    InitialDisks <- FreshDisk
    DiskMayFail = FALSE
    PIPELINE = 2
    Kinds = {"Choke", "Unchoke", "Have", "Bitfield", "Piece"}
    Unsolicited = FALSE
    ReadsTwice = FALSE
    SendsMayFail = TRUE
SYMMETRY PeerSymmetry
INVARIANTS
    PeerTypeOK
    NoOrphanInflight
    OneOwner
PROPERTIES
    ImplementsController
CHECK_DEADLOCK FALSE
