SPECIFICATION FairSpec
CONSTANTS
    TrackerPeers = {"t1", "t2"}
    InboundPeers = {"i1"}
    LanPeers = {"l1"}
    PeerLists <- AnyPeerList
    LocalOnly = FALSE
    CloseWakesAccept = TRUE
INVARIANTS
    TypeOK
    NoThreadOutlives
    KnownIffContacted
PROPERTY HeldOnlyByOpenConnection
CHECK_DEADLOCK FALSE
