SPECIFICATION FairSpec
CONSTANTS
    TrackerPeers = {"t1"}
    InboundPeers = {}
    LanPeers = {}
    PeerLists <- AnyPeerList
    LocalOnly = FALSE
    CloseWakesAccept = FALSE
PROPERTY ExitsWhenDone
CHECK_DEADLOCK FALSE
