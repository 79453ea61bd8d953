SPECIFICATION FairSpec
CONSTANTS
    length = 3
    piece_length = 2
    block_length = 1
    total_pieces = 2
    s1 = s1
    s2 = s2
    l1 = l1
    l2 = l2
    Seeders = {s1, s2}
    Leechers = {l1, l2}
    Topologies <- SeededOrChain
    PIPELINE = 1
INVARIANTS
    BelievedIsHeld
    NoRequestLost
PROPERTIES
    ImplementsDissemination
    DownloadsEnd
CHECK_DEADLOCK FALSE
