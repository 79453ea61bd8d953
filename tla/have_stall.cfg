SPECIFICATION FairSpec
CONSTANTS
    length = 2
    piece_length = 1
    block_length = 1
    total_pieces = 2
    s1 = s1
    s2 = s2
    l1 = l1
    l2 = l2
    Seeders = {s1}
    Leechers = {l1, l2}
    Topologies <- Chain
    PIPELINE = 1
PROPERTY HavesReach
CHECK_DEADLOCK FALSE
