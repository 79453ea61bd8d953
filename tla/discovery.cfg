SPECIFICATION FairSpec
CONSTANTS
    a = a
    b = b
    c = c
    h1 = h1
    h2 = h2
    Seeders = {b, c}
    Leechers = {a}
    Hosts = {h1, h2}
    HostOf <- OnTwoHosts
    Lists <- NamesOneTwice
    Trackers = {"own", "other"}
    Modes <- OneEach
    MaxClock = 1
    MaxInbox = 1
INVARIANTS
    TypeOK
    NotToItself
    NoDuplicates
PROPERTY FindEachOther
CHECK_DEADLOCK FALSE
