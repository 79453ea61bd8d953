SPECIFICATION FairSpec
CONSTANTS
    Protocol <- ShortProtocol
    Zero <- ShortZero
    Hashes <- TwoHashes
    PeerId <- ShortIds
    total_pieces = 9
    Messages <- SomeMessages
    MaxMessages = 2
    Capacity = 6
INVARIANTS
    TypeOK
    ReadAsSent
    OneTorrent
PROPERTY AllReadOrGone
CHECK_DEADLOCK FALSE
