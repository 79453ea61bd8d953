SPECIFICATION Spec
CONSTANTS
    Sha1 <- MCSha1
    HashLength = 2
    PieceLength = 2
    Documents <- MCDocuments
    Oddities <- MCOddities
    MaxInt = 127
    MaxLong = 32767
    MaxNest = 5
    MaxPast = 3
INVARIANTS
    TypeOK
    WholeIsRead
    NothingInvented
PROPERTY ParsingEnds
CHECK_DEADLOCK FALSE
