CONSTANTS
    SeqSpace = 32
    MSS = 2
    SegCount = 4
    RxWinLen = 6
    TxWinLen = 6
    DuplicateAcks = 1
    MaxTransmit = 2
    OurISS = 3
    RxStream = 6
    RxLength = 8
    TxLength = 5
    Repeats = 8
    PeerISS = 29
    Cases <- MCFaultless
    PeerWin = 4
    MaxNet = 2
    ReplyLen = 3
SPECIFICATION FairSpec
PROPERTIES
    RequestAnswered
CHECK_DEADLOCK FALSE
