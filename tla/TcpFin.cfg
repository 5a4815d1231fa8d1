CONSTANTS
    SeqSpace = 32
    MSS = 2
    SegCount = 1
    RxWinLen = 6
    TxWinLen = 6
    DuplicateAcks = 1
    MaxTransmit = 2
    OurISS = 3
    RxStream = 6
    RxLength = 8
    TxLength = 5
    Repeats = 8
    PeerISS = 29
    Cases <- MCOutOfOrder
    PeerWin = 4
    MaxNet = 2
    ReplyLen = 3
SPECIFICATION Spec
PROPERTIES
    FinAfterReply
CHECK_DEADLOCK FALSE
