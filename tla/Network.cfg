CONSTANTS
    Users = {"ip", "app", "poll"}
    Bufs = {b1, b2, b3}
    NoBuf = noBuf
    NumRows = 2
    MaxAge = 4
    Retransmissions = 2
    Warning = 1
    Local = {ip1, ip2}
    Remote = {ipRemote}
    Gateway = ip2
    Macs = {mac1, mac2}
    NoIp = noIp
    NoMac = noMac
    i1 = ip1
    i2 = ip2
    r1 = ipRemote
    m1 = mac1
    m2 = mac2
    Programs = {"net", "arp"}
    Wire <- MCWire
    EventLengths = {1, 2}
    Leave = 1
    StackWord = {TRUE}
    Budgets <- MCBudgets
    SeqSpace = 32
    MSS = 2
    SegCount = 4
    RxWinLen = 6
    TxWinLen = 6
    DuplicateAcks = 1
    MaxTransmit = 2
    OurISS = 3
    RxStream = 6
    RxLength = 8
    TxLength = 5
    Repeats = 8
    PeerISS = 29
    Cases <- MCCases
    PeerWin = 4
    MaxNet = 2
    ReplyLen = 3
    HeapEnd = 8
    Spare = 2
    Requests <- MCRequests
    MaxFreeing = 2
    InterruptsCalls = FALSE
SPECIFICATION NetworkSpec
SYMMETRY MCSymmetry
INVARIANTS
    PoolIntact CacheIntact EachHandedOnOnce QueuedFramesKept
    RxInOrder PeerGetsTheBytes TxQueuesIntact AppWoken KeptOnce FinAfterRequest
    HeapIntact
PROPERTIES
    PoolSpec RequestsRunOut EvictsOldest ImplementsBlocks
CHECK_DEADLOCK FALSE
