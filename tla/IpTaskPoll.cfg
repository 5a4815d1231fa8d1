CONSTANTS
    Users = {"ip", "app", "poll"}
    Bufs = {b1, b2, b3}
    NoBuf = noBuf
    NumRows = 2
    MaxAge = 4
    Retransmissions = 2
    Warning = 1
    Local = {ip1, ip2}
    Remote = {ipRemote}
    Gateway = ip2
    Macs = {mac1, mac2}
    NoIp = noIp
    NoMac = noMac
    i1 = ip1
    i2 = ip2
    r1 = ipRemote
    m1 = mac1
    m2 = mac2
    Programs = {"net"}
    Wire <- MCWire
    EventLengths = {1, 2}
    Leave = 1
    StackWord = {TRUE}
    Budgets <- MCBudgets
SPECIFICATION MCSpec
SYMMETRY MCSymmetry
INVARIANT PollGoesOn
CHECK_DEADLOCK FALSE
