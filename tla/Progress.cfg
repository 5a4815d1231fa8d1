SPECIFICATION ProgressSpec
CONSTANTS
    MaxChannels = 2
    Control = {"eth0", "keys0"}
    BulkIn = {"in"}
    BulkOut = {"out"}
    Keyboards = {"keys"}
    ViaHub = {"keys0", "keys"}
    Plugged <- MCPlugged
    MaxPackets = 2
    Tries = 1
    low = low
    mid = mid
    high = high
    idle = idle
    Tasks <- MCFour
    Idle = idle
    Priorities <- MCPriorities
    InitPrio <- MCPeers
    TickMod = 2
    OverflowMod = 1
    EventLists = {"queue"}
    Delays = {1}
    MaxPended = 1
    Programs <- StartedOnly
INVARIANTS
    StagesOwned TogglesAgree
PROPERTIES
    RequestsEnd DelaysEnd TakeTurns
