SPECIFICATION KernelSpec
CONSTANTS
    sensor = sensor
    server = server
    PortTasks = {sensor, server}
    MaxFrames = 3
    low = low
    mid = mid
    high = high
    idle = idle
    Tasks <- MCFour
    Idle = idle
    Priorities <- MCPriorities
    InitPrio <- MCPrio
    TickMod = 3
    OverflowMod = 1
    EventLists = {"queue"}
    Delays = {1, 2}
    MaxPended = 2
    Programs <- All
INVARIANTS
    PortTypeOK MaskCounted HeapCallsMasked
    ListsIntact HighestRuns TimeoutsKept
PROPERTIES
    HeapCallsReopen NeverEarly SuspensionKept
