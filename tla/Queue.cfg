SPECIFICATION Spec
CONSTANTS
    low = low
    high = high
    idle = idle
    Tasks <- MCTasks
    Idle = idle
    Priorities <- MCPriorities
    InitPrio <- MCPrio
    TickMod = 3
    OverflowMod = 2
    EventLists = {"send", "receive"}
    Items = {1, 2}
    Programs <- MCPrograms
    LockMax = 2
    MaxCounted = 2
    MaxPended = 1
INVARIANTS
    WakeupsKept
    WaitersOrdered
PROPERTIES
    QueueIsFifo
    NeverEarly
