SPECIFICATION Spec
CONSTANTS
    low = low
    mid = mid
    high = high
    idle = idle
    M1 = M1
    M2 = M2
    bitA = bitA
    bitB = bitB
    bitC = bitC
    NoTask = NoTask
    Tasks <- MCTasks
    Idle = idle
    Priorities <- MCPriorities
    InitPrio <- MCPrio
    TickMod = 3
    OverflowMod = 2
    EventLists <- MCEventLists
    Mutex = {M1, M2}
    Bits = {bitA, bitB, bitC}
    MaxValue = 1
    MaxPended = 1
    Programs <- MCTwoWaiters
PROPERTIES
    LastMutexYields
