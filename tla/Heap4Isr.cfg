SPECIFICATION HeapSpec
CONSTANTS
    HeapEnd = 9
    Spare = 2
    Requests <- MCRequests
    MaxFreeing = 1
    InterruptsCalls = TRUE
INVARIANT
    FreeBytesCounted
