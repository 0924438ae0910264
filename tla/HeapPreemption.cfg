\* free in the main loop, malloc in the keyboard interrupt between its merges.
SPECIFICATION NoneInMallocs
CONSTANTS
    HeapLength = 256
    PageSize = 64
    Frames = 0
    Requests = {10, 40}
    MaxUsedTotal = 400
INVARIANT MallocReturnsNewMemory
CHECK_DEADLOCK FALSE
