\* malloc and free of mixed sizes in a small heap that grows by expand_heap, with
\* every outcome of its walk.
SPECIFICATION Spec
CONSTANTS
    HeapLength = 256
    PageSize = 64
    Frames = 2
    Requests = {10, 40, 100}
    MaxUsedTotal = 500
INVARIANTS ListWellFormed AllocationsDisjoint NoAdjacentFree
PROPERTIES ExpansionServes
\* A wild pointer stops the kernel, a malloc that finds no memory calls itself for
\* ever, and MaxUsedTotal ends the clients' calls.
CHECK_DEADLOCK FALSE
