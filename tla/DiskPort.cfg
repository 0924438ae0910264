\* Calls of one and two sectors on a disk of two, two values.
SPECIFICATION Spec
CONSTANTS
    Sectors = 2
    MaxCount = 2
    Data = {d0, d1}
    SpinLimit = 2
INVARIANTS BasesSetWhenStopped
PROPERTIES ImplementsDisk CallEnds
