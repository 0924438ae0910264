\* Requested pages and device pages, until a walk finds no frame: the model ends
\* there.
SPECIFICATION Spec
CONSTANTS
    Slots = {0, 1}
    VirtualPages <- MCVirtualPages
    Frames = {1, 2, 3, 4, 5, 6, 7}
    Devices = {0, 7, 13}
    Root = 13
INVARIANTS TablesFormTree FramesHaveOneUse
PROPERTIES ImplementsAddressSpace
CHECK_DEADLOCK FALSE
