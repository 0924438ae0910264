\* Two keys, two turns of a wait; up to three configuration tables.
SPECIFICATION Spec
CONSTANTS
    ConfigTables <- MCConfigTables
    Patience = 2
    MaxKeys = 2
CHECK_DEADLOCK FALSE
INVARIANTS KeysMeetShell HandshakeStaysOut KernelGetsMapAndRsdp
PROPERTIES LoopReached
