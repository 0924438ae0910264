\* Two devices of two functions to a bus, three ports to a controller; the scan ends.
SPECIFICATION ScanSpec
CONSTANTS
    DeviceCount = 2
    FunctionCount = 2
    PortCount = 3
    MaxDrivers = 2
    Counts = {0, 1}
    Machines <- MCMachines
CHECK_DEADLOCK FALSE
INVARIANTS EveryControllerOnce DriveIsConfigured
