----------------------------- MODULE DeviceScan -----------------------------
(***************************************************************************)
(* How the kernel finds its disk: ACPI::find_table looks for the MCFG      *)
(* table, PCI::enumerate_pci walks buses, devices and functions and makes  *)
(* an AHCIDriver of every AHCI function, whose constructor probes the      *)
(* ports of the controller and configures those with a drive.  The FAT32   *)
(* object then takes the disk_drive of driver 0.                           *)
(***************************************************************************)
EXTENDS Integers, Sequences, FiniteSets

CONSTANTS
    DeviceCount, FunctionCount, \* 32 devices to a bus, 8 functions to a device
    PortCount,                  \* 32 ports to a controller
    MaxDrivers,                 \* 16 places in ahci_drivers
    Counts,                     \* what malloc's memory may hold where port_count lies
    Machines
        \* what firmware and hardware show: tables (the signatures of the XSDT),
        \* buses (the entries of the MCFG, [start_bus, end_bus]), class (of the
        \* functions that are there), ports (per function, the ports implemented
        \* and what is attached: PortType, or "off" for a drive that sleeps)

PortType == {"NONE", "SATA", "SEMB", "PM", "SATAPI"}

\* The buses one entry of the MCFG gives the walk.
BusRange(e) == e.start_bus .. e.end_bus - 1

\* What is known of a machine: the ranges of its MCFG do not overlap (its buses
\* are numbered through), functions have places on a bus, and AHCI functions
\* have at most as many ports as a controller.
Describable(m) ==
    /\ m.buses \in Seq([start_bus : Nat, end_bus : Nat])
    /\ \A t, u \in 1 .. Len(m.buses) : t # u => BusRange(m.buses[t]) \cap BusRange(m.buses[u]) = {}
    /\ DOMAIN m.class \subseteq Nat \X (0 .. DeviceCount - 1) \X (0 .. FunctionCount - 1)
    /\ \A a \in DOMAIN m.class : m.class[a] = "ahci" => DOMAIN m.ports[a] \subseteq 0 .. PortCount - 1

ASSUME ScanAssumption ==
    /\ {DeviceCount, FunctionCount, PortCount, MaxDrivers} \subseteq Nat \ {0}
    /\ 0 \in Counts /\ Counts \subseteq Nat
    /\ \A m \in Machines : Describable(m)

VARIABLES
    machine, scan,
    entry, bus, device, function,   \* the counters of the four loops
    drivers,                        \* ahci_drivers, as long as ahci_driver_count
    port_count, ports, disk_drive,  \* of the driver under construction
    port,                           \* counter of the loops over its ports
    configured                      \* ghost: the <<function, port>> configured so far, in order

walk == <<entry, bus, device, function>>
construction == <<port_count, ports, disk_drive, port>>
scanVars == <<machine, scan, walk, drivers, construction, configured>>

NoPort == -1
Garbage == -2

ScanTypeOK ==
    /\ scan \in {"find", "bus", "device", "function", "probe", "configure", "done", "wild"}
    /\ entry \in 1 .. Len(machine.buses) + 1
    /\ bus \in Nat /\ device \in 0 .. DeviceCount /\ function \in 0 .. FunctionCount
    /\ port \in 0 .. PortCount /\ port_count \in Nat
    /\ \A i \in 1 .. Len(drivers) : drivers[i].at \in DOMAIN machine.class

ScanInit ==
    /\ machine \in Machines /\ scan = "find"
    /\ entry = 1 /\ bus = 0 /\ device = 0 /\ function = 0
    /\ drivers = <<>> /\ configured = <<>>
    /\ port_count = 0 /\ ports = <<>> /\ disk_drive = NoPort /\ port = 0

-----------------------------------------------------------------------------
(* The walk. *)

\* The header of a function that is not there reads as 0xFFFF.
Present(b, d, f) == <<b, d, f>> \in DOMAIN machine.class

\* The first bus of MCFG entry t: the loop of a range that is empty has no turn.
FirstBus(t) == IF t > Len(machine.buses) THEN 0 ELSE machine.buses[t].start_bus

\* find_table answers 0 when no signature matches, and enumerate_pci then reads
\* a table at address 0.
find_table ==
    /\ scan = "find"
    /\ scan' = (IF \E i \in 1 .. Len(machine.tables) : machine.tables[i] = "MCFG" THEN "bus" ELSE "wild")
    /\ bus' = FirstBus(1)
    /\ UNCHANGED <<machine, entry, device, function, drivers, construction, configured>>

\* mutant: the last device of a bus is left out
LastDeviceShort(d) == d = DeviceCount - 1

LastDevice(d) == d = DeviceCount

\* One turn of the bus loop: "bus < end_bus", and a bus without a function 0 of
\* device 0 is passed over.
enumerate_bus ==
    /\ scan = "bus"
    /\ \/ entry > Len(machine.buses) /\ scan' = "done" /\ UNCHANGED walk
       \/ /\ entry <= Len(machine.buses) /\ bus >= machine.buses[entry].end_bus
          /\ entry' = entry + 1 /\ bus' = FirstBus(entry + 1)
          /\ UNCHANGED <<scan, device, function>>
       \/ /\ entry <= Len(machine.buses) /\ bus < machine.buses[entry].end_bus
          /\ \/ Present(bus, 0, 0) /\ scan' = "device" /\ device' = 0 /\ UNCHANGED bus
             \/ ~Present(bus, 0, 0) /\ bus' = bus + 1 /\ UNCHANGED <<scan, device>>
          /\ UNCHANGED <<entry, function>>
    /\ UNCHANGED <<machine, drivers, construction, configured>>

enumerate_device ==
    /\ scan = "device"
    /\ \/ LastDevice(device) /\ scan' = "bus" /\ bus' = bus + 1 /\ UNCHANGED <<device, function>>
       \/ /\ ~LastDevice(device)
          /\ \/ Present(bus, device, 0) /\ scan' = "function" /\ function' = 0 /\ UNCHANGED device
             \/ ~Present(bus, device, 0) /\ device' = device + 1 /\ UNCHANGED <<scan, function>>
          /\ UNCHANGED bus
    /\ UNCHANGED <<machine, entry, drivers, construction, configured>>

\* An AHCI 1.0 function (class 1, subclass 6, interface 1) gets a driver, whose
\* members hold what malloc's memory held.
enumerate_function ==
    /\ scan = "function"
    /\ \/ /\ function = FunctionCount
          /\ scan' = "device" /\ device' = device + 1
          /\ UNCHANGED <<function, construction>>
       \/ /\ function < FunctionCount
          /\ Present(bus, device, function) /\ machine.class[<<bus, device, function>>] = "ahci"
          /\ scan' = "probe" /\ port' = 0
          /\ port_count' \in Counts
          /\ ports' = [i \in 0 .. port_count' - 1 |-> Garbage]
          /\ disk_drive' = Garbage
          /\ UNCHANGED <<device, function>>
       \/ /\ function < FunctionCount
          /\ Present(bus, device, function) => machine.class[<<bus, device, function>>] # "ahci"
          /\ function' = function + 1
          /\ UNCHANGED <<scan, device, construction>>
    /\ UNCHANGED <<machine, entry, bus, drivers, configured>>

-----------------------------------------------------------------------------
(* The constructor of a driver. *)

Here == <<bus, device, function>>

\* What check_port_type makes of port i.  A drive that is not active is none.
check_port_type(i) ==
    IF machine.ports[Here][i] \in PortType THEN machine.ports[Here][i] ELSE "NONE"

HasDrive(i) == check_port_type(i) \in {"SATA", "SATAPI"}

\* One turn of probe_ports.
probe_ports ==
    /\ scan = "probe"
    /\ \/ port = PortCount /\ scan' = "configure" /\ port' = 0 /\ UNCHANGED <<port_count, ports, disk_drive>>
       \/ /\ port < PortCount
          /\ port' = port + 1
          /\ IF port \in DOMAIN machine.ports[Here] /\ HasDrive(port)
             THEN /\ ports' = [i \in DOMAIN ports \cup {port_count} |->
                                  IF i = port_count THEN port ELSE ports[i]]
                  /\ port_count' = port_count + 1
                  /\ disk_drive' = IF check_port_type(port) = "SATA" THEN port ELSE disk_drive
             ELSE UNCHANGED <<port_count, ports, disk_drive>>
          /\ UNCHANGED scan
    /\ UNCHANGED <<machine, walk, drivers, configured>>

\* mutant: ports are counted from one
ChosenDriveFromOne(i) == IF i = 1 THEN ports[i] ELSE disk_drive

\* Port 0 of the array is the drive, whatever probe_ports chose.
ChosenDrive(i) == IF i = 0 THEN ports[i] ELSE disk_drive

\* One turn of the constructor's loop; afterwards the driver is registered and
\* the next function is looked at.  One driver more than ahci_drivers has places is
\* written behind it.
configure ==
    /\ scan = "configure"
    /\ \/ /\ \/ port < port_count /\ ports[port] = Garbage
             \/ port = port_count /\ Len(drivers) = MaxDrivers
          /\ scan' = "wild" /\ UNCHANGED <<function, drivers, construction, configured>>
       \/ /\ port < port_count /\ ports[port] # Garbage
          /\ configured' = Append(configured, <<Here, ports[port]>>)
          /\ disk_drive' = ChosenDrive(port)
          /\ port' = port + 1
          /\ UNCHANGED <<scan, function, drivers, port_count, ports>>
       \/ /\ port = port_count /\ Len(drivers) # MaxDrivers
          /\ drivers' = Append(drivers, [at |-> Here, disk_drive |-> disk_drive])
          /\ scan' = "function" /\ function' = function + 1 /\ port' = 0
          /\ UNCHANGED <<port_count, ports, disk_drive, configured>>
    /\ UNCHANGED <<machine, entry, bus, device>>

ScanNext == find_table \/ enumerate_bus \/ enumerate_device \/ enumerate_function \/ probe_ports \/ configure

ScanSpec == ScanInit /\ [][ScanNext]_scanVars

-----------------------------------------------------------------------------
(* What the walk is for. *)

\* The AHCI functions a walk has to find: on the buses of some entry but its
\* last, where the bus and the device show a function 0.
Reachable ==
    {a \in DOMAIN machine.class :
        /\ machine.class[a] = "ahci"
        /\ \E t \in 1 .. Len(machine.buses) :
              a[1] \in BusRange(machine.buses[t])
        /\ Present(a[1], 0, 0) /\ Present(a[1], a[2], 0)}

\* Drives of the controller at a, as port numbers.
Drives(a) == {i \in DOMAIN machine.ports[a] : machine.ports[a][i] \in {"SATA", "SATAPI"}}

\* A walk that is through has made one driver for every AHCI function it had to
\* find and for nothing else, and configured every drive of them once.
EveryControllerOnce ==
    /\ ScanTypeOK
    /\ scan = "done" =>
          /\ {drivers[i].at : i \in 1 .. Len(drivers)} = Reachable
          /\ Len(drivers) = Cardinality(Reachable)
          /\ {configured[i] : i \in 1 .. Len(configured)} = UNION {{a} \X Drives(a) : a \in Reachable}
          /\ Len(configured) = Cardinality(UNION {{a} \X Drives(a) : a \in Reachable})

\* What a file system is given is a drive of its controller that was configured, and
\* never what malloc's memory held there, unless the controller has no drive at all.
\* It may be an optical one.
DriveIsConfigured ==
    \A i \in 1 .. Len(drivers) :
        LET a == drivers[i].at IN
        Drives(a) # {} =>
            /\ drivers[i].disk_drive \in Drives(a)
            /\ \E j \in 1 .. Len(configured) : configured[j] = <<a, drivers[i].disk_drive>>

\* "this is the disk drive" (ahci.cpp:198), which probe_ports looks for among the SATA
\* ports (ahci.cpp:229): where a controller has a disk, the drive it gives is one.
\* The code breaks this: the constructor overwrites the choice with the first port.
DriveIsDisk ==
    \A i \in 1 .. Len(drivers) :
        LET a == drivers[i].at
            disks == {p \in Drives(a) : machine.ports[a][p] = "SATA"}
        IN  disks # {} => drivers[i].disk_drive \in disks
=============================================================================
