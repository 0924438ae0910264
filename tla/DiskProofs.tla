----------------------------- MODULE DiskProofs -----------------------------
(***************************************************************************)
(* Proofs about the disk driver.  About DiskPort, for every size of disk,  *)
(* length of call, limit of the spin and set of sector contents: the       *)
(* engine stands still when it is given new memory, and the port and its   *)
(* driver implement Disk.  About DeviceScan, for every machine it can      *)
(* describe: a walk that is through has found each controller once, and    *)
(* the file system is given the first drive of its own.                    *)
(***************************************************************************)
EXTENDS DiskPort, DeviceScan, FiniteSetTheorems, TLAPS

\* Where the driver waits for the command it has issued.
Waiting == {"done", "error"}

-----------------------------------------------------------------------------
(***************************************************************************)
(* The inductive invariant.                                                *)
(***************************************************************************)

\* During configure the port has nothing to do; once the enable bits are off
\* each running bit that was seen off stays off.
EngineStops ==
    /\ pc \in Configuring => ~running /\ ~command_issue
    /\ pc = "stop" => ~tfes
    /\ pc \in {"fr", "cr", "bases", "start"} => ~st /\ ~fre
    /\ pc \in {"cr", "bases", "start"} => ~fr
    /\ pc \in {"bases", "start"} => ~cr

\* The port works on a command only while the driver waits for it, and the
\* command is that of the open call.  One that failed stays in command_issue
\* and keeps the port from fetching another.
OnlyOpenCalls ==
    /\ running => command_issue /\ ~halted
    /\ halted => command_issue
    /\ tfes => halted
    /\ command_issue /\ ~halted => pc \in Waiting
    /\ pc \in Waiting \cup {"issue"} => posted = call

\* What the port has moved so far agrees, and it has moved everything when the
\* bit in command_issue is seen off.
Agreement ==
    /\ running => /\ moved <= call.count
                  /\ \A i \in 0 .. moved - 1 : D!Agrees(call, i)
    /\ pc \in Waiting /\ ~command_issue =>
          \A i \in 0 .. call.count - 1 : D!Agrees(call, i)

IInv == TypeOK /\ EngineStops /\ OnlyOpenCalls /\ Agreement

\* The fields of a call.
LEMMA CallFields ==
  ASSUME NEW c \in D!Calls
  PROVE  /\ c.write \in BOOLEAN /\ c.first \in 0 .. Sectors - 1 /\ c.count \in 1 .. MaxCount
         /\ c.first + c.count <= Sectors
         /\ c # NoCall
  BY DEF D!Calls, NoCall, D!NoCall

\* The fields of NoCall, with no sector to move.
LEMMA NoCallFields == NoCall.count = 0
  BY DEF NoCall, D!NoCall

\* The Boolean part of TypeOK.
Flags ==
    /\ answer \in BOOLEAN
    /\ {command_issue, tfes, busy, st, fre, cr, fr, running, halted, dead} \subseteq BOOLEAN

\* The invariant holds when configure is called, whatever the firmware left.
LEMMA IInvInit == Init => IInv
<1> SUFFICES ASSUME Init PROVE IInv
  OBVIOUS
<1> USE DEF Configuring, Calling, Waiting
<1>1. Flags
  BY DEF Init, Flags
<1>2. TypeOK
  BY <1>1, DiskPortAssumption DEF Init, TypeOK, Flags
<1>3. EngineStops /\ OnlyOpenCalls /\ Agreement
  BY DEF Init, EngineStops, OnlyOpenCalls, Agreement
<1> QED
  BY <1>2, <1>3 DEF IInv

\* A step of configure keeps the invariant.
LEMMA ConfigureKeeps == IInv /\ Configure => IInv'
<1> SUFFICES ASSUME IInv, Configure PROVE IInv'
  OBVIOUS
<1> USE DEF Configuring, Calling, Waiting
<1>1. TypeOK'
  BY DEF IInv, TypeOK, Configure, StopCommand, StopTestFR, StopTestCR, SetBases, StartCommand,
         Goto, registers, engine, command
<1>2. EngineStops'
  BY DEF IInv, EngineStops, Configure, StopCommand, StopTestFR, StopTestCR, SetBases,
         StartCommand, Goto, registers, engine, command
<1>3. OnlyOpenCalls' /\ Agreement'
  BY DEF IInv, EngineStops, OnlyOpenCalls, Agreement, Configure, StopCommand, StopTestFR,
         StopTestCR, SetBases, StartCommand, Goto, registers, engine, command
<1> QED
  BY <1>1, <1>2, <1>3 DEF IInv

\* So does a step of read or write.
LEMMA DriverKeeps == IInv /\ read_write => IInv'
<1> SUFFICES ASSUME IInv, read_write PROVE IInv'
  OBVIOUS
<1> USE DEF Configuring, Calling, Waiting
<1>1. TypeOK'
  <2>1. Flags'
    BY DEF IInv, TypeOK, Flags, read_write, Spin, ClearStatus, BuildCommand, IssueCommand,
           TestDone, TestError, Return, registers, engine, command
  <2>2. CASE Spin
    BY <2>1, <2>2, DiskPortAssumption DEF IInv, TypeOK, Flags, Spin, Return, command
  <2>3. CASE ~Spin
    BY <2>1, <2>3 DEF IInv, TypeOK, Flags, read_write, ClearStatus, BuildCommand, IssueCommand,
           TestDone, TestError, Return, Goto, command
  <2> QED
    BY <2>2, <2>3
<1>2. EngineStops'
  BY DEF IInv, EngineStops, read_write, Spin, ClearStatus, BuildCommand, IssueCommand,
         TestDone, TestError, Return, Goto, registers, engine, command
<1>3. OnlyOpenCalls'
  BY DEF IInv, OnlyOpenCalls, read_write, Spin, ClearStatus, BuildCommand, IssueCommand,
         TestDone, TestError, Return, Goto, registers, engine, command
<1>4. Agreement'
  BY DEF IInv, OnlyOpenCalls, Agreement, D!Agrees, read_write, Spin, ClearStatus, BuildCommand,
         IssueCommand, TestDone, TestError, Return, Goto, registers, engine, command
<1> QED
  BY <1>1, <1>2, <1>3, <1>4 DEF IInv

\* So does the call itself.
LEMMA CallKeeps == ASSUME IInv, NEW c \in D!Calls, Call(c) PROVE IInv'
<1> USE DEF Configuring, Calling, Waiting
<1>1. TypeOK'
  BY DiskPortAssumption, CallFields DEF IInv, TypeOK, Call, Goto, registers, engine, command
<1>2. EngineStops' /\ OnlyOpenCalls' /\ Agreement'
  BY DEF IInv, EngineStops, OnlyOpenCalls, Agreement, Call, Goto, registers, engine, command
<1> QED
  BY <1>1, <1>2 DEF IInv

\* While the port carries out a command, it is the open call.
LEMMA RunningCall ==
  ASSUME IInv, running
  PROVE  /\ pc \in Waiting /\ posted = call /\ call \in D!Calls
         /\ moved \in 0 .. call.count
  BY CallFields DEF IInv, TypeOK, OnlyOpenCalls, Agreement, Waiting, Calling

\* One sector is moved: it agrees afterwards, and so do those moved before.
LEMMA TransferKeeps == IInv /\ Transfer => IInv'
<1> SUFFICES ASSUME IInv, Transfer PROVE IInv'
  OBVIOUS
<1> DEFINE c == call
<1>1. /\ pc \in Waiting /\ posted = c /\ c \in D!Calls /\ moved \in 0 .. c.count
      /\ running /\ moved < c.count /\ moved' = moved + 1
      /\ UNCHANGED <<driver, registers, engine, running, halted, dead>>
  BY RunningCall DEF Transfer
<1>2. /\ c.first \in 0 .. Sectors - 1 /\ c.count \in 1 .. MaxCount /\ c.first + c.count <= Sectors
      /\ MaxCount \in Nat /\ Sectors \in Nat
  BY <1>1, CallFields, DiskPortAssumption
<1>3. moved \in 0 .. MaxCount - 1 /\ c.first + moved \in 0 .. Sectors - 1
      /\ moved + 1 \in 0 .. MaxCount /\ moved + 1 <= c.count
  BY <1>1, <1>2
<1>4. /\ stored \in [0 .. Sectors - 1 -> Data] /\ buffer \in [0 .. MaxCount - 1 -> Data]
  BY DEF IInv, TypeOK
<1>5. /\ stored' \in [0 .. Sectors - 1 -> Data] /\ buffer' \in [0 .. MaxCount - 1 -> Data]
      /\ \A i \in 0 .. moved : buffer'[i] = stored'[c.first + i]
  <2>1. \A i \in 0 .. moved - 1 : buffer[i] = stored[c.first + i]
    BY <1>1 DEF IInv, Agreement, D!Agrees
  <2>2. CASE posted.write
    <3>1. stored' = [stored EXCEPT ![c.first + moved] = buffer[moved]] /\ buffer' = buffer
      BY <1>1, <2>2 DEF Transfer
    <3>2. stored' \in [0 .. Sectors - 1 -> Data] /\ buffer' \in [0 .. MaxCount - 1 -> Data]
      BY <1>3, <1>4, <3>1
    <3>3. ASSUME NEW i \in 0 .. moved - 1 PROVE buffer'[i] = stored'[c.first + i]
      <4>1. c.first + i \in 0 .. Sectors - 1 /\ c.first + i # c.first + moved
        BY <1>1, <1>2, <1>3
      <4> QED
        BY <1>4, <2>1, <3>1, <4>1
    <3>4. buffer'[moved] = stored'[c.first + moved]
      BY <1>3, <1>4, <3>1
    <3>5. \A i \in 0 .. moved : i \in 0 .. moved - 1 \/ i = moved
      BY <1>3
    <3> QED
      BY <3>2, <3>3, <3>4, <3>5, Zenon
  <2>3. CASE ~posted.write
    <3>1. buffer' = [buffer EXCEPT ![moved] = stored[c.first + moved]] /\ stored' = stored
      BY <1>1, <2>3 DEF Transfer
    <3> QED
      BY <1>1, <1>2, <1>3, <1>4, <2>1, <3>1
  <2> QED
    BY <2>2, <2>3
<1>6. TypeOK'
  BY <1>1, <1>3, <1>5 DEF IInv, TypeOK, driver, registers, engine
<1>7. EngineStops' /\ OnlyOpenCalls'
  BY <1>1 DEF IInv, EngineStops, OnlyOpenCalls, driver, registers, engine
<1>8. Agreement'
  <2>1. call' = c /\ command_issue' /\ moved' <= c.count
    BY <1>1, <1>3 DEF IInv, OnlyOpenCalls, driver, registers
  <2>2. \A i \in 0 .. moved' - 1 : D!Agrees(c, i)'
    BY <1>1, <1>3, <1>5, <2>1 DEF D!Agrees
  <2> QED
    BY <2>1, <2>2 DEF Agreement
<1> QED
  BY <1>6, <1>7, <1>8 DEF IInv

\* So do the other steps of the port.
LEMMA PortKeeps == IInv /\ (PortStep \/ Die) => IInv'
<1> SUFFICES ASSUME IInv, PortStep \/ Die PROVE IInv'
  OBVIOUS
<1> USE DEF Configuring, Calling, Waiting
<1>1. CASE EngineFollows
  <2>1. TypeOK'
    BY <1>1 DEF IInv, TypeOK, EngineFollows, driver, registers, command
  <2>2. EngineStops'
    BY <1>1 DEF IInv, TypeOK, EngineStops, EngineFollows, driver, registers, command
  <2>3. OnlyOpenCalls' /\ Agreement'
    BY <1>1 DEF IInv, OnlyOpenCalls, Agreement, D!Agrees, EngineFollows, driver, registers, command
  <2> QED
    BY <2>1, <2>2, <2>3 DEF IInv
<1>2. CASE SpinUp
  BY <1>2 DEF IInv, TypeOK, EngineStops, OnlyOpenCalls, Agreement, D!Agrees, SpinUp, driver,
              engine, command
<1>3. CASE Fetch
  <2>1. call \in D!Calls /\ call.count \in 1 .. MaxCount
    BY <1>3, CallFields DEF IInv, TypeOK, OnlyOpenCalls, Fetch
  <2>2. TypeOK' /\ EngineStops' /\ OnlyOpenCalls'
    BY <1>3, DiskPortAssumption DEF IInv, TypeOK, EngineStops, OnlyOpenCalls, Fetch, driver, engine
  <2>3. Agreement'
    BY <1>3, <2>1, DiskPortAssumption DEF IInv, Agreement, Fetch, driver
  <2> QED
    BY <2>2, <2>3 DEF IInv
<1>4. CASE Transfer
  BY <1>4, TransferKeeps
<1>5. CASE Complete
  <2>1. pc \in Waiting /\ posted = call /\ moved = call.count
    BY <1>5, RunningCall DEF Complete
  <2>2. Flags'
    BY <1>5 DEF IInv, TypeOK, Flags, Complete, driver, engine
  <2>3. TypeOK'
    BY <1>5, <2>2, DiskPortAssumption DEF IInv, TypeOK, Flags, Complete, driver
  <2>4. EngineStops' /\ OnlyOpenCalls'
    BY <1>5 DEF IInv, EngineStops, OnlyOpenCalls, Complete, driver, engine
  <2>5. Agreement'
    BY <1>5, <2>1 DEF IInv, Agreement, D!Agrees, Complete, driver
  <2> QED
    BY <2>3, <2>4, <2>5 DEF IInv
<1>6. CASE Fail
  <2>1. pc \in Waiting /\ command_issue
    BY <1>6, RunningCall DEF Fail, IInv, OnlyOpenCalls
  <2>2. Flags'
    BY <1>6 DEF IInv, TypeOK, Flags, Fail, driver, engine
  <2>3. TypeOK'
    BY <1>6, <2>2, DiskPortAssumption DEF IInv, TypeOK, Flags, Fail, driver
  <2>4. EngineStops' /\ OnlyOpenCalls' /\ Agreement'
    BY <1>6, <2>1 DEF IInv, EngineStops, OnlyOpenCalls, Agreement, Fail, driver, engine
  <2> QED
    BY <2>3, <2>4 DEF IInv
<1>7. CASE Die
  BY <1>7 DEF IInv, TypeOK, EngineStops, OnlyOpenCalls, Agreement, D!Agrees, Die, driver,
              registers, engine, command
<1> QED
  BY <1>1, <1>2, <1>3, <1>4, <1>5, <1>6, <1>7 DEF PortStep

\* Every step keeps the invariant.
LEMMA IInvNext == IInv /\ [Next]_vars => IInv'
<1> SUFFICES ASSUME IInv, [Next]_vars PROVE IInv'
  OBVIOUS
<1>1. CASE UNCHANGED vars
  BY <1>1 DEF IInv, TypeOK, EngineStops, OnlyOpenCalls, Agreement, D!Agrees, vars, driver,
              registers, engine, command
<1> QED
  BY <1>1, ConfigureKeeps, DriverKeeps, CallKeeps, PortKeeps DEF Next

\* The inductive invariant holds in every reachable state.
THEOREM Invariance == Spec => []IInv
  BY IInvInit, IInvNext, PTL DEF Spec

\* configure never replaces the memory of an engine that runs.
THEOREM BasesSetWhenStoppedHolds == Spec => []BasesSetWhenStopped
<1>1. IInv => BasesSetWhenStopped
  BY DEF IInv, EngineStops, BasesSetWhenStopped, Configuring
<1> QED
  BY <1>1, Invariance, PTL

-----------------------------------------------------------------------------
\* A step of the driver returns from the call or is invisible to the caller.
LEMMA DriverImplements ==
  ASSUME IInv, Configure \/ read_write
  PROVE  D!Next \/ UNCHANGED D!diskVars
<1>1. CASE Configure
  BY <1>1 DEF Configure, StopCommand, StopTestFR, StopTestCR, SetBases, StartCommand, D!diskVars
<1>2. CASE UNCHANGED call /\ read_write
  BY <1>2 DEF read_write, Spin, ClearStatus, BuildCommand, IssueCommand, TestDone, TestError,
              Return, D!diskVars, IInv, TypeOK, Calling, Configuring
<1>3. ASSUME read_write, call' # call
      PROVE  \E result \in BOOLEAN : D!Return(result)
  <2>1. PICK result \in BOOLEAN :
          /\ pc \in Calling /\ Return(result) /\ UNCHANGED <<stored, buffer>>
          /\ result => pc = "done" /\ ~command_issue
    BY <1>3 DEF read_write, Spin, ClearStatus, BuildCommand, IssueCommand, TestDone, TestError,
                Return, Calling
  <2>2. call # NoCall
    BY <2>1 DEF IInv, TypeOK
  <2>3. result => \A i \in 0 .. call.count - 1 : D!Agrees(call, i)
    BY <2>1 DEF IInv, Agreement, Waiting
  <2> QED
    BY <2>1, <2>2, <2>3 DEF Return, D!Return, NoCall
<1> QED
  BY <1>1, <1>2, <1>3 DEF D!Next

\* A step of the port moves a sector of the open call or is invisible.
LEMMA PortImplements ==
  ASSUME IInv, PortStep \/ Die
  PROVE  D!Next \/ UNCHANGED D!diskVars
<1>1. CASE Transfer
  <2>1. posted = call /\ call \in D!Calls /\ moved \in 0 .. call.count - 1 /\ UNCHANGED <<call, answer>>
    BY <1>1, RunningCall, CallFields DEF Transfer, driver
  <2>2. moved \in 0 .. MaxCount - 1
    BY <2>1, CallFields, DiskPortAssumption
  <2>3. D!MoveSector(moved)
    BY <1>1, <2>1 DEF Transfer, D!MoveSector
  <2> QED
    BY <2>2, <2>3 DEF D!Next
<1>2. CASE ~Transfer
  BY <1>2 DEF PortStep, EngineFollows, SpinUp, Fetch, Complete, Fail, Die, driver, D!diskVars
<1> QED
  BY <1>1, <1>2

\* The port with its driver is a disk as FatTable and every caller of read and
\* write relies on it.
THEOREM Refinement == Spec => ImplementsDisk
<1>1. Init => D!Init
  BY DEF Init, D!Init, NoCall
<1>2. ASSUME IInv, [Next]_vars
      PROVE  [D!Next]_(D!diskVars)
  <2>1. ASSUME NEW c \in D!Calls, Call(c)
        PROVE  D!Begin(c)
    BY <1>2, <2>1 DEF Call, Goto, D!Begin, IInv, TypeOK, Calling, NoCall
  <2>2. CASE UNCHANGED vars
    BY <2>2 DEF vars, driver, D!diskVars
  <2> QED
    BY <1>2, <2>1, <2>2, DriverImplements, PortImplements DEF Next, D!Next
<1> QED
  BY <1>1, <1>2, Invariance, PTL DEF Spec, ImplementsDisk, D!Spec

-----------------------------------------------------------------------------
(***************************************************************************)
(* The walk over the machine and its inductive invariant.                  *)
(***************************************************************************)

\* Inside the loops over devices, functions and the ports of a controller.
OnBus == {"device", "function", "probe", "configure"}
OnDevice == {"function", "probe", "configure"}
Building == {"probe", "configure"}

Entries == 1 .. Len(machine.buses)
BusesOf(t) == BusRange(machine.buses[t])

\* The counters of the four loops are at a place that is there.
Position ==
    /\ machine \in Machines
    /\ scan \in {"find", "bus", "device", "function", "probe", "configure", "done", "wild"}
    /\ entry \in 1 .. Len(machine.buses) + 1 /\ bus \in Nat
    /\ device \in 0 .. DeviceCount /\ function \in 0 .. FunctionCount
    /\ scan = "find" => entry = 1 /\ bus = 0
    /\ scan = "bus" /\ entry \in Entries => bus >= machine.buses[entry].start_bus
    /\ scan \in OnBus => entry \in Entries /\ bus \in BusesOf(entry) /\ Present(bus, 0, 0)
    /\ scan \in OnDevice => device < DeviceCount /\ Present(bus, device, 0)
    /\ scan \in Building =>
          /\ function < FunctionCount
          /\ Here \in DOMAIN machine.class /\ machine.class[Here] = "ahci"
    /\ scan = "done" => entry = Len(machine.buses) + 1

\* What the walk has passed of the bus it is on, and of the range t.
PassedHere(a) ==
    \/ scan \in OnBus /\ a[2] < device
    \/ scan \in OnDevice /\ a[2] = device /\ a[3] < function
Passed(a, t) ==
    t < entry \/ (t = entry /\ (a[1] < bus \/ (a[1] = bus /\ PassedHere(a))))

\* The controllers the walk has passed.
Visited == {a \in Reachable : \E t \in Entries : a[1] \in BusesOf(t) /\ Passed(a, t)}

\* The ports of the driver under construction: the drives of the controller below
\* limit in ascending order, unless malloc's memory held a number where port_count
\* lies; the loop of configure then meets what lies where the first port should.
Limit == IF scan = "probe" THEN port ELSE PortCount
Lists(ps, n, S, limit) ==
    /\ n <= limit
    /\ \A i \in 0 .. n - 1 : ps[i] \in S /\ ps[i] < limit
    /\ \A i, j \in 0 .. n - 1 : i < j => ps[i] < ps[j]
    /\ \A d \in S : d < limit => \E i \in 0 .. n - 1 : ps[i] = d
Exact ==
    /\ Lists(ports, port_count, Drives(Here), Limit)
    /\ scan = "configure" /\ port > 0 => disk_drive = ports[0]
Misled == port_count > 0 /\ ports[0] = Garbage /\ (scan = "configure" => port = 0)

Constructing ==
    /\ port \in 0 .. PortCount /\ port_count \in Nat
    /\ scan \in Building =>
          /\ disk_drive \in Int
          /\ DOMAIN ports = 0 .. port_count - 1
          /\ Exact \/ Misled
    /\ scan = "configure" => port <= port_count

\* A driver for each controller that was passed.
Registered ==
    /\ drivers \in Seq([at : DOMAIN machine.class, disk_drive : Int])
    /\ \A i, j \in 1 .. Len(drivers) : drivers[i].at = drivers[j].at => i = j
    /\ scan # "wild" => \A a : (\E i \in 1 .. Len(drivers) : drivers[i].at = a) <=> a \in Visited

\* The drives of the controllers that were passed are configured, and of the one
\* at hand those that configure has come to.
Done(a, d) ==
    \/ a \in Visited /\ d \in Drives(a)
    \/ scan = "configure" /\ a = Here /\ \E i \in 0 .. port - 1 : ports[i] = d
Set ==
    /\ configured \in Seq((DOMAIN machine.class) \X Int)
    /\ \A i, j \in 1 .. Len(configured) : configured[i] = configured[j] => i = j
    /\ scan # "wild" =>
          \A a, d : (\E i \in 1 .. Len(configured) : configured[i] = <<a, d>>) <=> Done(a, d)

ScanInv == Position /\ Constructing /\ Registered /\ Set /\ DriveIsConfigured

-----------------------------------------------------------------------------
(* What a machine is. *)

\* The counts are positive and every machine is one that can be described.
LEMMA Counted ==
  /\ DeviceCount \in Nat \ {0} /\ FunctionCount \in Nat \ {0} /\ PortCount \in Nat \ {0}
  /\ Counts \subseteq Nat /\ \A m \in Machines : Describable(m)
  BY ScanAssumption

\* The entries of the MCFG name ranges of buses that do not overlap.
LEMMA Buses ==
  ASSUME machine \in Machines
  PROVE  /\ Len(machine.buses) \in Nat
         /\ \A t \in Entries : machine.buses[t].start_bus \in Nat /\ machine.buses[t].end_bus \in Nat
         /\ \A t, u \in Entries : t # u => BusesOf(t) \cap BusesOf(u) = {}
         /\ \A t : FirstBus(t) = IF t > Len(machine.buses) THEN 0 ELSE machine.buses[t].start_bus
<1>1. machine.buses \in Seq([start_bus : Nat, end_bus : Nat]) /\ Describable(machine)
  BY Counted DEF Describable
<1>2. /\ Len(machine.buses) \in Nat
      /\ \A t \in Entries : machine.buses[t].start_bus \in Nat /\ machine.buses[t].end_bus \in Nat
  <2>1. ASSUME NEW S, NEW s \in Seq(S) PROVE Len(s) \in Nat /\ \A t \in 1 .. Len(s) : s[t] \in S
    OBVIOUS
  <2>2. /\ Len(machine.buses) \in Nat
        /\ \A t \in Entries : machine.buses[t] \in [start_bus : Nat, end_bus : Nat]
    BY <1>1, <2>1 DEF Entries
  <2> QED
    BY <2>2
<1>3. \A t, u \in Entries : t # u => BusesOf(t) \cap BusesOf(u) = {}
  BY <1>1 DEF Describable, Entries, BusesOf
<1> QED
  BY <1>2, <1>3 DEF FirstBus

\* A function has a place on a bus.
LEMMA Places ==
  ASSUME machine \in Machines, NEW a \in DOMAIN machine.class
  PROVE  /\ a = <<a[1], a[2], a[3]>>
         /\ a[1] \in Nat /\ a[2] \in 0 .. DeviceCount - 1 /\ a[3] \in 0 .. FunctionCount - 1
  BY Counted DEF Describable

\* The walk has to find those that are behind a function 0.
LEMMA ToFind ==
  ASSUME machine \in Machines, NEW a \in Reachable
  PROVE  /\ a \in DOMAIN machine.class /\ machine.class[a] = "ahci"
         /\ Present(a[1], 0, 0) /\ Present(a[1], a[2], 0)
  BY DEF Reachable

\* The drives of a controller are at ports the driver looks at.
LEMMA Attached ==
  ASSUME machine \in Machines, NEW a \in DOMAIN machine.class, machine.class[a] = "ahci"
  PROVE  /\ Drives(a) \subseteq 0 .. PortCount - 1
         /\ \A d : d \in Drives(a) <=> /\ d \in DOMAIN machine.ports[a]
                                       /\ machine.ports[a][d] \in {"SATA", "SATAPI"}
  BY Counted DEF Describable, Drives

\* What depends on nothing but the machine stays.
LEMMA Stays ==
  ASSUME machine' = machine
  PROVE  /\ Reachable' = Reachable /\ Entries' = Entries
         /\ \A t : BusesOf(t)' = BusesOf(t)
         /\ \A a : Drives(a)' = Drives(a)
         /\ \A b, d, f : Present(b, d, f)' = Present(b, d, f)
         /\ \A t : FirstBus(t)' = FirstBus(t)
  BY DEF Reachable, Entries, BusesOf, Drives, Present, FirstBus

-----------------------------------------------------------------------------
(* The walk. *)

\* A step that passes no controller visits none.
LEMMA NonePassed ==
  ASSUME machine' = machine,
         \A a \in Reachable, t \in Entries : a[1] \in BusesOf(t) => (Passed(a, t)' <=> Passed(a, t))
  PROVE  Visited' = Visited
  BY Stays DEF Visited

\* find_table and the turns of the loops keep the counters where they should be.
LEMMA FindKeeps ==
  ASSUME Position, find_table
  PROVE  Position' /\ (scan' # "wild" => Visited' = Visited)
<1> USE Buses DEF Position, OnBus, OnDevice, Building
<1>1. machine' = machine /\ scan' \in {"bus", "wild"} /\ entry' = entry /\ bus' = FirstBus(1)
      /\ device' = device /\ function' = function /\ entry = 1 /\ bus = 0 /\ scan = "find"
  BY DEF find_table
<1>2. Position'
  BY <1>1 DEF Entries
<1>3. ASSUME NEW a \in Reachable, NEW t \in Entries, a[1] \in BusesOf(t)
      PROVE  Passed(a, t)' <=> Passed(a, t)
  <2>1. a[1] \in Nat /\ t \in Nat /\ a[1] >= machine.buses[t].start_bus
    BY <1>3, ToFind, Places DEF BusesOf, BusRange, Entries
  <2> QED
    BY <1>1, <2>1 DEF Passed, PassedHere, Entries
<1> QED
  BY <1>1, <1>2, <1>3, NonePassed

LEMMA BusKeeps ==
  ASSUME Position, enumerate_bus
  PROVE  Position' /\ scan' \notin Building /\ scan' # "wild" /\ Visited' = Visited
<1> USE Buses, Stays DEF Position, OnBus, OnDevice, Building
<1>1. machine' = machine /\ scan = "bus"
  BY DEF enumerate_bus
<1>2. CASE entry > Len(machine.buses) /\ scan' = "done" /\ UNCHANGED walk
  <2>1. Position'
    BY <1>1, <1>2 DEF walk
  <2>2. ASSUME NEW a, NEW t PROVE Passed(a, t)' <=> Passed(a, t)
    BY <1>1, <1>2 DEF Passed, PassedHere, walk
  <2> QED
    BY <1>1, <1>2, <2>1, <2>2, NonePassed
<1>3. CASE /\ entry <= Len(machine.buses) /\ bus >= machine.buses[entry].end_bus
           /\ entry' = entry + 1 /\ bus' = FirstBus(entry + 1)
           /\ UNCHANGED <<scan, device, function>>
  <2>1. Position'
    BY <1>1, <1>3 DEF Entries
  <2>2. ASSUME NEW a \in Reachable, NEW t \in Entries, a[1] \in BusesOf(t)
        PROVE  Passed(a, t)' <=> Passed(a, t)
    <3>1. a[1] \in Nat /\ t \in Nat /\ a[1] \in machine.buses[t].start_bus .. machine.buses[t].end_bus - 1
      BY <2>2, ToFind, Places DEF BusesOf, BusRange, Entries
    <3>2. ~PassedHere(a) /\ ~PassedHere(a)'
      BY <1>1, <1>3 DEF PassedHere
    <3>3. entry \in Nat /\ entry' = entry + 1 /\ (t = entry => a[1] < bus)
      BY <1>3, <3>1 DEF Entries
    <3>4. t = entry + 1 => ~(a[1] < bus')
      <4>1. t = entry + 1 => bus' = machine.buses[t].start_bus
        BY <1>3, <3>1 DEF FirstBus, Entries
      <4>2. machine.buses[t].start_bus \in Nat /\ machine.buses[t].end_bus \in Nat
        OBVIOUS
      <4> QED
        BY <3>1, <4>1, <4>2
    <3> QED
      BY <3>1, <3>2, <3>3, <3>4 DEF Passed
  <2> QED
    BY <1>1, <1>3, <2>1, <2>2, NonePassed
<1>4. CASE /\ entry <= Len(machine.buses) /\ bus < machine.buses[entry].end_bus
           /\ Present(bus, 0, 0) /\ scan' = "device" /\ device' = 0 /\ UNCHANGED <<bus, entry, function>>
  <2>1. entry \in Entries /\ bus \in BusesOf(entry)
    BY <1>1, <1>4 DEF Entries, BusesOf, BusRange
  <2>2. Position'
    BY <1>1, <1>4, <2>1, Counted
  <2>3. ASSUME NEW a \in Reachable, NEW t \in Entries, a[1] \in BusesOf(t)
        PROVE  Passed(a, t)' <=> Passed(a, t)
    <3>1. a[2] \in Nat
      BY ToFind, Places
    <3> QED
      BY <1>1, <1>4, <3>1 DEF Passed, PassedHere
  <2> QED
    BY <1>1, <1>4, <2>2, <2>3, NonePassed
<1>5. CASE /\ entry <= Len(machine.buses) /\ bus < machine.buses[entry].end_bus
           /\ ~Present(bus, 0, 0) /\ bus' = bus + 1 /\ UNCHANGED <<scan, device, entry, function>>
  <2>1. Position'
    BY <1>1, <1>5 DEF Entries
  <2>2. ASSUME NEW a \in Reachable, NEW t \in Entries, a[1] \in BusesOf(t)
        PROVE  Passed(a, t)' <=> Passed(a, t)
    <3>1. a[1] \in Nat /\ a[1] # bus
      BY <1>5, ToFind, Places
    <3>2. ~PassedHere(a) /\ ~PassedHere(a)'
      BY <1>1, <1>5 DEF PassedHere
    <3> QED
      BY <1>5, <3>1, <3>2 DEF Passed
  <2> QED
    BY <1>1, <1>5, <2>1, <2>2, NonePassed
<1> QED
  BY <1>1, <1>2, <1>3, <1>4, <1>5 DEF enumerate_bus

LEMMA DeviceKeeps ==
  ASSUME Position, enumerate_device
  PROVE  Position' /\ scan' \notin Building /\ scan' # "wild" /\ Visited' = Visited
<1> USE Buses, Stays DEF Position, OnBus, OnDevice, Building
<1>1. machine' = machine /\ scan = "device" /\ entry' = entry /\ entry \in Entries /\ bus \in BusesOf(entry)
      /\ Present(bus, 0, 0)
  BY DEF enumerate_device
<1>2. bus \in machine.buses[entry].start_bus .. machine.buses[entry].end_bus - 1 /\ bus \in Nat
  BY <1>1 DEF BusesOf, BusRange
<1>3. CASE LastDevice(device) /\ scan' = "bus" /\ bus' = bus + 1 /\ UNCHANGED <<device, function>>
  <2>1. Position'
    BY <1>1, <1>2, <1>3
  <2>2. ASSUME NEW a \in Reachable, NEW t \in Entries, a[1] \in BusesOf(t)
        PROVE  Passed(a, t)' <=> Passed(a, t)
    <3>1. a[1] \in Nat /\ a[2] < DeviceCount /\ a[2] \in Nat
      BY ToFind, Places, Counted
    <3>2. PassedHere(a) /\ ~PassedHere(a)'
      BY <1>1, <1>3, <3>1 DEF PassedHere, LastDevice
    <3> QED
      BY <1>1, <1>2, <1>3, <3>1, <3>2 DEF Passed
  <2> QED
    BY <1>1, <1>3, <2>1, <2>2, NonePassed
<1>4. CASE /\ ~LastDevice(device) /\ Present(bus, device, 0) /\ scan' = "function" /\ function' = 0
           /\ UNCHANGED <<device, bus>>
  <2>1. Position'
    BY <1>1, <1>4, Counted DEF LastDevice
  <2>2. ASSUME NEW a \in Reachable, NEW t \in Entries, a[1] \in BusesOf(t)
        PROVE  Passed(a, t)' <=> Passed(a, t)
    <3>1. a[3] \in Nat
      BY ToFind, Places, Counted
    <3> QED
      BY <1>1, <1>4, <3>1 DEF Passed, PassedHere
  <2> QED
    BY <1>1, <1>4, <2>1, <2>2, NonePassed
<1>5. CASE /\ ~LastDevice(device) /\ ~Present(bus, device, 0) /\ device' = device + 1
           /\ UNCHANGED <<scan, function, bus>>
  <2>1. Position'
    BY <1>1, <1>5, Counted DEF LastDevice
  <2>2. ASSUME NEW a \in Reachable, NEW t \in Entries, a[1] \in BusesOf(t)
        PROVE  Passed(a, t)' <=> Passed(a, t)
    <3>1. a[2] \in Nat /\ (a[1] = bus => a[2] # device)
      BY <1>5, ToFind, Places, Counted
    <3>2. device \in Nat
      BY Counted
    <3> QED
      BY <1>1, <1>5, <3>1, <3>2 DEF Passed, PassedHere
  <2> QED
    BY <1>1, <1>5, <2>1, <2>2, NonePassed
<1> QED
  BY <1>1, <1>3, <1>4, <1>5 DEF enumerate_device

LEMMA FunctionKeeps ==
  ASSUME Position, enumerate_function
  PROVE  Position' /\ scan' # "wild" /\ scan' # "configure" /\ Visited' = Visited
<1> USE Buses, Stays DEF Position, OnBus, OnDevice, Building
<1>1. /\ machine' = machine /\ scan = "function" /\ entry' = entry /\ bus' = bus
      /\ entry \in Entries /\ bus \in BusesOf(entry)
      /\ Present(bus, 0, 0) /\ device \in 0 .. DeviceCount - 1 /\ Present(bus, device, 0)
      /\ DeviceCount \in Nat /\ FunctionCount \in Nat /\ function \in 0 .. FunctionCount
  BY Counted DEF enumerate_function
<1>2. CASE function = FunctionCount /\ scan' = "device" /\ device' = device + 1 /\ function' = function
  <2>1. Position'
    BY <1>1, <1>2
  <2>2. ASSUME NEW a \in Reachable, NEW t \in Entries, a[1] \in BusesOf(t)
        PROVE  Passed(a, t)' <=> Passed(a, t)
    <3>1. a[2] \in Nat /\ a[3] \in Nat /\ a[3] < FunctionCount
      BY <1>1, ToFind, Places
    <3>2. PassedHere(a)' <=> PassedHere(a)
      BY <1>1, <1>2, <3>1 DEF PassedHere
    <3> QED
      BY <1>1, <3>2 DEF Passed
  <2> QED
    BY <1>1, <1>2, <2>1, <2>2, NonePassed
<1>3. CASE /\ function < FunctionCount /\ Present(bus, device, function)
           /\ machine.class[<<bus, device, function>>] = "ahci"
           /\ scan' = "probe" /\ UNCHANGED <<device, function>>
  <2>1. Here' = Here /\ Here \in DOMAIN machine.class /\ machine.class[Here] = "ahci"
    BY <1>1, <1>3 DEF Here, Present
  <2>2. Position'
    BY <1>1, <1>3, <2>1
  <2>3. ASSUME NEW a, NEW t PROVE Passed(a, t)' <=> Passed(a, t)
    BY <1>1, <1>3 DEF Passed, PassedHere
  <2> QED
    BY <1>1, <1>3, <2>2, <2>3, NonePassed
<1>4. CASE /\ function < FunctionCount
           /\ Present(bus, device, function) => machine.class[<<bus, device, function>>] # "ahci"
           /\ function' = function + 1 /\ UNCHANGED <<scan, device>>
  <2>1. Position'
    BY <1>1, <1>4
  <2>2. ASSUME NEW a \in Reachable, NEW t \in Entries, a[1] \in BusesOf(t)
        PROVE  Passed(a, t)' <=> Passed(a, t)
    <3>1. a[3] \in Nat /\ a = <<a[1], a[2], a[3]>>
      BY <1>1, ToFind, Places
    <3>2. ~(a[1] = bus /\ a[2] = device /\ a[3] = function)
      BY <1>4, <3>1, ToFind DEF Present
    <3>3. a[1] = bus => (PassedHere(a)' <=> PassedHere(a))
      BY <1>1, <1>4, <3>1, <3>2 DEF PassedHere
    <3> QED
      BY <1>1, <3>3 DEF Passed
  <2> QED
    BY <1>1, <1>4, <2>1, <2>2, NonePassed
<1> QED
  BY <1>2, <1>3, <1>4 DEF enumerate_function

\* The constructor stays where the walk has come to.
LEMMA StandsStill ==
  ASSUME Position, machine' = machine, walk' = walk,
         scan \in Building, scan' \in Building
  PROVE  Position' /\ Here' = Here /\ Visited' = Visited
<1>1. Here' = Here /\ entry' = entry /\ bus' = bus /\ device' = device /\ function' = function
  BY DEF walk, Here
<1>2. Position'
  BY <1>1, Stays DEF Position, OnBus, OnDevice, Building
<1>3. ASSUME NEW a, NEW t PROVE Passed(a, t)' <=> Passed(a, t)
  BY <1>1 DEF Passed, PassedHere, OnBus, OnDevice, Building
<1> QED
  BY <1>1, <1>2, <1>3, NonePassed

\* The controller at hand is one to find, and was not passed before: the ranges of
\* buses do not overlap.
LEMMA HereIsNew ==
  ASSUME Position, scan \in Building
  PROVE  /\ Here \in Reachable /\ Here \notin Visited
         /\ Here \in DOMAIN machine.class /\ machine.class[Here] = "ahci"
<1>1. /\ entry \in Entries /\ bus \in BusesOf(entry) /\ bus \in Nat /\ entry \in Nat
      /\ device \in Nat /\ function \in Nat
      /\ Present(bus, 0, 0) /\ Present(bus, device, 0)
      /\ Here \in DOMAIN machine.class /\ machine.class[Here] = "ahci"
      /\ machine \in Machines
  BY DEF Position, OnBus, OnDevice, Building, Entries
<1>2. Here[1] = bus /\ Here[2] = device /\ Here[3] = function
  BY DEF Here
<1>3. Here \in Reachable
  BY <1>1, <1>2 DEF Reachable, Entries, BusesOf
<1>4. ~PassedHere(Here)
  BY <1>1, <1>2 DEF PassedHere
<1>5. ASSUME NEW t \in Entries, bus \in BusesOf(t) PROVE ~Passed(Here, t)
  <2>1. t = entry
    BY <1>1, <1>5, Buses
  <2> QED
    BY <1>1, <1>2, <1>4, <2>1 DEF Passed
<1> QED
  BY <1>1, <1>2, <1>3, <1>5 DEF Visited

\* When the driver is registered, its controller has been passed.
LEMMA RegisterPasses ==
  ASSUME Position, scan = "configure", machine' = machine,
         UNCHANGED <<entry, bus, device>>, scan' = "function", function' = function + 1
  PROVE  Position' /\ Visited' = Visited \cup {Here}
<1> USE DEF Position, OnBus, OnDevice, Building
<1>1. /\ entry \in Entries /\ bus \in BusesOf(entry) /\ bus \in Nat /\ entry \in Nat
      /\ device \in Nat /\ function \in 0 .. FunctionCount - 1 /\ FunctionCount \in Nat
      /\ Present(bus, 0, 0) /\ Present(bus, device, 0)
  BY Counted DEF Entries
<1>2. Position'
  BY <1>1, Stays
<1>3. ASSUME NEW a \in Reachable, NEW t \in Entries, a[1] \in BusesOf(t)
      PROVE  Passed(a, t)' <=> Passed(a, t) \/ a = Here
  <2>1. a[1] \in Nat /\ a[3] \in Nat /\ a = <<a[1], a[2], a[3]>>
    BY ToFind, Places
  <2>2. a[1] = bus => t = entry
    BY <1>1, <1>3, Buses
  <2>3. PassedHere(a)' <=> PassedHere(a) \/ (a[2] = device /\ a[3] = function)
    BY <1>1, <2>1 DEF PassedHere
  <2>4. a = Here <=> a[1] = bus /\ a[2] = device /\ a[3] = function
    BY <2>1 DEF Here
  <2> QED
    BY <1>1, <2>1, <2>2, <2>3, <2>4 DEF Passed
<1>4. Here \in Reachable /\ Here[1] \in BusesOf(entry)
  BY <1>1, HereIsNew DEF Here
<1>5. \A a : a \in Visited' <=> a \in Reachable /\ \E t \in Entries : a[1] \in BusesOf(t) /\ Passed(a, t)'
  BY Stays DEF Visited
<1>6. \A a : a \in Visited <=> a \in Reachable /\ \E t \in Entries : a[1] \in BusesOf(t) /\ Passed(a, t)
  BY DEF Visited
<1>7. \A a : a \in Visited' <=> a \in Visited \/ a = Here
  BY <1>1, <1>3, <1>4, <1>5, <1>6
<1> QED
  BY <1>2, <1>7

-----------------------------------------------------------------------------
(* The constructor. *)

\* The drives of the controller at hand are the ports check_port_type keeps.
LEMMA Kept ==
  ASSUME Position, scan \in Building
  PROVE  /\ Drives(Here) \subseteq 0 .. PortCount - 1 /\ PortCount \in Nat
         /\ \A i : i \in Drives(Here) <=> i \in DOMAIN machine.ports[Here] /\ HasDrive(i)
<1>1. machine \in Machines
  BY DEF Position
<1>2. Here \in DOMAIN machine.class /\ machine.class[Here] = "ahci"
  BY HereIsNew
<1> QED
  BY <1>1, <1>2, Attached, Counted DEF HasDrive, check_port_type, PortType

\* A list goes on with the next number if that is a member.
LEMMA ListGoesOn ==
  ASSUME NEW S \in SUBSET Nat, NEW n \in Nat, NEW limit \in Nat, NEW ps, Lists(ps, n, S, limit)
  PROVE  /\ limit \notin S => Lists(ps, n, S, limit + 1)
         /\ limit \in S => \A qs : qs[n] = limit /\ (\A i \in 0 .. n - 1 : qs[i] = ps[i])
                                    => Lists(qs, n + 1, S, limit + 1)
<1>1. /\ n <= limit
      /\ \A i \in 0 .. n - 1 : ps[i] \in S /\ ps[i] \in Nat /\ ps[i] < limit
      /\ \A i, j \in 0 .. n - 1 : i < j => ps[i] < ps[j]
      /\ \A d \in S : d < limit => \E i \in 0 .. n - 1 : ps[i] = d
  BY DEF Lists
<1>2. ASSUME limit \notin S PROVE Lists(ps, n, S, limit + 1)
  <2>1. \A d \in S : d < limit + 1 => d < limit
    BY <1>2
  <2>2. \A i \in 0 .. n - 1 : ps[i] < limit + 1
    BY <1>1
  <2> QED
    BY <1>1, <2>1, <2>2 DEF Lists
<1>3. ASSUME limit \in S, NEW qs, qs[n] = limit, \A i \in 0 .. n - 1 : qs[i] = ps[i]
      PROVE  Lists(qs, n + 1, S, limit + 1)
  <2>1. \A i \in 0 .. n : i \in 0 .. n - 1 \/ i = n
    OBVIOUS
  <2>2. \A i \in 0 .. n : qs[i] \in S /\ qs[i] < limit + 1
    <3> SUFFICES ASSUME NEW i \in 0 .. n PROVE qs[i] \in S /\ qs[i] < limit + 1
      OBVIOUS
    <3>1. CASE i = n
      BY <1>3, <3>1
    <3>2. CASE i \in 0 .. n - 1
      <4>1. qs[i] = ps[i] /\ ps[i] \in S /\ ps[i] \in Nat /\ ps[i] < limit
        BY <1>1, <1>3, <3>2
      <4> QED
        BY <4>1
    <3> QED
      BY <2>1, <3>1, <3>2
  <2>3. \A i, j \in 0 .. n : i < j => qs[i] < qs[j]
    <3> SUFFICES ASSUME NEW i \in 0 .. n, NEW j \in 0 .. n, i < j PROVE qs[i] < qs[j]
      OBVIOUS
    <3>1. i \in 0 .. n - 1
      OBVIOUS
    <3>2. qs[i] = ps[i] /\ ps[i] < limit
      BY <1>1, <1>3, <3>1
    <3>3. CASE j = n
      BY <1>3, <3>2, <3>3
    <3>4. CASE j \in 0 .. n - 1
      BY <1>1, <1>3, <3>1, <3>2, <3>4
    <3> QED
      BY <2>1, <3>3, <3>4
  <2>4. ASSUME NEW d \in S, d < limit + 1 PROVE \E i \in 0 .. n : qs[i] = d
    <3>1. CASE d = limit
      BY <1>3, <3>1
    <3>2. CASE d < limit
      <4>1. PICK i \in 0 .. n - 1 : ps[i] = d
        BY <1>1, <3>2
      <4> QED
        BY <1>3, <4>1
    <3> QED
      BY <2>4, <3>1, <3>2
  <2>5. n + 1 <= limit + 1 /\ 0 .. (n + 1) - 1 = 0 .. n
    BY <1>1
  <2> QED
    BY <2>2, <2>3, <2>4, <2>5 DEF Lists
<1> QED
  BY <1>2, <1>3

\* A new driver has no port in its array but what malloc's memory holds.
LEMMA FunctionConstructs ==
  ASSUME Position, Constructing, enumerate_function
  PROVE  Constructing'
<1>1. CASE UNCHANGED construction /\ scan' \notin Building
  BY <1>1, Counted DEF Constructing, construction, Building
<1>2. CASE /\ scan' = "probe" /\ port' = 0 /\ port_count' \in Counts
           /\ ports' = [i \in 0 .. port_count' - 1 |-> Garbage] /\ disk_drive' = Garbage
           /\ Here \in DOMAIN machine.class /\ machine.class[Here] = "ahci"
           /\ Here' = Here
  <2>1. port_count' \in Nat /\ port' \in 0 .. PortCount
    BY <1>2, Counted
  <2>2. disk_drive' \in Int /\ DOMAIN ports' = 0 .. port_count' - 1
    BY <1>2 DEF Garbage
  <2>3. ASSUME port_count' = 0 PROVE Exact'
    <3>1. Drives(Here)' = Drives(Here) /\ Drives(Here) \subseteq Nat
      <4>1. machine' = machine /\ machine \in Machines
        BY DEF enumerate_function, Position
      <4> QED
        BY <1>2, <4>1, Attached, Counted DEF Drives
    <3>2. Limit' = 0
      BY <1>2 DEF Limit
    <3>3. Lists(ports', 0, Drives(Here), 0)
      BY <3>1 DEF Lists
    <3> QED
      BY <1>2, <2>3, <3>1, <3>2, <3>3 DEF Exact
  <2>4. ASSUME port_count' > 0 PROVE Misled'
    <3>1. ports'[0] = Garbage
      <4>1. \A n \in Nat : n > 0 => 0 \in 0 .. n - 1
        OBVIOUS
      <4> QED
        BY <1>2, <2>1, <2>4, <4>1, Zenon
    <3> QED
      BY <1>2, <2>4, <3>1 DEF Misled
  <2>5. port_count' = 0 \/ port_count' > 0
    BY <2>1
  <2> QED
    BY <1>2, <2>1, <2>2, <2>3, <2>4, <2>5 DEF Constructing
<1> QED
  BY <1>1, <1>2 DEF enumerate_function, Building, construction, Present, Here

\* A turn of probe_ports appends the port it looks at when a drive is there.
LEMMA ProbeConstructs ==
  ASSUME Position, Constructing, probe_ports
  PROVE  Constructing' /\ (scan' = "configure" => port' = 0)
<1> DEFINE drives == Drives(Here)
<1>1. /\ scan = "probe" /\ scan \in Building /\ scan' \in Building /\ machine' = machine /\ walk' = walk
      /\ scan' \in {"probe", "configure"}
  BY DEF probe_ports, Building
<1>2. Here' = Here /\ Drives(Here)' = drives
  BY <1>1, StandsStill, Stays DEF walk, Drives
<1>3. /\ port \in 0 .. PortCount /\ port_count \in Nat /\ PortCount \in Nat
      /\ disk_drive \in Int /\ DOMAIN ports = 0 .. port_count - 1
      /\ drives \in SUBSET Nat
      /\ \A i : i \in drives <=> i \in DOMAIN machine.ports[Here] /\ HasDrive(i)
  BY <1>1, Kept DEF Constructing
<1>4. Exact <=> Lists(ports, port_count, drives, port)
  BY <1>1 DEF Exact, Limit
<1>5. Exact' <=> /\ Lists(ports', port_count', drives, Limit')
                 /\ (scan' = "configure" /\ port' > 0 => disk_drive' = ports'[0])
  BY <1>2 DEF Exact
<1>6. Exact \/ Misled
  BY <1>1 DEF Constructing
<1> HIDE DEF drives
<1>7. CASE port = PortCount /\ scan' = "configure" /\ port' = 0 /\ UNCHANGED <<port_count, ports, disk_drive>>
  <2>1. Limit' = port
    BY <1>7 DEF Limit
  <2>2. Exact => Exact'
    BY <1>4, <1>5, <1>7, <2>1
  <2>3. Misled => Misled'
    BY <1>7 DEF Misled
  <2> QED
    BY <1>3, <1>6, <1>7, <2>2, <2>3 DEF Constructing
<1>8. CASE port < PortCount /\ port' = port + 1 /\ scan' = scan
  <2>0. Limit' = port + 1 /\ port' \in 0 .. PortCount /\ scan' = "probe" /\ port \in Nat
    BY <1>1, <1>3, <1>8 DEF Limit
  <2>1. CASE port \in drives
    <3>1. /\ ports' = [i \in DOMAIN ports \cup {port_count} |-> IF i = port_count THEN port ELSE ports[i]]
          /\ port_count' = port_count + 1
          /\ disk_drive' = port \/ disk_drive' = disk_drive
      BY <1>3, <1>8, <2>1 DEF probe_ports
    <3>2. /\ port_count' \in Nat /\ disk_drive' \in Int
          /\ DOMAIN ports' = 0 .. port_count' - 1
          /\ ports'[port_count] = port
          /\ \A i \in 0 .. port_count - 1 : ports'[i] = ports[i]
      BY <1>3, <2>0, <3>1
    <3>3. Misled => Misled'
      BY <1>1, <1>3, <2>0, <3>1, <3>2 DEF Misled
    <3>4. Exact => Exact'
      BY <1>3, <1>4, <1>5, <2>0, <2>1, <3>1, <3>2, ListGoesOn
    <3> QED
      BY <1>6, <2>0, <3>2, <3>3, <3>4 DEF Constructing
  <2>2. CASE port \notin drives
    <3>1. UNCHANGED <<port_count, ports, disk_drive>>
      BY <1>3, <1>8, <2>2 DEF probe_ports
    <3>2. Misled => Misled'
      BY <1>1, <2>0, <3>1 DEF Misled
    <3>3. Exact => Exact'
      BY <1>3, <1>4, <1>5, <2>0, <2>2, <3>1, ListGoesOn
    <3> QED
      BY <1>3, <1>6, <2>0, <3>1, <3>2, <3>3 DEF Constructing
  <2> QED
    BY <2>1, <2>2
<1> QED
  BY <1>1, <1>7, <1>8 DEF probe_ports

\* While configure runs, the array of a driver that does not meet malloc's memory is exact.
LEMMA Configures ==
  ASSUME Position, Constructing, scan = "configure", port > 0 \/ port_count = 0 \/ ports[port] # Garbage
  PROVE  /\ Exact /\ port \in Nat /\ port_count \in Nat /\ port <= port_count
         /\ port_count <= PortCount /\ PortCount \in Nat
         /\ \A i \in 0 .. port_count - 1 : ports[i] \in Drives(Here)
         /\ \A d : d \in Drives(Here) <=> \E i \in 0 .. port_count - 1 : ports[i] = d
         /\ \A i, j \in 0 .. port_count - 1 : i < j => ports[i] < ports[j]
         /\ port > 0 => disk_drive = ports[0]
         /\ Drives(Here) \subseteq Nat
<1>1. /\ port \in Nat /\ port_count \in Nat /\ port <= port_count
      /\ Exact \/ Misled
  BY Counted DEF Constructing, Building
<1>2. Exact
  BY <1>1 DEF Misled
<1>3. Drives(Here) \subseteq 0 .. PortCount - 1 /\ PortCount \in Nat
  BY Kept DEF Building
<1> QED
  BY <1>1, <1>2, <1>3 DEF Exact, Limit, Lists

LEMMA ConfigureConstructs ==
  ASSUME Position, Constructing, configure
  PROVE  Constructing'
<1>1. CASE scan' = "wild" /\ UNCHANGED construction
  BY <1>1 DEF Constructing, construction, Building
<1>2. CASE /\ port < port_count /\ ports[port] # Garbage
           /\ disk_drive' = ChosenDrive(port) /\ port' = port + 1
           /\ UNCHANGED <<scan, function, port_count, ports>>
  <2>1. scan = "configure" /\ machine' = machine /\ walk' = walk
    BY <1>2 DEF configure, walk
  <2>2. Here' = Here /\ Drives(Here)' = Drives(Here)
    BY <2>1, <1>2, StandsStill, Stays DEF walk, Drives, Building
  <2>3. /\ Exact /\ port \in Nat /\ port_count \in Nat /\ port + 1 <= port_count
        /\ port_count <= PortCount /\ PortCount \in Nat
        /\ \A i \in 0 .. port_count - 1 : ports[i] \in Drives(Here)
        /\ port > 0 => disk_drive = ports[0]
        /\ Drives(Here) \subseteq Nat
    BY <1>2, <2>1, Configures
  <2>4. disk_drive' = ports[0] /\ ports[0] \in Nat
    BY <1>2, <2>3 DEF ChosenDrive
  <2>5. Exact'
    <3>1. Limit' = Limit
      BY <1>2, <2>1 DEF Limit
    <3> QED
      BY <1>2, <2>2, <2>3, <2>4, <3>1 DEF Exact
  <2>6. DOMAIN ports' = 0 .. port_count' - 1
    BY <1>2, <2>1 DEF Constructing, Building
  <2> QED
    BY <1>2, <2>1, <2>3, <2>4, <2>5, <2>6 DEF Constructing
<1>3. CASE port' = 0 /\ scan' = "function" /\ UNCHANGED port_count
  BY <1>3, Counted DEF Constructing, Building
<1> QED
  BY <1>1, <1>2, <1>3 DEF configure

-----------------------------------------------------------------------------
(* What is registered and configured. *)

\* A step that registers nothing, configures nothing and passes nothing.
LEMMA Quiet ==
  ASSUME Registered, Set, DriveIsConfigured, machine' = machine, scan # "wild",
         UNCHANGED <<drivers, configured>>,
         scan' # "wild" => Visited' = Visited /\ scan # "configure" /\ (scan' = "configure" => port' = 0)
  PROVE  Registered' /\ Set' /\ DriveIsConfigured'
<1>1. Registered'
  BY DEF Registered
<1>2. ASSUME scan' # "wild", NEW a, NEW d PROVE Done(a, d)' <=> Done(a, d)
  <2>1. ~(scan' = "configure" /\ a = Here' /\ \E i \in 0 .. port' - 1 : ports'[i] = d)
    BY <1>2
  <2> QED
    BY <1>2, <2>1, Stays DEF Done
<1>3. Set'
  BY <1>2 DEF Set
<1>4. DriveIsConfigured'
  <2>1. \A a : Drives(a)' = Drives(a)
    BY Stays
  <2>2. drivers' = drivers /\ configured' = configured
    OBVIOUS
  <2> QED
    BY <2>1, <2>2 DEF DriveIsConfigured
<1> QED
  BY <1>1, <1>3, <1>4

\* The members of a list.
LEMMA Members ==
  ASSUME NEW S, NEW s \in Seq(S)
  PROVE  Len(s) \in Nat /\ \A i \in 1 .. Len(s) : s[i] \in S
  OBVIOUS

\* Appending what is not there yet to a list of different things.
LEMMA Appended ==
  ASSUME NEW S, NEW s \in Seq(S), NEW e \in S
  PROVE  /\ Append(s, e) \in Seq(S) /\ Len(Append(s, e)) = Len(s) + 1 /\ Len(s) \in Nat
         /\ \A i \in 1 .. Len(s) : Append(s, e)[i] = s[i]
         /\ Append(s, e)[Len(s) + 1] = e
         /\ \A i \in 1 .. Len(s) + 1 : i \in 1 .. Len(s) \/ i = Len(s) + 1
  OBVIOUS

\* The drives already configured are those the loop has come to, all different;
\* it configures the next.
LEMMA TurnConfigures ==
  ASSUME Position, Constructing, Registered, Set, DriveIsConfigured,
         configure, port < port_count, ports[port] # Garbage, scan' = "configure"
  PROVE  Registered' /\ Set' /\ DriveIsConfigured'
<1> DEFINE e == <<Here, ports[port]>>
<1>1. /\ scan = "configure" /\ machine' = machine /\ walk' = walk /\ drivers' = drivers
      /\ configured' = Append(configured, e) /\ port' = port + 1 /\ ports' = ports
      /\ scan \in Building /\ scan' \in Building
  BY DEF configure, walk, Building
<1>2. Here' = Here /\ Visited' = Visited
  BY <1>1, StandsStill
<1>3. /\ port \in Nat /\ port_count \in Nat
      /\ \A i \in 0 .. port_count - 1 : ports[i] \in Drives(Here)
      /\ \A i, j \in 0 .. port_count - 1 : i < j => ports[i] < ports[j]
      /\ Drives(Here) \subseteq Nat
  BY <1>1, Configures
<1>4. /\ Here \in DOMAIN machine.class /\ Here \notin Visited
  BY <1>1, HereIsNew
<1>5. Registered'
  BY <1>1, <1>2 DEF Registered
<1>6. e \in (DOMAIN machine.class) \X Int
  <2>1. ports[port] \in Int
    BY <1>3
  <2>2. Here \in DOMAIN machine.class
    BY <1>4
  <2> HIDE DEF Here
  <2> QED
    BY <2>1, <2>2
<1>7. configured \in Seq((DOMAIN machine.class) \X Int)
  BY DEF Set
<1>8. ~Done(Here, ports[port])
  <2>1. \A i \in 0 .. port - 1 : ports[i] < ports[port] /\ ports[i] \in Nat /\ ports[port] \in Nat
    BY <1>3
  <2> QED
    BY <1>4, <2>1 DEF Done
<1>9. \A i \in 1 .. Len(configured) : configured[i] # e
  BY <1>1, <1>8 DEF Set
<1>10. \A a, d : Done(a, d)' <=> Done(a, d) \/ (a = Here /\ d = ports[port])
  <2>1. \A i : i \in 0 .. (port + 1) - 1 <=> i \in 0 .. port - 1 \/ i = port
    BY <1>3
  <2>2. \A a : Drives(a)' = Drives(a)
    BY <1>1, Stays
  <2> QED
    BY <1>1, <1>2, <2>1, <2>2 DEF Done
<1> HIDE DEF e
<1>11. /\ configured' \in Seq((DOMAIN machine.class) \X Int)
       /\ Len(configured') = Len(configured) + 1 /\ Len(configured) \in Nat
       /\ \A i \in 1 .. Len(configured) : configured'[i] = configured[i]
       /\ configured'[Len(configured) + 1] = e
       /\ \A i \in 1 .. Len(configured') : i \in 1 .. Len(configured) \/ i = Len(configured) + 1
  BY <1>1, <1>6, <1>7, Appended
<1>12. \A i, j \in 1 .. Len(configured') : configured'[i] = configured'[j] => i = j
  BY <1>9, <1>11 DEF Set
<1>13. ASSUME NEW a, NEW d
       PROVE  (\E i \in 1 .. Len(configured') : configured'[i] = <<a, d>>) <=> Done(a, d)'
  <2>1. (\E i \in 1 .. Len(configured) : configured[i] = <<a, d>>) <=> Done(a, d)
    BY <1>1 DEF Set
  <2>2. (\E i \in 1 .. Len(configured') : configured'[i] = <<a, d>>)
        <=> (\E i \in 1 .. Len(configured) : configured[i] = <<a, d>>) \/ <<a, d>> = e
    <3>1. \A i \in 1 .. Len(configured) : i \in 1 .. Len(configured')
      BY <1>11
    <3>2. Len(configured) + 1 \in 1 .. Len(configured')
      BY <1>11
    <3> QED
      BY <1>11, <3>1, <3>2, Zenon
  <2>3. <<a, d>> = e <=> a = Here /\ d = ports[port]
    BY DEF e
  <2> QED
    BY <1>10, <2>1, <2>2, <2>3
<1>14. Set'
  BY <1>1, <1>11, <1>12, <1>13 DEF Set
<1>15. DriveIsConfigured'
  <2>1. \A x : (\E j \in 1 .. Len(configured) : configured[j] = x)
              => \E j \in 1 .. Len(configured') : configured'[j] = x
    <3>1. \A i \in 1 .. Len(configured) : i \in 1 .. Len(configured')
      BY <1>11
    <3> QED
      BY <1>11, <3>1, Zenon
  <2>2. \A a : Drives(a)' = Drives(a)
    BY <1>1, Stays
  <2> QED
    BY <1>1, <2>1, <2>2 DEF DriveIsConfigured
<1> QED
  BY <1>5, <1>14, <1>15

\* At the end of its loop a driver has configured all drives of its controller and
\* holds the first.
LEMMA RegisterKeeps ==
  ASSUME Position, Constructing, Registered, Set, DriveIsConfigured,
         configure, port = port_count, scan' = "function"
  PROVE  Position' /\ Registered' /\ Set' /\ DriveIsConfigured'
<1> DEFINE e == [at |-> Here, disk_drive |-> disk_drive]
<1>1. /\ scan = "configure" /\ machine' = machine /\ UNCHANGED <<entry, bus, device>>
      /\ function' = function + 1
      /\ drivers' = Append(drivers, e) /\ configured' = configured
      /\ scan \in Building
  BY DEF configure, Building
<1>2. Position' /\ Visited' = Visited \cup {Here}
  BY <1>1, RegisterPasses
<1>3. /\ port_count \in Nat
      /\ \A i \in 0 .. port_count - 1 : ports[i] \in Drives(Here)
      /\ \A d : d \in Drives(Here) <=> \E i \in 0 .. port_count - 1 : ports[i] = d
      /\ \A i, j \in 0 .. port_count - 1 : i < j => ports[i] < ports[j]
      /\ port > 0 => disk_drive = ports[0]
      /\ Drives(Here) \subseteq Nat
  <2>1. port > 0 \/ port_count = 0
    BY <1>1 DEF Constructing
  <2> QED
    BY <1>1, <2>1, Configures
<1>4. /\ Here \in DOMAIN machine.class /\ Here \notin Visited
  BY <1>1, HereIsNew
<1>5. \A a, d : Done(a, d)' <=> Done(a, d)
  <2>1. \A a, d : Done(a, d)' <=> a \in Visited' /\ d \in Drives(a)
    BY <1>1, Stays DEF Done
  <2>2. \A a, d : Done(a, d) <=> (a \in Visited /\ d \in Drives(a)) \/ (a = Here /\ d \in Drives(Here))
    BY <1>1, <1>3 DEF Done
  <2> QED
    BY <1>2, <2>1, <2>2
<1>6. Set'
  BY <1>1, <1>5 DEF Set
<1>7. e \in [at : DOMAIN machine.class, disk_drive : Int]
  BY <1>1, <1>4 DEF Constructing
<1>8. e.at = Here /\ e.disk_drive = disk_drive
  OBVIOUS
<1>9. drivers \in Seq([at : DOMAIN machine.class, disk_drive : Int])
  BY DEF Registered
<1> HIDE DEF e
<1>10. /\ drivers' \in Seq([at : DOMAIN machine.class, disk_drive : Int])
       /\ Len(drivers') = Len(drivers) + 1 /\ Len(drivers) \in Nat
       /\ \A i \in 1 .. Len(drivers) : drivers'[i] = drivers[i]
       /\ drivers'[Len(drivers) + 1] = e
       /\ \A i \in 1 .. Len(drivers') : i \in 1 .. Len(drivers) \/ i = Len(drivers) + 1
  BY <1>1, <1>7, <1>9, Appended
<1>11. \A i \in 1 .. Len(drivers) : drivers[i].at # Here
  BY <1>1, <1>4 DEF Registered
<1>12. Registered'
  <2>1. \A i, j \in 1 .. Len(drivers') : drivers'[i].at = drivers'[j].at => i = j
    BY <1>8, <1>10, <1>11 DEF Registered
  <2>2. ASSUME NEW a PROVE (\E i \in 1 .. Len(drivers') : drivers'[i].at = a) <=> a \in Visited'
    <3>1. (\E i \in 1 .. Len(drivers) : drivers[i].at = a) <=> a \in Visited
      BY <1>1 DEF Registered
    <3>2. (\E i \in 1 .. Len(drivers') : drivers'[i].at = a)
          <=> (\E i \in 1 .. Len(drivers) : drivers[i].at = a) \/ a = Here
      BY <1>8, <1>10
    <3> QED
      BY <1>2, <3>1, <3>2
  <2> QED
    BY <1>1, <1>10, <2>1, <2>2 DEF Registered
<1>13. ASSUME Drives(Here) # {}
       PROVE  /\ disk_drive \in Drives(Here)
              /\ \E j \in 1 .. Len(configured) : configured[j] = <<Here, disk_drive>>
  <2>1. port_count > 0 /\ disk_drive = ports[0] /\ 0 \in 0 .. port_count - 1
    BY <1>3, <1>13
  <2>3. Done(Here, disk_drive)
    BY <1>1, <2>1 DEF Done
  <2> QED
    BY <1>1, <1>3, <2>1, <2>3 DEF Set
<1>14. DriveIsConfigured'
  <2> SUFFICES ASSUME NEW i \in 1 .. Len(drivers'), Drives(drivers'[i].at) # {}
               PROVE  /\ drivers'[i].disk_drive \in Drives(drivers'[i].at)
                      /\ \E j \in 1 .. Len(configured) :
                            configured[j] = <<drivers'[i].at, drivers'[i].disk_drive>>
    BY <1>1 DEF DriveIsConfigured, Drives
  <2>1. CASE i \in 1 .. Len(drivers)
    BY <1>10, <2>1 DEF DriveIsConfigured
  <2>2. CASE i = Len(drivers) + 1
    BY <1>8, <1>10, <1>13, <2>2
  <2> QED
    BY <1>10, <2>1, <2>2
<1> QED
  BY <1>2, <1>6, <1>12, <1>14

-----------------------------------------------------------------------------
(* The invariant. *)

\* The walk starts with no driver and has passed nothing.
LEMMA ScanStarts == ScanInit => ScanInv
<1> SUFFICES ASSUME ScanInit PROVE ScanInv
  OBVIOUS
<1>1. /\ machine \in Machines /\ scan = "find" /\ entry = 1 /\ bus = 0 /\ device = 0 /\ function = 0
      /\ drivers = <<>> /\ configured = <<>> /\ port_count = 0 /\ port = 0
  BY DEF ScanInit
<1>2. DeviceCount \in Nat /\ FunctionCount \in Nat /\ PortCount \in Nat
  BY Counted
<1>3. Position
  BY <1>1, <1>2, Buses DEF Position, OnBus, OnDevice, Building
<1>4. Constructing
  BY <1>1, <1>2 DEF Constructing, Building
<1>5. Visited = {}
  <2> SUFFICES ASSUME NEW a \in Reachable, NEW t \in Entries, Passed(a, t) PROVE FALSE
    BY DEF Visited
  <2>1. t \in Nat /\ t >= 1 /\ a[1] \in Nat
    BY <1>1, Buses, ToFind, Places DEF Entries
  <2> QED
    BY <1>1, <2>1 DEF Passed, PassedHere, OnBus, OnDevice
<1>6. Registered
  BY <1>1, <1>5 DEF Registered
<1>7. Set
  BY <1>1, <1>5 DEF Set, Done
<1>8. DriveIsConfigured
  BY <1>1 DEF DriveIsConfigured
<1> QED
  BY <1>3, <1>4, <1>6, <1>7, <1>8 DEF ScanInv

\* Every step keeps it.
LEMMA ScanStays == ScanInv /\ [ScanNext]_scanVars => ScanInv'
<1> SUFFICES ASSUME ScanInv, [ScanNext]_scanVars PROVE ScanInv'
  OBVIOUS
<1>0. Position /\ Constructing /\ Registered /\ Set /\ DriveIsConfigured
  BY DEF ScanInv
<1>1. CASE find_table
  <2>1. /\ machine' = machine /\ scan = "find" /\ scan' \in {"bus", "wild"}
        /\ UNCHANGED <<drivers, configured, construction>>
    BY <1>1 DEF find_table
  <2>2. Position' /\ (scan' # "wild" => Visited' = Visited)
    BY <1>0, <1>1, FindKeeps
  <2>3. Constructing'
    BY <1>0, <2>1 DEF Constructing, construction, Building
  <2>4. Registered' /\ Set' /\ DriveIsConfigured'
    BY <1>0, <2>1, <2>2, Quiet
  <2> QED
    BY <2>2, <2>3, <2>4 DEF ScanInv
<1>2. CASE enumerate_bus
  <2>1. /\ machine' = machine /\ scan = "bus" /\ UNCHANGED <<drivers, configured, construction>>
    BY <1>2 DEF enumerate_bus
  <2>2. Position' /\ scan' \notin Building /\ scan' # "wild" /\ Visited' = Visited
    BY <1>0, <1>2, BusKeeps
  <2>3. Constructing'
    BY <1>0, <2>1, <2>2 DEF Constructing, construction, Building
  <2>4. Registered' /\ Set' /\ DriveIsConfigured'
    BY <1>0, <2>1, <2>2, Quiet DEF Building
  <2> QED
    BY <2>2, <2>3, <2>4 DEF ScanInv
<1>3. CASE enumerate_device
  <2>1. /\ machine' = machine /\ scan = "device" /\ UNCHANGED <<drivers, configured, construction>>
    BY <1>3 DEF enumerate_device
  <2>2. Position' /\ scan' \notin Building /\ scan' # "wild" /\ Visited' = Visited
    BY <1>0, <1>3, DeviceKeeps
  <2>3. Constructing'
    BY <1>0, <2>1, <2>2 DEF Constructing, construction, Building
  <2>4. Registered' /\ Set' /\ DriveIsConfigured'
    BY <1>0, <2>1, <2>2, Quiet DEF Building
  <2> QED
    BY <2>2, <2>3, <2>4 DEF ScanInv
<1>4. CASE enumerate_function
  <2>1. machine' = machine /\ scan = "function" /\ UNCHANGED <<drivers, configured>>
    BY <1>4 DEF enumerate_function
  <2>2. Position' /\ scan' # "wild" /\ scan' # "configure" /\ Visited' = Visited
    BY <1>0, <1>4, FunctionKeeps
  <2>3. Constructing'
    BY <1>0, <1>4, FunctionConstructs
  <2>4. Registered' /\ Set' /\ DriveIsConfigured'
    BY <1>0, <2>1, <2>2, Quiet
  <2> QED
    BY <2>2, <2>3, <2>4 DEF ScanInv
<1>5. CASE probe_ports
  <2>1. /\ machine' = machine /\ scan = "probe" /\ scan' \in Building /\ scan \in Building
        /\ UNCHANGED <<drivers, configured>> /\ walk' = walk
    BY <1>5 DEF probe_ports, Building
  <2>2. Position' /\ Visited' = Visited
    BY <1>0, <2>1, StandsStill
  <2>3. Constructing' /\ (scan' = "configure" => port' = 0)
    BY <1>0, <1>5, ProbeConstructs
  <2>4. Registered' /\ Set' /\ DriveIsConfigured'
    BY <1>0, <2>1, <2>2, <2>3, Quiet DEF Building
  <2> QED
    BY <2>2, <2>3, <2>4 DEF ScanInv
<1>6. CASE configure
  <2>1. Constructing' /\ scan = "configure" /\ machine' = machine
    BY <1>0, <1>6, ConfigureConstructs DEF configure
  <2>2. CASE scan' = "wild" /\ UNCHANGED <<entry, bus, device, function, drivers, configured>>
    <3>1. Position'
      BY <1>0, <2>1, <2>2 DEF Position, OnBus, OnDevice, Building
    <3>2. Registered' /\ Set' /\ DriveIsConfigured'
      BY <1>0, <2>1, <2>2, Quiet
    <3> QED
      BY <2>1, <3>1, <3>2 DEF ScanInv
  <2>3. CASE port < port_count /\ ports[port] # Garbage /\ scan' = "configure"
             /\ UNCHANGED <<entry, bus, device, function>>
    <3>1. Position'
      BY <1>0, <2>1, <2>3, StandsStill DEF walk, Building
    <3>2. Registered' /\ Set' /\ DriveIsConfigured'
      BY <1>0, <1>6, <2>3, TurnConfigures
    <3> QED
      BY <2>1, <3>1, <3>2 DEF ScanInv
  <2>4. CASE port = port_count /\ scan' = "function"
    BY <1>0, <1>6, <2>1, <2>4, RegisterKeeps DEF ScanInv
  <2> QED
    BY <1>6, <2>1, <2>2, <2>3, <2>4 DEF configure
<1>7. CASE UNCHANGED scanVars
  <2>1. UNCHANGED <<machine, scan, entry, bus, device, function, drivers, port_count, ports, disk_drive, port, configured>>
    BY <1>7 DEF scanVars, walk, construction
  <2>2. \A a, t : Passed(a, t)' <=> Passed(a, t)
    BY <2>1 DEF Passed, PassedHere
  <2>3. Visited' = Visited /\ Here' = Here
    BY <2>1, <2>2, NonePassed DEF Here
  <2>4. \A a, d : Done(a, d)' <=> Done(a, d)
    BY <2>1, <2>3, Stays DEF Done
  <2>5. Position'
    BY <1>0, <2>1, <2>3, Stays DEF Position
  <2>6. Constructing'
    <3>1. Drives(Here)' = Drives(Here) /\ Limit' = Limit
      BY <2>1, <2>3 DEF Drives, Limit
    <3> QED
      BY <1>0, <2>1, <3>1 DEF Constructing, Exact, Misled
  <2>7. Registered' /\ Set'
    BY <1>0, <2>1, <2>3, <2>4 DEF Registered, Set
  <2>8. DriveIsConfigured'
    <3>1. \A a : Drives(a)' = Drives(a)
      BY <2>1, Stays
    <3>2. drivers' = drivers /\ configured' = configured
      BY <2>1
    <3> QED
      BY <1>0, <3>1, <3>2 DEF DriveIsConfigured
  <2> QED
    BY <2>5, <2>6, <2>7, <2>8 DEF ScanInv
<1> QED
  BY <1>1, <1>2, <1>3, <1>4, <1>5, <1>6, <1>7 DEF ScanNext

\* The counters of the walk, the driver under construction and what was registered
\* and configured agree in every reachable state.
THEOREM ScanInvariance == ScanSpec => []ScanInv
  BY ScanStarts, ScanStays, PTL DEF ScanSpec

\* What the file system is given is a drive of its controller that the constructor has
\* configured, whatever malloc's memory held.
THEOREM DriveGiven == ScanSpec => []DriveIsConfigured
<1>1. ScanInv => DriveIsConfigured
  BY DEF ScanInv
<1> QED
  BY <1>1, ScanInvariance, PTL

-----------------------------------------------------------------------------
(* A walk that is through. *)

\* A list of different things that names the members of a set is as long as the set is large.
LEMMA ListOfSet ==
  ASSUME NEW S, NEW s \in Seq(S), NEW T,
         \A i, j \in 1 .. Len(s) : s[i] = s[j] => i = j,
         \A a : (\E i \in 1 .. Len(s) : s[i] = a) <=> a \in T
  PROVE  {s[i] : i \in 1 .. Len(s)} = T /\ Len(s) = Cardinality(T)
<1>1. {s[i] : i \in 1 .. Len(s)} = T
  OBVIOUS
<1> DEFINE f == [i \in 1 .. Len(s) |-> s[i]]
<1>2. Len(s) \in Nat
  OBVIOUS
<1>3. f \in Bijection(1 .. Len(s), T)
  BY DEF Bijection, Injection, Surjection, IsInjective
<1>4. ExistsBijection(1 .. Len(s), T)
  BY <1>3 DEF ExistsBijection
<1> QED
  BY <1>1, <1>2, <1>4, FS_CountingElements

\* When the walk is through, it has made one driver for every controller it had to
\* find and for nothing else, and configured every drive of them once.
THEOREM EveryController == ScanSpec => []EveryControllerOnce
<1>1. ASSUME ScanInv PROVE ScanTypeOK
  <2>1. Position /\ Constructing /\ Registered
    BY <1>1 DEF ScanInv
  <2>2. \A i \in 1 .. Len(drivers) : drivers[i].at \in DOMAIN machine.class
    <3>1. \A i \in 1 .. Len(drivers) : drivers[i] \in [at : DOMAIN machine.class, disk_drive : Int]
      BY <2>1, Members DEF Registered
    <3> QED
      BY <3>1
  <2> QED
    BY <2>1, <2>2 DEF Position, Constructing, ScanTypeOK
<1>2. ASSUME ScanInv, scan = "done"
      PROVE  /\ {drivers[i].at : i \in 1 .. Len(drivers)} = Reachable
             /\ Len(drivers) = Cardinality(Reachable)
             /\ {configured[i] : i \in 1 .. Len(configured)} = UNION {{a} \X Drives(a) : a \in Reachable}
             /\ Len(configured) = Cardinality(UNION {{a} \X Drives(a) : a \in Reachable})
  <2>1. Position /\ Constructing /\ Registered /\ Set
    BY <1>2 DEF ScanInv
  <2>2. Visited = Reachable
    <3>1. entry = Len(machine.buses) + 1 /\ Len(machine.buses) \in Nat
      BY <1>2, <2>1, Buses DEF Position
    <3>2. \A t \in Entries : t < entry
      BY <3>1 DEF Entries
    <3>3. \A a \in Reachable : \E t \in Entries : a[1] \in BusesOf(t)
      BY DEF Reachable, Entries, BusesOf
    <3> QED
      BY <3>2, <3>3 DEF Visited, Passed
  <2> DEFINE places == [i \in 1 .. Len(drivers) |-> drivers[i].at]
  <2>3. /\ Len(drivers) \in Nat
        /\ \A i, j \in 1 .. Len(drivers) : drivers[i].at = drivers[j].at => i = j
        /\ \A a : (\E i \in 1 .. Len(drivers) : drivers[i].at = a) <=> a \in Reachable
    BY <1>2, <2>1, <2>2 DEF Registered
  <2>4. /\ places \in Seq(Reachable) /\ Len(places) = Len(drivers)
        /\ \A i \in 1 .. Len(drivers) : places[i] = drivers[i].at
    BY <2>3
  <2> HIDE DEF places
  <2>5. {places[i] : i \in 1 .. Len(places)} = Reachable /\ Len(places) = Cardinality(Reachable)
    BY <2>3, <2>4, ListOfSet
  <2>6. {places[i] : i \in 1 .. Len(places)} = {drivers[i].at : i \in 1 .. Len(drivers)}
    BY <2>4
  <2> DEFINE All == UNION {{a} \X Drives(a) : a \in Reachable}
  <2>7. configured \in Seq((DOMAIN machine.class) \X Int)
        /\ \A i, j \in 1 .. Len(configured) : configured[i] = configured[j] => i = j
    BY <2>1 DEF Set
  <2>8. \A a, d : (\E i \in 1 .. Len(configured) : configured[i] = <<a, d>>) <=> <<a, d>> \in All
    <3>1. \A a, d : <<a, d>> \in All <=> a \in Reachable /\ d \in Drives(a)
      OBVIOUS
    <3>2. \A a, d : Done(a, d) <=> a \in Reachable /\ d \in Drives(a)
      BY <1>2, <2>2 DEF Done
    <3>3. \A a, d : (\E i \in 1 .. Len(configured) : configured[i] = <<a, d>>) <=> Done(a, d)
      BY <1>2, <2>1 DEF Set
    <3> QED
      BY <3>1, <3>2, <3>3
  <2>9. \A x : (\E i \in 1 .. Len(configured) : configured[i] = x) <=> x \in All
    <3>1. \A x \in All : x = <<x[1], x[2]>>
      OBVIOUS
    <3>2. \A i \in 1 .. Len(configured) : configured[i] = <<configured[i][1], configured[i][2]>>
      <4>1. \A i \in 1 .. Len(configured) : configured[i] \in (DOMAIN machine.class) \X Int
        BY <2>7, Members
      <4> QED
        BY <4>1
    <3> HIDE DEF All
    <3>3. ASSUME NEW x, NEW i \in 1 .. Len(configured), configured[i] = x PROVE x \in All
      BY <2>8, <3>2, <3>3
    <3>4. ASSUME NEW x \in All PROVE \E i \in 1 .. Len(configured) : configured[i] = x
      <4>1. x = <<x[1], x[2]>>
        BY <3>1
      <4> QED
        BY <2>8, <4>1, Zenon
    <3> QED
      BY <3>3, <3>4
  <2> HIDE DEF All
  <2>10. {configured[i] : i \in 1 .. Len(configured)} = All /\ Len(configured) = Cardinality(All)
    <3> DEFINE S == (DOMAIN machine.class) \X Int
    <3>1. configured \in Seq(S)
      BY <2>7
    <3> HIDE DEF S
    <3> QED
      BY <2>7, <2>9, <3>1, ListOfSet
  <2> QED
    BY <2>4, <2>5, <2>6, <2>10 DEF All
<1>3. ScanInv => EveryControllerOnce
  BY <1>1, <1>2 DEF EveryControllerOnce
<1> QED
  BY <1>3, ScanInvariance, PTL
=============================================================================
