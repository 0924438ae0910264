-------------------------------- MODULE Boot --------------------------------
(***************************************************************************)
(* From the loader to the main loop: efi_main (BootLoader) and then _start *)
(* of kernel.cpp, which prepares memory, installs the interrupt gates,     *)
(* turns interrupts on, makes the shell, shakes hands with the mouse,      *)
(* unmasks the interrupt lines and initialises the shell, all while keys   *)
(* are pressed and the mouse is moved; then the disk.  Keyboard, mouse,    *)
(* their controller, disk and the two PICs are external: the controller    *)
(* holds one byte, whose line is raised until it is read.                  *)
(***************************************************************************)
EXTENDS Integers, Sequences

CONSTANTS
    ConfigTables,   \* as in BootLoader
    Patience,       \* turns of mouse_wait_input: 100000
    MaxKeys         \* bound on the keys pressed

ASSUME BootAssumption ==
    /\ ConfigTables \subseteq Seq({"acpi1", "acpi2", "smbios", "rogue"})
    /\ Patience \in Nat \ {0} /\ MaxKeys \in Nat

VARIABLES
    step, tables, version, map, exited, rsdp, failed, printed,   \* as in BootLoader
    pc,             \* how far _start has come
    wild,           \* why the machine runs on without sense: "no", or the reason
    enabled,        \* the processor takes interrupts, through the kernel's gates
    open,           \* the lines the PICs let through
    shell, canvas,  \* the pointers the keyboard handler follows are set
    config,         \* lines the keyboard controller raises: its "compaq" byte
    status,         \* the local of init_mouse
    tries,          \* turns of the wait that is running
    out,            \* the byte in the controller: "none", "key", "status", "ack" or "motion"
    owed,           \* the answers controller and mouse have yet to send
    reporting,      \* the mouse sends its motion
    mouse_cycle, mouse_packet_ready,    \* of handle_mouse
    keys,           \* number of keys pressed
    disk,           \* "answers", or "silent"
    early,          \* ghost: lines that remap_pic opened with the masks it restored
    stray,          \* ghost: mouse_int_handler took a byte of the handshake
    disturbed,      \* ghost: a wait of the handshake ran out, or a key or motion came into it
    soon            \* ghost: a key, or the controller's answer too late, came before the shell had its canvas

L == INSTANCE BootLoader
loader == <<step, tables, version, map, exited, rsdp, failed, printed>>
pics == <<enabled, open, early>>
controller == <<config, out, owed, reporting, keys, soon>>
packet == <<mouse_cycle, mouse_packet_ready>>
kernel == <<pc, wild, shell, canvas, status, tries, packet, stray, disturbed>>
vars == <<loader, pics, controller, kernel, disk>>

Lines == {0, 1, 2, 9, 12}

\* Where _start has the handshake behind it.
Shaken == {"unmask", "canvas", "devices", "files", "loop"}

TypeOK ==
    /\ pc \in {"loader", "prepare", "interrupts", "shell", "status", "answer", "defaults",
               "ack1", "report", "ack2"} \cup Shaken
    /\ wild \in {"no", "loader", "rsdp", "scan", "drive", "gate", "shell", "canvas"}
    /\ enabled \in BOOLEAN /\ open \subseteq Lines /\ shell \in BOOLEAN /\ canvas \in BOOLEAN
    /\ config \subseteq {1, 12} /\ status \subseteq {1, 12} /\ tries \in 0 .. Patience
    /\ out \in {"none", "key", "status", "ack", "motion"} /\ Len(owed) <= 3
    /\ reporting \in BOOLEAN /\ mouse_cycle \in 0 .. 2 /\ mouse_packet_ready \in BOOLEAN
    /\ keys \in 0 .. MaxKeys /\ disk \in {"answers", "silent"}

Init ==
    /\ L!Init
    /\ pc = "loader" /\ wild = "no" /\ enabled = FALSE
    /\ shell = FALSE /\ canvas = FALSE /\ status = {} /\ tries = 0
    \* Lines, controller and mouse are as the firmware left them.  A byte that it left
    \* in the controller is one that comes as soon as the loader is done.
    /\ open \in {{}, {0, 1, 2}, {0, 1, 2, 9, 12}} /\ config \in SUBSET {1, 12}
    /\ out = "none" /\ owed = <<>> /\ reporting \in BOOLEAN
    /\ mouse_cycle = 0 /\ mouse_packet_ready = FALSE /\ keys = 0
    /\ disk = "answers"
    /\ early = {} /\ stray = FALSE /\ disturbed = FALSE /\ soon = FALSE

Goto(a, b) == pc = a /\ pc' = b /\ wild = "no"

-----------------------------------------------------------------------------
(* efi_main, and _start up to the handshake. *)

LoaderStep == pc = "loader" /\ L!Next /\ UNCHANGED <<pics, controller, kernel, disk>>

\* The jump is made whatever the loader failed to load or to allocate.  Its own
\* state is not looked at again.
KernelStart ==
    /\ Goto("loader", "prepare") /\ step = "kernel_start"
    /\ wild' = IF failed THEN "loader" ELSE "no"
    /\ step' = "over" /\ tables' = <<>> /\ version' = 0 /\ map' = 0
    /\ exited' = FALSE /\ failed' = FALSE /\ printed' = FALSE
    /\ UNCHANGED <<rsdp, pics, controller, shell, canvas, status, tries, packet, stray, disturbed, disk>>

\* Memory, heap, gates; then remap_pic restores the mask of the first PIC and
\* gives the second whatever the variable a2 held, and sti.
prepare_interrupts ==
    /\ Goto("prepare", "interrupts")
    /\ enabled' = TRUE
    /\ \E garbage \in SUBSET {9, 12} : open' = (open \cap {0, 1, 2}) \cup garbage
    /\ early' = open'
    /\ UNCHANGED <<loader, controller, wild, shell, canvas, status, tries, packet, stray, disturbed, disk>>

\* mutant: the shell is made, the pointer to it not set
MakeShellLocal ==
    /\ Goto("interrupts", "shell")
    /\ UNCHANGED <<loader, pics, controller, wild, shell, canvas, status, tries, packet, stray, disturbed, disk>>

\* The graphics object, the timer, the shell.
MakeShell ==
    /\ Goto("interrupts", "shell")
    /\ shell' = TRUE
    /\ UNCHANGED <<loader, pics, controller, wild, canvas, status, tries, packet, stray, disturbed, disk>>

-----------------------------------------------------------------------------
(* init_mouse.  A write goes out after mouse_wait; when that ran out the     *)
(* controller was not listening and the write is lost.                       *)

\* A byte that is in the controller is not read before its answer is waited for.
AskStatus ==
    /\ Goto("shell", "status") /\ tries' = 0
    /\ \/ owed' = Append(owed, "status") /\ UNCHANGED disturbed
       \/ UNCHANGED owed /\ disturbed' = TRUE
    /\ UNCHANGED <<loader, pics, config, out, reporting, keys, soon, wild, shell, canvas, status, packet, stray, disk>>

\* mutant: mouse_wait_input waits as long as it takes
WaitInputForEver == out = "none" /\ UNCHANGED <<pc, tries, out, disturbed>>

\* One more turn of mouse_wait_input.
WaitInput == out = "none" /\ tries < Patience /\ tries' = tries + 1 /\ UNCHANGED <<pc, out, disturbed>>

\* The wait is over, for what was waited for, for another byte, or for nothing;
\* the port is read in every case.
TakeInput(next) ==
    /\ out # "none" \/ tries = Patience
    /\ pc' = next /\ out' = "none" /\ tries' = 0
    /\ disturbed' = (disturbed \/ out = "none")

\* What the port holds when nothing was sent is anything.
ReadStatus ==
    /\ pc = "status" /\ wild = "no"
    /\ \/ WaitInput /\ UNCHANGED status
       \/ TakeInput("answer") /\ status' \in IF out = "status" THEN {config} ELSE SUBSET {1, 12}
    /\ UNCHANGED <<loader, pics, config, owed, reporting, keys, soon, wild, shell, canvas, packet, stray, disk>>

\* status |= 0b10, and back to the controller.
WriteStatus ==
    /\ Goto("answer", "defaults")
    /\ \/ config' = status \cup {12} /\ UNCHANGED disturbed
       \/ UNCHANGED config /\ disturbed' = TRUE
    /\ UNCHANGED <<loader, pics, out, owed, reporting, keys, soon, wild, shell, canvas, status, tries, packet, stray, disk>>

\* mouse_write(0xF6), mouse_write(0xF4): the mouse acknowledges; the first stops
\* its reports, the second starts them.
mouse_write ==
    /\ Goto("defaults", "ack1") \/ Goto("report", "ack2")
    /\ \/ owed' = Append(owed, "ack") /\ reporting' = (pc = "report") /\ UNCHANGED disturbed
       \/ UNCHANGED <<owed, reporting>> /\ disturbed' = TRUE
    /\ UNCHANGED <<loader, pics, config, out, keys, soon, wild, shell, canvas, status, tries, packet, stray, disk>>

\* mutant: the second acknowledgement is left in the controller
MouseReadOnce ==
    /\ pc \in {"ack1", "ack2"} /\ wild = "no"
    /\ \/ pc = "ack1" /\ WaitInput
       \/ pc = "ack1" /\ TakeInput("report")
       \/ pc = "ack2" /\ pc' = "unmask" /\ UNCHANGED <<tries, out, disturbed>>
    /\ UNCHANGED <<loader, pics, config, owed, reporting, keys, soon, wild, shell, canvas, status, packet, stray, disk>>

mouse_read ==
    /\ pc \in {"ack1", "ack2"} /\ wild = "no"
    /\ WaitInput \/ TakeInput(IF pc = "ack1" THEN "report" ELSE "unmask")
    /\ UNCHANGED <<loader, pics, config, owed, reporting, keys, soon, wild, shell, canvas, status, packet, stray, disk>>

-----------------------------------------------------------------------------
(* The rest of _start. *)

\* 0b11111000 and 0b11101101: a bit that is 0 opens its line.
Unmask ==
    /\ Goto("unmask", "canvas")
    /\ open' = {0, 1, 2} \cup {9, 12}
    /\ UNCHANGED <<loader, enabled, early, controller, wild, shell, canvas, status, tries, packet, stray, disturbed, disk>>

init_shell ==
    /\ Goto("canvas", "devices")
    /\ canvas' = TRUE
    /\ UNCHANGED <<loader, pics, controller, wild, shell, status, tries, packet, stray, disturbed, disk>>

\* prepare_acpi reads xsdt_address behind rsdp, which may be NULL, or a structure
\* that has no such field.  The scan may go astray, too (DeviceScan); its waits for
\* the engine of a port have no bound.
prepare_acpi ==
    /\ pc = "devices" /\ wild = "no" /\ disk # "silent"
    /\ \/ rsdp = "acpi2" /\ pc' = "files" /\ UNCHANGED wild
       \/ wild' = (IF rsdp = "acpi2" THEN "scan" ELSE "rsdp") /\ UNCHANGED pc
    /\ UNCHANGED <<loader, pics, controller, shell, canvas, status, tries, packet, stray, disturbed, disk>>

\* FAT32 fs(0) follows the first driver, whether or not there is one, to its drive,
\* and waits for its answers without a bound.  What it makes of them is FatTable's.
MountDisk ==
    /\ pc = "files" /\ wild = "no" /\ disk # "silent"
    /\ \/ pc' = "loop" /\ UNCHANGED wild
       \/ wild' = "drive" /\ UNCHANGED pc
    /\ UNCHANGED <<loader, pics, controller, shell, canvas, status, tries, packet, stray, disturbed, disk>>

\* The turn of start_loop takes a packet; what it makes of it is MouseInput's.
process_mouse_packet ==
    /\ pc = "loop" /\ wild = "no" /\ mouse_packet_ready
    /\ mouse_packet_ready' = FALSE
    /\ UNCHANGED <<loader, pics, controller, pc, wild, shell, canvas, status, tries, mouse_cycle, stray, disturbed, disk>>

Main ==
    \/ LoaderStep \/ KernelStart \/ prepare_interrupts \/ MakeShell \/ AskStatus \/ ReadStatus
    \/ WriteStatus \/ mouse_write \/ mouse_read \/ Unmask \/ init_shell
    \/ prepare_acpi \/ MountDisk \/ process_mouse_packet

-----------------------------------------------------------------------------
(* Devices and interrupts. *)

PressKey ==
    /\ pc # "loader" /\ wild = "no" /\ out = "none" /\ keys < MaxKeys
    /\ out' = "key" /\ keys' = keys + 1 /\ soon' = (soon \/ ~canvas)
    /\ disturbed' = (disturbed \/ pc \notin Shaken)
    /\ UNCHANGED <<loader, pics, config, owed, reporting, pc, wild, shell, canvas, status, tries, packet, stray, disk>>

\* A byte of the mouse's motion, whoever had it report, behind what it acknowledges.
MoveMouse ==
    /\ reporting /\ \A i \in DOMAIN owed : owed[i] # "ack"
    /\ pc # "loader" /\ wild = "no" /\ out = "none"
    /\ out' = "motion" /\ disturbed' = (disturbed \/ pc \notin Shaken)
    /\ UNCHANGED <<loader, pics, config, owed, reporting, keys, soon, pc, wild, shell, canvas, status, tries,
                   packet, stray, disk>>

\* Controller or mouse answers.
Answer ==
    /\ owed # <<>> /\ out = "none" /\ wild = "no"
    /\ out' = Head(owed) /\ owed' = Tail(owed)
    /\ soon' = (soon \/ (out' = "status" /\ pc # "status" /\ ~canvas))
    /\ UNCHANGED <<loader, pics, config, reporting, keys, kernel, disk>>

\* The port's engine does not stop, or a command is never completed.
DiskFallsSilent ==
    /\ pc \in {"devices", "files"} /\ wild = "no" /\ disk = "answers"
    /\ disk' = "silent"
    /\ UNCHANGED <<loader, pics, controller, kernel>>

\* The line of a byte is raised, let through and taken.  Interrupts of the
\* second PIC come in through line 2 of the first.
Taken(line) ==
    /\ enabled /\ wild = "no" /\ line \in open
    /\ line \in {9, 12} => 2 \in open

\* handle_keyboard prints to the canvas through the shell, unless the byte is a
\* shift key's or that of a key let go.
keyboard_int_handler ==
    /\ Taken(1) /\ 1 \in config /\ out \in {"key", "status"}
    /\ out' = "none"
    /\ wild' \in {"no", IF ~shell THEN "shell" ELSE IF ~canvas THEN "canvas" ELSE "no"}
    /\ UNCHANGED <<loader, pics, config, owed, reporting, keys, soon, pc, shell, canvas, status, tries,
                   packet, stray, disturbed, disk>>

\* handle_mouse takes the byte for one of a packet, whatever it is, or drops it
\* while a packet waits.
mouse_int_handler ==
    /\ Taken(12) /\ 12 \in config /\ out \in {"ack", "motion"}
    /\ out' = "none"
    /\ \/ mouse_packet_ready /\ UNCHANGED packet
       \/ /\ ~mouse_packet_ready
          /\ mouse_cycle' = (mouse_cycle + 1) % 3 /\ mouse_packet_ready' = (mouse_cycle = 2)
    /\ stray' = (stray \/ out = "ack")
    /\ UNCHANGED <<loader, pics, config, owed, reporting, keys, soon, pc, wild, shell, canvas, status, tries, disturbed, disk>>

\* set_idt_gate was called for lines 0, 1 and 12.  Line 9 has no gate, and the page of the IDT was not cleared.
FirmwareInterrupt ==
    /\ Taken(9) /\ wild' = "gate"
    /\ UNCHANGED <<loader, pics, controller, pc, shell, canvas, status, tries, packet, stray, disturbed, disk>>

Next ==
    \/ Main \/ PressKey \/ MoveMouse \/ Answer \/ DiskFallsSilent
    \/ keyboard_int_handler \/ mouse_int_handler \/ FirmwareInterrupt

Spec == Init /\ [][Next]_vars /\ WF_vars(Main)

-----------------------------------------------------------------------------
\* The keyboard handler follows no pointer that is not set yet, but in the ways
\* the order of _start leaves open: a line that the firmware had left open, or a byte
\* that comes to it between the unmasking of its line and the shell's canvas, if one
\* was sent before.
KeysMeetShell ==
    /\ wild = "shell" => 1 \in early
    /\ wild = "canvas" => soon \/ 1 \in early

\* A handshake that no key, no expired wait and no motion of a mouse the firmware
\* had left reporting came into, on lines that were closed, ends with the mouse
\* reporting and the controller raising its line, and none of the handshake's bytes
\* is ever taken for one of a packet: handle_mouse, which cannot tell them apart,
\* starts with the first byte of the first packet.
HandshakeStaysOut ==
    /\ TypeOK
    /\ ~disturbed /\ early = {} =>
          /\ ~stray
          /\ pc \in {"defaults", "ack1", "report", "ack2"} \cup Shaken =>
                12 \in config /\ (1 \in config) = (1 \in status)
          /\ pc \in Shaken => reporting

\* What a loader that has not failed gives the kernel: the firmware's last memory
\* map, with boot services ended, unless the Print between the two changed it; and
\* version 2 of the RSDP, when the firmware lists it last of the tables that look
\* like one, and not first of all.
KernelGetsMapAndRsdp ==
    step = "kernel_start" =>
        /\ ~failed /\ ~printed => map = version /\ exited
        /\ \A i \in 2 .. Len(tables) :
              /\ tables[i] = "acpi2"
              /\ \A j \in i + 1 .. Len(tables) : ~L!StartsLikeRsdp(tables[j])
              => rsdp = "acpi2"

\* Whatever keyboard and mouse do, and if they do nothing at all, _start comes to the
\* main loop, runs wild, or waits for a disk that fell silent under it: no other
\* wait is unbounded.
LoopReached == <>(pc = "loop" \/ wild # "no" \/ disk = "silent")
=============================================================================
