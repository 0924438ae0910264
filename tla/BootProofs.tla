----------------------------- MODULE BootProofs -----------------------------
(***************************************************************************)
(* Proofs about Boot, for every list of configuration tables, every length *)
(* of the waits and every number of keys.                                  *)
(***************************************************************************)
EXTENDS Boot, TLAPS

-----------------------------------------------------------------------------
(* The invariant. *)

\* From sti to the unmasking of the lines.
Shaking == {"interrupts", "shell", "status", "answer", "defaults", "ack1", "report", "ack2", "unmask"}

Types == TypeOK /\ owed \in Seq({"ack", "status"}) /\ early \subseteq Lines

\* Which pointers are set, and which lines are open, follows from how far _start
\* has come: until Unmask they are the ones that remap_pic had opened.
Gates ==
    /\ pc \in {"loader", "prepare"} => ~enabled /\ early = {}
    /\ pc \in Shaking => open = early
    /\ ~shell => pc \in {"loader", "prepare", "interrupts"}
    /\ ~canvas => pc \notin {"devices", "files", "loop"}
    /\ out \in {"key", "status"} /\ ~canvas => soon \/ pc = "status"
    /\ wild = "shell" => 1 \in early
    /\ wild = "canvas" => soon \/ 1 \in early

\* What has been sent and is yet to be sent, in a handshake that nothing came into.
Sent ==
    /\ pc \in {"loader", "prepare", "interrupts", "shell", "answer", "defaults", "report"} => out = "none" /\ owed = <<>>
    /\ pc = "status" => <<out, owed>> \in {<<"none", <<"status">>>>, <<"status", <<>>>>}
    /\ pc \in {"ack1", "ack2"} => <<out, owed>> \in {<<"none", <<"ack">>>>, <<"ack", <<>>>>}
    /\ pc \in Shaken => out \notin {"ack", "status"} /\ owed = <<>>

Connected ==
    /\ pc \in {"defaults", "ack1", "report", "ack2"} \cup Shaken => 12 \in config /\ (1 \in config) = (1 \in status)
    /\ pc \in {"ack2"} \cup Shaken => reporting

Mouse ==
    /\ pc \in {"loader", "prepare", "interrupts", "shell"} => owed = <<>>
    /\ pc \in {"status", "answer", "defaults"} => Len(owed) <= 1
    /\ pc \in {"ack1", "report"} => Len(owed) <= 2
    /\ ~disturbed /\ early = {} => ~stray /\ Sent /\ Connected

\* What the loader has found out by each of its steps.
Found ==
    /\ step = "over" \/ (pc = "loader" /\ tables \in ConfigTables)
    /\ step \in {"rsdp", "print"} /\ ~failed => map = version
    /\ step \in {"exit", "kernel_start"} /\ ~failed /\ ~printed => map = version
    /\ step = "kernel_start" /\ ~failed /\ ~printed => exited
    /\ step \in {"print", "exit", "kernel_start"} => rsdp = L!FoundRsdp(tables)

IInv == Types /\ Gates /\ Mouse /\ Found

-----------------------------------------------------------------------------
(* Types. *)

\* The bounds are natural numbers.
LEMMA Bounds == Patience \in Nat \ {0} /\ MaxKeys \in Nat
  BY BootAssumption

\* The machine starts with its variables typed.
LEMMA InitTypes == Init => Types
<1> SUFFICES ASSUME Init PROVE Types
  OBVIOUS
<1>1. owed = <<>> /\ <<>> \in Seq({"ack", "status"}) /\ Len(<<>>) = 0
  BY DEF Init
<1>2. /\ enabled \in BOOLEAN /\ shell \in BOOLEAN /\ canvas \in BOOLEAN
      /\ reporting \in BOOLEAN /\ mouse_packet_ready \in BOOLEAN
  BY Zenon DEF Init
<1>3. pc = "loader" /\ wild = "no" /\ out = "none" /\ disk = "answers"
  BY Zenon DEF Init
<1>4. open \subseteq Lines /\ config \subseteq {1, 12} /\ status \subseteq {1, 12} /\ early \subseteq Lines
  BY DEF Init, Lines
<1>5. tries \in 0 .. Patience /\ mouse_cycle \in 0 .. 2 /\ keys \in 0 .. MaxKeys
  BY Bounds DEF Init
<1> QED
  BY <1>1, <1>2, <1>3, <1>4, <1>5 DEF Types, TypeOK

\* What is owed stays a sequence of answers.
LEMMA Owed ==
  ASSUME NEW s \in Seq({"ack", "status"})
  PROVE  /\ \A a \in {"ack", "status"} : Append(s, a) \in Seq({"ack", "status"}) /\ Len(Append(s, a)) = Len(s) + 1
         /\ s # <<>> => /\ Head(s) \in {"ack", "status"}
                        /\ Tail(s) \in Seq({"ack", "status"}) /\ Len(Tail(s)) = Len(s) - 1
         /\ Len(s) \in Nat
  OBVIOUS

\* Every step of firmware, kernel, user and mouse keeps them typed.
LEMMA NextTypes == Types /\ Mouse /\ [Next]_vars => Types'
<1> SUFFICES ASSUME Types, Mouse, [Next]_vars PROVE Types'
  OBVIOUS
<1> USE DEF Types, TypeOK, Lines, Shaken, Goto, loader, pics, controller, kernel, packet
<1>1. CASE LoaderStep
  BY <1>1 DEF LoaderStep
<1>2. CASE KernelStart
  BY <1>2 DEF KernelStart
<1>3. CASE prepare_interrupts
  BY <1>3 DEF prepare_interrupts
<1>4. CASE MakeShell
  BY <1>4 DEF MakeShell
<1>5. CASE AskStatus
  <2>1. pc = "shell" /\ owed' \in {owed, Append(owed, "status")}
    BY <1>5 DEF AskStatus
  <2>2. owed = <<>> /\ Len(<<>>) = 0
    BY <2>1 DEF Mouse
  <2>3. Append(owed, "status") \in Seq({"ack", "status"}) /\ Len(Append(owed, "status")) = 1
    BY <2>2, Owed
  <2>4. owed' \in Seq({"ack", "status"}) /\ Len(owed') <= 3
    BY <2>1, <2>3
  <2> QED
    BY <1>5, <2>4, Bounds DEF AskStatus
<1>6. CASE ReadStatus
  <2>1. status' \subseteq {1, 12}
    BY <1>6 DEF ReadStatus, WaitInput, TakeInput
  <2>2. /\ tries' \in 0 .. Patience /\ pc' \in {"status", "answer"} /\ out' \in {"none", out}
        /\ UNCHANGED <<wild, enabled, open, shell, canvas, config, owed, reporting, mouse_cycle,
                       mouse_packet_ready, keys, disk, early>>
    BY <1>6, Bounds DEF ReadStatus, WaitInput, TakeInput
  <2> QED
    BY <2>1, <2>2
<1>7. CASE WriteStatus
  BY <1>7 DEF WriteStatus
<1>8. CASE mouse_write
  <2>1. pc \in {"defaults", "report"} /\ owed' \in {owed, Append(owed, "ack")}
    BY <1>8 DEF mouse_write
  <2>2. owed' \in Seq({"ack", "status"}) /\ Len(owed') <= 3
    BY <2>1, Owed DEF Mouse
  <2>3. reporting' \in BOOLEAN
    BY <1>8 DEF mouse_write
  <2> QED
    BY <1>8, <2>2, <2>3 DEF mouse_write
<1>9. CASE mouse_read
  BY <1>9, Bounds DEF mouse_read, WaitInput, TakeInput
<1>10. CASE Unmask
  BY <1>10 DEF Unmask
<1>11. CASE init_shell
  BY <1>11 DEF init_shell
<1>12. CASE prepare_acpi
  BY <1>12 DEF prepare_acpi
<1>13. CASE MountDisk
  BY <1>13 DEF MountDisk
<1>14. CASE process_mouse_packet
  BY <1>14 DEF process_mouse_packet
<1>15. CASE PressKey
  BY <1>15, Bounds DEF PressKey
<1>16. CASE MoveMouse
  BY <1>16 DEF MoveMouse
<1>17. CASE Answer
  BY <1>17, Owed DEF Answer
<1>18. CASE DiskFallsSilent
  BY <1>18 DEF DiskFallsSilent
<1>19. CASE keyboard_int_handler
  BY <1>19 DEF keyboard_int_handler
<1>20. CASE mouse_int_handler
  <2>1. mouse_cycle' \in {mouse_cycle, (mouse_cycle + 1) % 3}
    BY <1>20 DEF mouse_int_handler
  <2>2. mouse_cycle' \in 0 .. 2
    BY <2>1
  <2>3. mouse_packet_ready' = mouse_packet_ready \/ mouse_packet_ready' = (mouse_cycle = 2)
    BY <1>20 DEF mouse_int_handler
  <2>4. mouse_packet_ready' \in BOOLEAN
    BY <2>3
  <2> QED
    BY <1>20, <2>2, <2>4 DEF mouse_int_handler
<1>21. CASE FirmwareInterrupt
  BY <1>21 DEF FirmwareInterrupt
<1>22. CASE UNCHANGED vars
  BY <1>22 DEF vars
<1> QED
  BY <1>1, <1>2, <1>3, <1>4, <1>5, <1>6, <1>7, <1>8, <1>9, <1>10, <1>11, <1>12, <1>13, <1>14,
     <1>15, <1>16, <1>17, <1>18, <1>19, <1>20, <1>21, <1>22 DEF Next, Main

-----------------------------------------------------------------------------
(* Gates and pointers. *)

\* Nothing has met a pointer when the machine starts.
LEMMA InitGates == Init => Gates
  BY DEF Init, Gates, Shaking

\* A handler runs behind a gate that is set and on a line that was opened.
LEMMA NextGates == Types /\ Gates /\ [Next]_vars => Gates'
<1> SUFFICES ASSUME Types, Gates, [Next]_vars PROVE Gates'
  OBVIOUS
<1> USE DEF Gates, Shaking, Goto, loader, pics, controller, kernel, packet
<1>1. CASE LoaderStep
  BY <1>1 DEF LoaderStep
<1>2. CASE KernelStart
  BY <1>2 DEF KernelStart
<1>3. CASE prepare_interrupts
  BY <1>3 DEF prepare_interrupts
<1>4. CASE MakeShell
  BY <1>4 DEF MakeShell
<1>5. CASE AskStatus
  BY <1>5 DEF AskStatus
<1>6. CASE ReadStatus
  BY <1>6 DEF ReadStatus, WaitInput, TakeInput
<1>7. CASE WriteStatus
  BY <1>7 DEF WriteStatus
<1>8. CASE mouse_write
  BY <1>8 DEF mouse_write
<1>9. CASE mouse_read
  BY <1>9 DEF mouse_read, WaitInput, TakeInput
<1>10. CASE Unmask
  BY <1>10 DEF Unmask
<1>11. CASE init_shell
  BY <1>11 DEF init_shell
<1>12. CASE prepare_acpi
  BY <1>12 DEF prepare_acpi
<1>13. CASE MountDisk
  BY <1>13 DEF MountDisk
<1>14. CASE process_mouse_packet
  BY <1>14 DEF process_mouse_packet
<1>15. CASE PressKey
  BY <1>15 DEF PressKey
<1>16. CASE MoveMouse
  BY <1>16 DEF MoveMouse
<1>17. CASE Answer
  BY <1>17, Owed DEF Answer, Types
<1>18. CASE DiskFallsSilent
  BY <1>18 DEF DiskFallsSilent
<1>19. CASE keyboard_int_handler
  BY <1>19 DEF keyboard_int_handler, Taken, Types, TypeOK
<1>20. CASE mouse_int_handler
  BY <1>20 DEF mouse_int_handler
<1>21. CASE FirmwareInterrupt
  BY <1>21 DEF FirmwareInterrupt
<1>22. CASE UNCHANGED vars
  BY <1>22 DEF vars
<1> QED
  BY <1>1, <1>2, <1>3, <1>4, <1>5, <1>6, <1>7, <1>8, <1>9, <1>10, <1>11, <1>12, <1>13, <1>14,
     <1>15, <1>16, <1>17, <1>18, <1>19, <1>20, <1>21, <1>22 DEF Next, Main

-----------------------------------------------------------------------------
(* The handshake. *)

\* No line that was closed until Unmask has brought a byte of it to a handler.
LEMMA Closed ==
  ASSUME Gates, early = {}, NEW line, Taken(line)
  PROVE  pc \notin Shaking \cup {"loader", "prepare"}
  BY DEF Gates, Taken, Shaking

\* One answer that is owed, and that is given.
LEMMA Bytes ==
  \A a \in {"ack", "status"} :
     /\ Append(<<>>, a) = <<a>> /\ Head(<<a>>) = a /\ Tail(<<a>>) = <<>>
     /\ <<a>> # <<>> /\ Len(<<a>>) = 1 /\ Len(<<>>) = 0
     /\ \E i \in DOMAIN <<a>> : <<a>>[i] = a
  OBVIOUS

\* Nothing of the handshake is under way when the machine starts.
LEMMA InitMouse == Init => Mouse
<1> SUFFICES ASSUME Init PROVE Mouse
  OBVIOUS
<1>1. pc = "loader" /\ out = "none" /\ owed = <<>> /\ ~stray
  BY Zenon DEF Init
<1> QED
  BY <1>1 DEF Mouse, Sent, Connected, Shaken

\* Every answer of the handshake is taken by the wait that is for it, if nothing disturbs it.
LEMMA NextMouse == Types /\ Gates /\ Mouse /\ [Next]_vars => Mouse'
<1> SUFFICES ASSUME Types, Gates, Mouse, [Next]_vars PROVE Mouse'
  OBVIOUS
<1> USE DEF Mouse, Sent, Connected, Shaken, Goto, loader, pics, controller, kernel, packet
<1>1. CASE LoaderStep
  BY <1>1 DEF LoaderStep
<1>2. CASE KernelStart
  BY <1>2 DEF KernelStart
<1>3. CASE prepare_interrupts
  BY <1>3 DEF prepare_interrupts, Gates
<1>4. CASE MakeShell
  BY <1>4 DEF MakeShell
<1>5. CASE AskStatus
  <2>1. pc = "shell" /\ pc' = "status" /\ UNCHANGED <<early, stray, out>>
    BY <1>5 DEF AskStatus
  <2>2. \/ disturbed' /\ owed' = owed
        \/ disturbed' = disturbed /\ owed' = Append(owed, "status")
    BY <1>5 DEF AskStatus
  <2>3. owed = <<>> /\ (owed' = <<>> \/ owed' = <<"status">>)
    BY <2>1, <2>2, Bytes
  <2>4. Len(owed') <= 1
    BY <2>3, Bytes
  <2>5. ~disturbed' /\ early = {} => ~stray /\ out = "none" /\ owed' = <<"status">>
    BY <2>1, <2>2, <2>3
  <2> QED
    BY <2>1, <2>4, <2>5
<1>6. CASE ReadStatus
  BY <1>6 DEF ReadStatus, WaitInput, TakeInput
<1>7. CASE WriteStatus
  BY <1>7 DEF WriteStatus
<1>8. CASE mouse_write
  <2>1. /\ pc \in {"defaults", "report"} /\ pc' = (IF pc = "defaults" THEN "ack1" ELSE "ack2")
        /\ UNCHANGED <<early, stray, config, status, out>>
    BY <1>8 DEF mouse_write
  <2>2. \/ disturbed' /\ owed' = owed
        \/ disturbed' = disturbed /\ owed' = Append(owed, "ack") /\ reporting' = (pc = "report")
    BY <1>8 DEF mouse_write
  <2>3. pc = "defaults" => Len(owed') <= 2
    BY <2>1, <2>2, Owed DEF Types
  <2>4. ~disturbed' /\ early = {} => out = "none" /\ owed' = <<"ack">> /\ ~stray /\ Connected
    BY <2>1, <2>2, Bytes
  <2>5. ~disturbed' /\ early = {} /\ pc = "report" => reporting'
    BY <2>2
  <2> QED
    BY <2>1, <2>3, <2>4, <2>5
<1>9. CASE mouse_read
  <2>1. pc \in {"ack1", "ack2"} /\ UNCHANGED <<early, stray, config, status, owed, reporting>>
    BY <1>9 DEF mouse_read
  <2>2. CASE WaitInput
    BY <2>1, <2>2 DEF WaitInput
  <2>3. CASE TakeInput(IF pc = "ack1" THEN "report" ELSE "unmask")
    <3>1. /\ pc' = (IF pc = "ack1" THEN "report" ELSE "unmask") /\ out' = "none"
          /\ disturbed' = (disturbed \/ out = "none")
      BY <2>3 DEF TakeInput
    <3>2. CASE pc = "ack1"
      BY <2>1, <3>1, <3>2
    <3>3. CASE pc = "ack2"
      BY <2>1, <3>1, <3>3
    <3> QED
      BY <2>1, <3>2, <3>3
  <2> QED
    BY <1>9, <2>2, <2>3 DEF mouse_read
<1>10. CASE Unmask
  BY <1>10 DEF Unmask
<1>11. CASE init_shell
  BY <1>11 DEF init_shell
<1>12. CASE prepare_acpi
  BY <1>12 DEF prepare_acpi
<1>13. CASE MountDisk
  BY <1>13 DEF MountDisk
<1>14. CASE process_mouse_packet
  BY <1>14 DEF process_mouse_packet
<1>15. CASE PressKey
  BY <1>15 DEF PressKey, Types, TypeOK
<1>16. CASE MoveMouse
  <2>1. /\ reporting /\ \A i \in DOMAIN owed : owed[i] # "ack"
        /\ out = "none" /\ out' = "motion" /\ disturbed' = (disturbed \/ pc \notin Shaken)
        /\ UNCHANGED <<pc, owed, early, stray, config, status, reporting>>
    BY <1>16 DEF MoveMouse
  <2> QED
    BY <2>1
<1>17. CASE Answer
  <2>1. /\ owed # <<>> /\ out = "none" /\ out' = Head(owed) /\ owed' = Tail(owed)
        /\ UNCHANGED <<pc, disturbed, early, stray, config, status, reporting>>
    BY <1>17 DEF Answer
  <2>2. Len(owed') = Len(owed) - 1 /\ Len(owed) \in Nat
    BY <2>1, Owed DEF Types
  <2>3. Sent => Sent'
    BY <2>1, Bytes DEF Types, TypeOK
  <2> QED
    BY <2>1, <2>2, <2>3 DEF Types, TypeOK
<1>18. CASE DiskFallsSilent
  BY <1>18 DEF DiskFallsSilent
<1>19. CASE keyboard_int_handler
  <2>1. early = {} => pc \in {"canvas", "devices", "files", "loop"}
    BY <1>19, Closed DEF keyboard_int_handler, Types, TypeOK, Shaking, Shaken
  <2> QED
    BY <1>19, <2>1 DEF keyboard_int_handler
<1>20. CASE mouse_int_handler
  <2>1. early = {} => pc \in {"canvas", "devices", "files", "loop"}
    BY <1>20, Closed DEF mouse_int_handler, Types, TypeOK, Shaking, Shaken
  <2> QED
    BY <1>20, <2>1 DEF mouse_int_handler
<1>21. CASE FirmwareInterrupt
  BY <1>21 DEF FirmwareInterrupt
<1>22. CASE UNCHANGED vars
  BY <1>22 DEF vars
<1> QED
  BY <1>1, <1>2, <1>3, <1>4, <1>5, <1>6, <1>7, <1>8, <1>9, <1>10, <1>11, <1>12, <1>13, <1>14,
     <1>15, <1>16, <1>17, <1>18, <1>19, <1>20, <1>21, <1>22 DEF Next, Main

-----------------------------------------------------------------------------
(* The loader. *)

\* The loader starts with what the firmware lists.
LEMMA InitFound == Init => Found
  BY DEF Init, L!Init, Found

\* Each step of the loader keeps what it has found and which map it holds.
LEMMA NextFound == Found /\ [Next]_vars => Found'
<1> SUFFICES ASSUME Found, [Next]_vars PROVE Found'
  OBVIOUS
<1>1. CASE LoaderStep
  <2> USE <1>1 DEF LoaderStep, L!Goto, Found
  <2>1. CASE L!LoadKernel
    BY <2>1 DEF L!LoadKernel, kernel
  <2>2. CASE L!LoadFontAndScreen
    BY <2>2 DEF L!LoadFontAndScreen, kernel
  <2>3. CASE L!GetMemoryMapSize
    BY <2>3 DEF L!GetMemoryMapSize, kernel
  <2>4. CASE L!GetMemoryMap
    BY <2>4 DEF L!GetMemoryMap, kernel
  <2>5. CASE L!FindRsdp
    <3>1. L!FoundRsdp(tables)' = L!FoundRsdp(tables)
      BY <2>5 DEF L!FindRsdp, L!FoundRsdp, L!Compared
    <3> QED
      BY <2>5, <3>1 DEF L!FindRsdp, kernel
  <2>6. CASE L!PrintPages
    BY <2>6 DEF L!PrintPages, kernel
  <2>7. CASE L!ExitBootServices
    BY <2>7 DEF L!ExitBootServices, kernel
  <2> QED
    BY <2>1, <2>2, <2>3, <2>4, <2>5, <2>6, <2>7 DEF L!Next
<1>2. CASE KernelStart
  BY <1>2 DEF KernelStart, Found
<1>3. CASE ~LoaderStep /\ ~KernelStart
  <2>1. UNCHANGED loader /\ (pc = "loader" => pc' = "loader")
    BY <1>3 DEF Next, Main, prepare_interrupts, MakeShell, AskStatus, ReadStatus, WriteStatus, mouse_write,
      mouse_read, Unmask, init_shell, prepare_acpi, MountDisk, process_mouse_packet, PressKey, MoveMouse, Answer,
      DiskFallsSilent, keyboard_int_handler,
      mouse_int_handler, FirmwareInterrupt, Goto, WaitInput, TakeInput, vars, kernel
  <2> QED
    BY <2>1 DEF Found, loader
<1> QED
  BY <1>1, <1>2, <1>3

\* The table that is taken is the last of those that are looked at; the one that
\* a turn compares is further on.
LEMMA LastRsdpFound ==
  ASSUME NEW t \in Seq({"acpi1", "acpi2", "smbios", "rogue"}), NEW i \in 2 .. Len(t), t[i] = "acpi2",
         \A j \in i + 1 .. Len(t) : ~L!StartsLikeRsdp(t[j])
  PROVE  L!FoundRsdp(t) = "acpi2"
<1> DEFINE hits == {k \in 0 .. Len(t) - 1 : L!Compared(t, k) # "acpi2" /\ L!StartsLikeRsdp(t[k + 1])}
<1>1. Len(t) \in Nat /\ i \in Nat /\ 2 <= i /\ i <= Len(t)
  OBVIOUS
<1>2. L!Compared(t, i - 1) # "acpi2"
  <2>1. CASE 2 * i - 1 <= Len(t)
    <3>1. 2 * i - 1 \in i + 1 .. Len(t) /\ 2 * (i - 1) + 1 = 2 * i - 1
      BY <1>1, <2>1
    <3>2. ~L!StartsLikeRsdp(t[2 * i - 1])
      BY <3>1
    <3> QED
      BY <2>1, <3>1, <3>2 DEF L!Compared, L!StartsLikeRsdp
  <2>2. CASE ~(2 * i - 1 <= Len(t))
    BY <1>1, <2>2 DEF L!Compared
  <2> QED
    BY <2>1, <2>2
<1>3. i - 1 \in hits
  BY <1>1, <1>2 DEF L!StartsLikeRsdp
<1>4. \A k \in hits : k \in Int /\ k <= i - 1
  <2> SUFFICES ASSUME NEW k \in hits, k > i - 1 PROVE FALSE
    BY <1>1
  <2>1. k + 1 \in i + 1 .. Len(t) /\ L!StartsLikeRsdp(t[k + 1])
    BY <1>1
  <2> QED
    BY <2>1
<1> HIDE DEF hits
<1>5. L!Max(hits) = i - 1
  BY <1>1, <1>3, <1>4 DEF L!Max
<1>6. L!FoundRsdp(t) = t[L!Max(hits) + 1]
  BY <1>3 DEF L!FoundRsdp, hits
<1> QED
  BY <1>1, <1>5, <1>6

-----------------------------------------------------------------------------
(* What the invariant gives. *)

\* The invariant holds in every reachable state, whatever the firmware, the user and
\* the mouse do.
THEOREM Invariance == Spec => []IInv
<1>1. Init => IInv
  BY InitTypes, InitGates, InitMouse, InitFound DEF IInv
<1>2. IInv /\ [Next]_vars => IInv'
  BY NextTypes, NextGates, NextMouse, NextFound DEF IInv
<1> QED
  BY <1>1, <1>2, PTL DEF Spec

\* The keyboard handler follows no pointer that is not set, but on a line firmware
\* had left open or for a key before the shell has its canvas (KeysMeetShell).
THEOREM ShellHolds == Spec => []KeysMeetShell
<1>1. IInv => KeysMeetShell
  BY DEF IInv, Gates, KeysMeetShell
<1> QED
  BY <1>1, Invariance, PTL

\* Unless a key or an expired wait comes into it, or a line was open before, no
\* byte of init_mouse's handshake becomes part of a packet (HandshakeStaysOut).
THEOREM HandshakeHolds == Spec => []HandshakeStaysOut
<1>1. IInv => HandshakeStaysOut
  BY DEF IInv, Types, Mouse, Connected, HandshakeStaysOut
<1> QED
  BY <1>1, Invariance, PTL

\* The kernel is started with the last memory map, and with the RSDP, wherever the
\* loop over configuration tables of any number can find it (KernelGetsMapAndRsdp).
THEOREM LoaderHolds == Spec => []KernelGetsMapAndRsdp
<1>1. IInv => KernelGetsMapAndRsdp
  <2> SUFFICES ASSUME IInv, step = "kernel_start" PROVE KernelGetsMapAndRsdp
    BY DEF KernelGetsMapAndRsdp
  <2>1. tables \in Seq({"acpi1", "acpi2", "smbios", "rogue"}) /\ rsdp = L!FoundRsdp(tables)
    BY BootAssumption DEF IInv, Found
  <2>2. ~failed /\ ~printed => map = version /\ exited
    BY DEF IInv, Found
  <2> QED
    BY <2>1, <2>2, LastRsdpFound DEF KernelGetsMapAndRsdp
<1> QED
  BY <1>1, Invariance, PTL
=============================================================================
