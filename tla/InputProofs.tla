---------------------------- MODULE InputProofs ----------------------------
(***************************************************************************)
(* Proofs about the input of the shell: MouseInput, for every screen and   *)
(* every set of packets, and CommandLine, for every canvas whose margins   *)
(* agree, every set of keys and every length of a line.  Both are here     *)
(* because both are the shell's handlers of an interrupt of its own; they  *)
(* share no state.                                                         *)
(***************************************************************************)
EXTENDS MouseInput, CommandLine, FiniteSetTheorems, SequenceTheorems, WellFoundedInduction, TLAPS


-----------------------------------------------------------------------------
(* What the operators return. *)

\* A clamped coordinate is on the screen, and one on the screen stays.
LEMMA ClampOnScreen ==
  ASSUME NEW v \in Int, NEW n \in Nat \ {0}
  PROVE  /\ Clamp(v, n) \in 0 .. n - 1
         /\ v \in 0 .. n - 1 => Clamp(v, n) = v
  BY DEF Clamp

\* 256 - b in eight bits is a byte.
LEMMA NegatedByte == ASSUME NEW b \in Byte PROVE Negated(b) \in Byte
  BY DEF Byte, Negated

\* Motions are integers.
LEMMA MotionType == ASSUME NEW b \in Byte, NEW neg \in BOOLEAN PROVE Motion(b, neg) \in Int
  BY DEF Byte, Motion

\* The parts of a packet.
LEMMA PacketBytes ==
  ASSUME NEW p \in Packets
  PROVE  \A i \in 1 .. 3 : p[i] \in Byte
  BY MouseAssumption

\* A bit is set or it is not.
LEMMA BitType == \A b, i : Bit(b, i) \in BOOLEAN
  BY DEF Bit

\* Button bits name a button.
LEMMA ButtonType == \A b : ButtonOf(b) \in Buttons
  BY DEF ButtonOf, Buttons

-----------------------------------------------------------------------------
(***************************************************************************)
(* The inductive invariant of the packet and the screen.                   *)
(***************************************************************************)
IInv ==
    /\ TypeOK
    /\ dropped \/ mouse_cycle = sent
    /\ pc \in {"done", "draw", "check", "flags", "buttons", "x"} =>
          pos.x \in 0 .. Width - 1 /\ pos.y \in 0 .. Height - 1

(***************************************************************************)
(* And of the position: as long as nothing was dropped or torn, how far    *)
(* process_mouse_packet has got is how far the driver's account is from    *)
(* the device's.                                                           *)
(***************************************************************************)

\* The packet in the buffer.
Packet == <<mouse_packet[0], mouse_packet[1], mouse_packet[2]>>

\* The driver is level with the device, or behind by the packet in the buffer.
Level == pos = true_pos /\ button_state = true_button
Behind == /\ Packet \in Packets
          /\ true_pos = Moved(pos, Packet) /\ true_button = ButtonOf(mouse_packet[0])

BetweenPackets ==
    /\ mouse_packet_ready => sent = 0 /\ ~Processing /\ Behind
    /\ ~mouse_packet_ready /\ ~Processing =>
          Level /\ \A i \in 0 .. sent - 1 : mouse_packet[i] = sending[i + 1]
    /\ Processing => sent = 0

InsideProcess ==
    /\ pc \in {"flags", "buttons", "x"} => Behind
    /\ pc \in {"buttons", "x"} =>
          x_neg = Bit(mouse_packet[0], 4) /\ y_neg = Bit(mouse_packet[0], 5)
    /\ pc \in {"x", "y", "clamp", "done"} => button_state = true_button
    /\ pc = "y" =>
          /\ true_pos = [x |-> Clamp(pos.x, Width),
                         y |-> Clamp(pos.y - Motion(mouse_packet[2], y_neg), Height)]
          /\ y_neg => mouse_packet[2] # 0
    /\ pc = "clamp" => true_pos = OnScreen(pos)
    /\ pc = "done" => Level

Following == dropped \/ torn \/ (BetweenPackets /\ InsideProcess)

\* No packet reports a motion of -256: the code takes it for 0.
Motions == \A p \in Packets : (Bit(p[1], 4) => p[2] # 0) /\ (Bit(p[1], 5) => p[3] # 0)

\* The invariants hold before the first byte.
LEMMA InvInit == Init => IInv /\ Following
<1> SUFFICES ASSUME Init PROVE IInv /\ Following
  OBVIOUS
<1>1. TypeOK
  <2>1. /\ mouse_packet_ready \in BOOLEAN /\ x_neg \in BOOLEAN /\ y_neg \in BOOLEAN
        /\ dropped \in BOOLEAN /\ torn \in BOOLEAN
    BY Zenon DEF Init
  <2>2. /\ mouse_packet \in [0 .. 2 -> Byte]
        /\ true_pos \in [x : 0 .. Width - 1, y : 0 .. Height - 1]
    BY MouseAssumption DEF Init, Byte
  <2> QED
    BY <2>1, <2>2 DEF Init, TypeOK, Buttons, Locations
<1>2. pos.x \in 0 .. Width - 1 /\ pos.y \in 0 .. Height - 1
  BY MouseAssumption DEF Init
<1>3. IInv
  BY <1>1, <1>2 DEF Init, IInv
<1>4. BetweenPackets /\ InsideProcess
  BY DEF Init, BetweenPackets, InsideProcess, Processing, Level
<1> QED
  BY <1>3, <1>4 DEF Following

\* What the device reports moves its own account on the screen.
LEMMA MovedOnScreen ==
  ASSUME NEW q, q.x \in Int, q.y \in Int, NEW p \in Packets
  PROVE  Moved(q, p) \in [x : 0 .. Width - 1, y : 0 .. Height - 1]
<1> DEFINE mx == Motion(p[2], Bit(p[1], 4))
           my == Motion(p[3], Bit(p[1], 5))
<1>1. mx \in Int /\ my \in Int
  BY PacketBytes, MotionType, BitType
<1>2. q.x + mx \in Int /\ q.y - my \in Int
  BY <1>1
<1> HIDE DEF mx, my
<1>3. Clamp(q.x + mx, Width) \in 0 .. Width - 1 /\ Clamp(q.y - my, Height) \in 0 .. Height - 1
  BY <1>2, ClampOnScreen, MouseAssumption
<1> QED
  BY <1>3 DEF Moved, mx, my

\* A byte of the device keeps the first invariant.
LEMMA ByteKeeps == IInv /\ handle_mouse => IInv'
<1> SUFFICES ASSUME IInv, handle_mouse PROVE IInv'
  OBVIOUS
<1>1. sending[sent + 1] \in Byte
  BY PacketBytes DEF IInv, TypeOK
<1>2. /\ mouse_cycle' \in 0 .. 2 /\ mouse_packet' \in [0 .. 2 -> Byte]
      /\ mouse_packet_ready' \in BOOLEAN
  <2>1. mouse_cycle' \in 0 .. 2 /\ mouse_packet' \in [0 .. 2 -> Byte]
    BY <1>1 DEF IInv, TypeOK, handle_mouse, Assemble, buffer
  <2>2. mouse_packet_ready' \in BOOLEAN
    BY Zenon DEF IInv, TypeOK, handle_mouse, Assemble, buffer
  <2> QED
    BY <2>1, <2>2
<1>3. sending' \in Packets /\ sent' \in 0 .. 2
  BY DEF IInv, TypeOK, handle_mouse
<1>4. true_pos' \in [x : 0 .. Width - 1, y : 0 .. Height - 1]
  <2>1. true_pos.x \in Int /\ true_pos.y \in Int /\ sending \in Packets
    BY MouseAssumption DEF IInv, TypeOK
  <2>2. Moved(true_pos, sending) \in [x : 0 .. Width - 1, y : 0 .. Height - 1]
    BY <2>1, MovedOnScreen
  <2>3. NoPos \in [x : 0 .. Width - 1, y : 0 .. Height - 1]
    BY MouseAssumption DEF NoPos
  <2> QED
    BY <2>2, <2>3 DEF IInv, TypeOK, handle_mouse
<1>5. true_button' \in Buttons
  BY ButtonType DEF IInv, TypeOK, handle_mouse, Buttons
<1>6. dropped' \in BOOLEAN /\ torn' \in BOOLEAN
  BY DEF handle_mouse
<1>7. UNCHANGED <<pos, button_state, pc, x_neg, y_neg>>
  BY DEF handle_mouse, pointer
<1>8. TypeOK'
  BY <1>2, <1>3, <1>4, <1>5, <1>6, <1>7 DEF IInv, TypeOK
<1>9. dropped' \/ mouse_cycle' = sent'
  BY DEF IInv, TypeOK, handle_mouse, Assemble
<1> QED
  BY <1>7, <1>8, <1>9 DEF IInv

\* The statements of process_mouse_packet that leave the pointer where it is.
StandingStep ==
    CheckReady \/ ReadSigns \/ ReadButtons \/ ClearReady \/ Draw

\* They keep the first invariant.
LEMMA StandingKeeps == IInv /\ StandingStep => IInv'
<1> SUFFICES ASSUME IInv, StandingStep PROVE IInv'
  OBVIOUS
<1> USE DEF device, buffer, pointer, truth, Locations
<1>1. mouse_packet_ready' \in BOOLEAN /\ x_neg' \in BOOLEAN /\ y_neg' \in BOOLEAN
  BY BitType DEF IInv, TypeOK, StandingStep, CheckReady, ReadSigns, ReadButtons, ClearReady, Draw
<1>2. button_state' \in Buttons
  BY ButtonType DEF IInv, TypeOK, StandingStep, CheckReady, ReadSigns, ReadButtons, ClearReady, Draw
<1>3. /\ UNCHANGED <<device, mouse_cycle, mouse_packet, pos, truth>>
      /\ pc' \in Locations \ {"y", "clamp"}
      /\ pc' \in {"flags", "buttons", "x", "draw", "check"}
      /\ pc \notin {"x", "y", "clamp"}
  BY DEF StandingStep, CheckReady, ReadSigns, ReadButtons, ClearReady, Draw
<1>4. TypeOK'
  BY <1>1, <1>2, <1>3 DEF IInv, TypeOK
<1> QED
  BY <1>3, <1>4 DEF IInv, TypeOK

\* So do the motions and the clamping.
LEMMA MotionKeeps == IInv /\ (MoveX \/ MoveY \/ ClampPosition) => IInv'
<1> SUFFICES ASSUME IInv, MoveX \/ MoveY \/ ClampPosition PROVE IInv'
  OBVIOUS
<1> USE DEF device, buffer, truth
<1>1. mouse_packet \in [0 .. 2 -> Byte] /\ mouse_packet[1] \in Byte /\ mouse_packet[2] \in Byte
      /\ mouse_packet[1] \in Int /\ mouse_packet[2] \in Int
      /\ Negated(mouse_packet[1]) \in Byte /\ Negated(mouse_packet[2]) \in Byte
      /\ Negated(mouse_packet[1]) \in Int /\ Negated(mouse_packet[2]) \in Int
  <2>1. mouse_packet \in [0 .. 2 -> Byte] /\ mouse_packet[1] \in Byte /\ mouse_packet[2] \in Byte
    BY DEF IInv, TypeOK
  <2>2. Negated(mouse_packet[1]) \in Byte /\ Negated(mouse_packet[2]) \in Byte
    BY <2>1, NegatedByte
  <2> HIDE DEF Negated
  <2>3. Byte \subseteq Int
    BY DEF Byte
  <2> QED
    BY <2>1, <2>2, <2>3
<1>2. pos \in [x : Int, y : Int] /\ pos.x \in Int /\ pos.y \in Int
  BY DEF IInv, TypeOK
<1>3. CASE MoveX
  <2>1. pos' \in [x : Int, y : Int] /\ mouse_packet' \in [0 .. 2 -> Byte]
    BY <1>1, <1>2, <1>3 DEF MoveX
  <2>2. TypeOK'
    BY <1>3, <2>1 DEF IInv, TypeOK, MoveX, Locations
  <2> QED
    BY <1>3, <2>2 DEF IInv, MoveX
<1>4. CASE MoveY
  <2>1. pos' \in [x : Int, y : Int] /\ mouse_packet' \in [0 .. 2 -> Byte]
    BY <1>1, <1>2, <1>4 DEF MoveY
  <2>2. x_neg' \in BOOLEAN /\ y_neg' \in BOOLEAN
    BY <1>4 DEF MoveY
  <2>3. TypeOK'
    BY <1>4, <2>1, <2>2 DEF IInv, TypeOK, MoveY, Locations
  <2> QED
    BY <1>4, <2>3 DEF IInv, MoveY
<1>5. CASE ClampPosition
  <2>1. pos'.x \in 0 .. Width - 1 /\ pos'.y \in 0 .. Height - 1 /\ pos' \in [x : Int, y : Int]
    BY <1>2, <1>5, ClampOnScreen, MouseAssumption DEF ClampPosition, OnScreen
  <2>2. TypeOK'
    BY <1>5, <2>1 DEF IInv, TypeOK, ClampPosition, Locations
  <2> QED
    BY <1>5, <2>1, <2>2 DEF IInv, ClampPosition
<1> QED
  BY <1>3, <1>4, <1>5

\* Every step keeps the first invariant.
LEMMA IInvNext == IInv /\ [Next]_vars => IInv'
<1>1. IInv /\ UNCHANGED vars => IInv'
  BY DEF IInv, TypeOK, vars, device, buffer, pointer, truth
<1> QED
  BY <1>1, ByteKeeps, StandingKeeps, MotionKeeps DEF Next, MainLoop, StandingStep

\* The first invariant holds in every reachable state.
THEOREM Invariance == Spec => []IInv
  BY InvInit, IInvNext, PTL DEF Spec

\* However the main loop and the handler interleave, the driver loses the start
\* of a packet only by dropping a byte.
THEOREM AlignedHolds == Spec => []AlignedUnlessDropped
<1>1. IInv => AlignedUnlessDropped
  BY DEF IInv, AlignedUnlessDropped
<1> QED
  BY <1>1, Invariance, PTL

\* The pointer is drawn on the screen, whatever bytes made its position.
THEOREM DrawnOnScreenHolds == Spec => []DrawnOnScreen
<1>1. IInv => DrawnOnScreen
  BY DEF IInv, DrawnOnScreen
<1> QED
  BY <1>1, Invariance, PTL
-----------------------------------------------------------------------------
(***************************************************************************)
(* The position.  Once something is dropped or torn nothing is claimed any *)
(* more; the lemmas below take the other case.                             *)
(***************************************************************************)

Intact == ~dropped /\ ~torn

\* A byte of the device.
LEMMA ByteFollows ==
  ASSUME IInv, Intact, BetweenPackets, InsideProcess, handle_mouse
  PROVE  Following'
<1> USE DEF buffer, pointer, Intact
<1>1. CASE mouse_packet_ready \/ Processing
  BY <1>1 DEF handle_mouse, Following
<1>2. CASE ~mouse_packet_ready /\ ~Processing
  <2>1. pc' = pc /\ pos' = pos /\ button_state' = button_state /\ pc \in {"check", "draw"}
    BY <1>2 DEF handle_mouse, Processing, IInv, TypeOK
  <2>2. InsideProcess' /\ ~Processing'
    BY <2>1 DEF InsideProcess, Processing
  <2>3. /\ mouse_cycle = sent
        /\ mouse_packet' = [mouse_packet EXCEPT ![sent] = sending[sent + 1]]
        /\ mouse_packet_ready' <=> sent = 2
    BY <1>2 DEF IInv, handle_mouse, Assemble
  <2>4. /\ Level /\ \A i \in 0 .. sent - 1 : mouse_packet[i] = sending[i + 1]
        /\ sent \in 0 .. 2 /\ mouse_packet \in [0 .. 2 -> Byte] /\ sending \in Packets
    BY <1>2 DEF BetweenPackets, IInv, TypeOK
  <2>5. CASE sent < 2
    <3>1. sent' = sent + 1 /\ sent' \in 0 .. 2 /\ sending' = sending /\ ~mouse_packet_ready' /\ Level'
      BY <2>1, <2>3, <2>4, <2>5 DEF handle_mouse, Level
    <3>2. \A i \in 0 .. sent' - 1 : mouse_packet'[i] = sending'[i + 1]
      BY <2>3, <2>4, <3>1
    <3> QED
      BY <2>2, <3>1, <3>2 DEF Following, BetweenPackets
  <2>6. CASE sent = 2
    <3>1. /\ mouse_packet'[0] = sending[1] /\ mouse_packet'[1] = sending[2]
          /\ mouse_packet'[2] = sending[3]
      BY <2>3, <2>4, <2>6
    <3>2. sending = <<sending[1], sending[2], sending[3]>>
      BY <2>4, MouseAssumption
    <3>3. Packet' = sending
      BY <3>1, <3>2 DEF Packet
    <3>4. ~dropped' /\ ~torn' => /\ true_pos' = Moved(true_pos, sending)
                                /\ true_button' = ButtonOf(sending[1])
      BY <2>6 DEF handle_mouse
    <3>5. ~dropped' /\ ~torn' => Behind'
      BY <2>1, <2>4, <3>1, <3>3, <3>4 DEF Behind, Level
    <3>6. mouse_packet_ready' /\ sent' = 0
      BY <2>3, <2>6 DEF handle_mouse
    <3> QED
      BY <2>2, <3>5, <3>6 DEF Following, BetweenPackets
  <2> QED
    BY <2>4, <2>5, <2>6
<1> QED
  BY <1>1, <1>2

\* The steps of the main loop that do not move the pointer.
LEMMA StandingFollows ==
  ASSUME IInv, Intact, BetweenPackets, InsideProcess, StandingStep
  PROVE  BetweenPackets' /\ InsideProcess'
<1> USE DEF device, buffer, pointer, truth, Processing, Locations, Behind, Packet, Level
<1>1. CASE CheckReady
  BY <1>1 DEF CheckReady, BetweenPackets, InsideProcess
<1>2. CASE ReadSigns
  BY <1>2 DEF ReadSigns, BetweenPackets, InsideProcess
<1>3. CASE ReadButtons
  BY <1>3 DEF ReadButtons, BetweenPackets, InsideProcess
<1>4. CASE ClearReady
  BY <1>4 DEF ClearReady, BetweenPackets, InsideProcess
<1>5. CASE Draw
  BY <1>5 DEF Draw, BetweenPackets, InsideProcess
<1> QED
  BY <1>1, <1>2, <1>3, <1>4, <1>5 DEF StandingStep

\* The steps that move it: the motion still owed shrinks axis by axis.
LEMMA MotionFollows ==
  ASSUME Motions, IInv, Intact, BetweenPackets, InsideProcess,
         MoveX \/ MoveY \/ ClampPosition
  PROVE  BetweenPackets' /\ InsideProcess'
<1> USE DEF device, buffer, pointer, truth
<1>1. /\ mouse_packet \in [0 .. 2 -> Byte] /\ pos \in [x : Int, y : Int]
      /\ mouse_packet[1] \in Byte /\ mouse_packet[2] \in Byte
  BY DEF IInv, TypeOK
<1>2. Processing /\ sent = 0 /\ sent' = sent
  BY DEF Processing, Locations, MoveX, MoveY, ClampPosition, BetweenPackets
<1>3. Processing' /\ ~mouse_packet_ready /\ mouse_packet_ready' = mouse_packet_ready
  BY <1>2 DEF Processing, Locations, MoveX, MoveY, ClampPosition, BetweenPackets
<1>4. BetweenPackets'
  BY <1>2, <1>3 DEF BetweenPackets
<1>5. button_state' = button_state /\ true_button' = true_button /\ true_pos' = true_pos
  BY DEF MoveX, MoveY, ClampPosition
<1>6. ASSUME MoveX PROVE InsideProcess'
  <2>1. /\ pc = "x" /\ pc' = "y" /\ y_neg' = y_neg /\ Behind
        /\ x_neg = Bit(mouse_packet[0], 4) /\ y_neg = Bit(mouse_packet[0], 5)
    BY <1>6 DEF MoveX, InsideProcess
  <2>2. (x_neg => mouse_packet[1] # 0) /\ (y_neg => mouse_packet[2] # 0)
    BY <2>1 DEF Behind, Packet, Motions
  <2>3. /\ pos'.x = pos.x + Motion(mouse_packet[1], x_neg) /\ pos'.y = pos.y
        /\ mouse_packet'[2] = mouse_packet[2]
    <3>1. CASE x_neg
      <4>1. pos'.x = pos.x - Negated(mouse_packet[1]) /\ pos'.y = pos.y /\ mouse_packet'[2] = mouse_packet[2]
        BY <1>1, <1>6, <3>1 DEF MoveX
      <4>2. Negated(mouse_packet[1]) = 256 - mouse_packet[1]
        BY <1>1, <2>2, <3>1 DEF Negated, Byte
      <4>3. Motion(mouse_packet[1], x_neg) = mouse_packet[1] - 256
        BY <3>1 DEF Motion
      <4> QED
        BY <1>1, <4>1, <4>2, <4>3 DEF Byte
    <3>2. CASE ~x_neg
      BY <1>1, <1>6, <3>2 DEF MoveX, Motion
    <3> QED
      BY <3>1, <3>2
  <2>4. true_pos = [x |-> Clamp(pos'.x, Width),
                    y |-> Clamp(pos'.y - Motion(mouse_packet'[2], y_neg'), Height)]
    BY <2>1, <2>3 DEF Behind, Packet, Moved
  <2> QED
    BY <1>5, <1>6, <2>1, <2>2, <2>3, <2>4 DEF InsideProcess
<1>7. ASSUME MoveY PROVE InsideProcess'
  <2>1. /\ pc = "y" /\ pc' = "clamp" /\ button_state = true_button
        /\ true_pos = [x |-> Clamp(pos.x, Width),
                       y |-> Clamp(pos.y - Motion(mouse_packet[2], y_neg), Height)]
        /\ y_neg => mouse_packet[2] # 0
    BY <1>7 DEF MoveY, InsideProcess
  <2>2. pos'.y = pos.y - Motion(mouse_packet[2], y_neg) /\ pos'.x = pos.x
    <3>1. CASE y_neg
      <4>1. pos'.y = pos.y + Negated(mouse_packet[2]) /\ pos'.x = pos.x
        BY <1>1, <1>7, <3>1 DEF MoveY
      <4>2. Negated(mouse_packet[2]) = 256 - mouse_packet[2]
        BY <1>1, <2>1, <3>1 DEF Negated, Byte
      <4>3. Motion(mouse_packet[2], y_neg) = mouse_packet[2] - 256
        BY <3>1 DEF Motion
      <4> QED
        BY <1>1, <4>1, <4>2, <4>3 DEF Byte
    <3>2. CASE ~y_neg
      BY <1>1, <1>7, <3>2 DEF MoveY, Motion
    <3> QED
      BY <3>1, <3>2
  <2>3. true_pos = OnScreen(pos')
    BY <2>1, <2>2 DEF OnScreen
  <2> QED
    BY <1>5, <2>1, <2>3 DEF InsideProcess
<1>8. ASSUME ClampPosition PROVE InsideProcess'
  <2>1. pc' = "done" /\ pos' = OnScreen(pos) /\ true_pos = OnScreen(pos) /\ button_state = true_button
    BY <1>8 DEF ClampPosition, InsideProcess
  <2> QED
    BY <1>5, <2>1 DEF InsideProcess, Level
<1> QED
  BY <1>4, <1>6, <1>7, <1>8

\* Every step keeps the driver following the device.
LEMMA FollowingNext == Motions /\ IInv /\ Following /\ [Next]_vars => Following'
<1> SUFFICES ASSUME Motions, IInv, Following, [Next]_vars PROVE Following'
  OBVIOUS
<1>1. CASE ~Intact
  <2>1. CASE handle_mouse
    BY <1>1, <2>1 DEF Intact, handle_mouse, Following
  <2>2. CASE MainLoop
    BY <1>1, <2>2 DEF Intact, Following, MainLoop, CheckReady, ReadSigns, ReadButtons, MoveX,
      MoveY, ClampPosition, ClearReady, Draw, truth
  <2>3. CASE UNCHANGED vars
    BY <1>1, <2>3 DEF Intact, Following, vars, truth
  <2> QED
    BY <2>1, <2>2, <2>3 DEF Next
<1>2. CASE Intact
  <2>1. BetweenPackets /\ InsideProcess
    BY <1>2 DEF Intact, Following
  <2>2. CASE handle_mouse
    BY <1>2, <2>1, <2>2, ByteFollows
  <2>3. CASE MainLoop
    <3>1. BetweenPackets' /\ InsideProcess'
      BY <1>2, <2>1, <2>3, StandingFollows, MotionFollows DEF MainLoop, StandingStep
    <3> QED
      BY <3>1 DEF Following
  <2>4. CASE UNCHANGED vars
    BY <2>1, <2>4 DEF vars, device, buffer, pointer, truth, Following, BetweenPackets,
      InsideProcess, Processing, Level, Behind, Packet
  <2> QED
    BY <2>2, <2>3, <2>4 DEF Next
<1> QED
  BY <1>1, <1>2

\* Unless the device reports a motion of -256, which the code takes for 0, the
\* pointer and the button drawn are the device's own, for every screen, every
\* packet and every interleaving in which nothing was dropped or torn.
THEOREM PointerFollows ==
  ASSUME Motions
  PROVE  Spec => []PointerFollowsDevice
<1>1. IInv /\ Following => PointerFollowsDevice
  BY DEF Following, BetweenPackets, Level, PointerFollowsDevice
<1>2. Init => IInv /\ Following
  BY InvInit
<1>3. (IInv /\ Following) /\ [Next]_vars => (IInv /\ Following)'
  BY IInvNext, FollowingNext
<1> QED
  BY <1>1, <1>2, <1>3, PTL DEF Spec

-----------------------------------------------------------------------------
(* The shell canvas and the way of the cursor over it. *)

\* The last column a character is printed in, and the cells the cursor comes to.
LastColumn == (CanvasWidth - 16) \div 8
Cell == [x : 0 .. LastColumn, y : Nat]

Before(p, q) == p.y < q.y \/ (p.y = q.y /\ p.x < q.x)

\* The cells from b on, in the order they are printed in.
Path(b) ==
    CHOOSE f : f = [k \in 0 .. LineBound |-> IF k = 0 THEN b ELSE Advanced(f[k - 1])]

(***************************************************************************)
(* The inductive invariant.  It follows the line also while it is          *)
(* over-full and before the first command, when ScreenShowsLine claims     *)
(* nothing: backspaces lead back from there.  The prompt takes two cells,  *)
(* so nothing typed is ever drawn over it.                                 *)
(***************************************************************************)
LineInv ==
    /\ LineTypeOK
    /\ screen \in [cursor : Point, begin : Point, cells : [Point -> SUBSET Glyphs]]
    /\ screen.begin \in Cell /\ screen.begin.x = 2
    /\ \A k \in 0 .. current_line_index - 1 : current_line[k] \in Keys \cup {Space}
    /\ \A k \in current_line_index .. LineBound : k < MaxCharacters => current_line[k] = End
    /\ screen.cursor = CellAt[current_line_index]
    /\ \A k \in 0 .. current_line_index - 1 :
          ClearedWhole(CellAt[k]) => screen.cells[CellAt[k]] = {current_line[k]} \ {Space}
    /\ entered =>
          LET prompt == [x |-> 0, y |-> screen.begin.y]
          IN  ClearedWhole(prompt) => screen.cells[prompt] = {">"}

\* The least of some numbers.
LEMMA LeastNumber ==
  ASSUME NEW S \in SUBSET Nat, S # {}
  PROVE  \E m \in S : \A k \in S : m <= k
<1>1. PICK s \in S : TRUE
  OBVIOUS
<1> DEFINE Below == {k \in S : k <= s}
           T == {0 .. k : k \in Below}
           R == StrictSubsetOrdering(0 .. s)
<1>2. s \in Nat /\ s \in Below /\ \A k \in Below : k \in Nat /\ k <= s
  BY <1>1
<1>3. FiniteSubsetsOf(0 .. s) = SUBSET (0 .. s)
  <2>1. IsFiniteSet(0 .. s)
    BY <1>2, FS_Interval
  <2> QED
    BY <2>1, FS_FiniteSubsetsOfFinite
<1>4. IsWellFoundedOn(R, SUBSET (0 .. s))
  BY <1>3, FS_StrictSubsetOrderingWellFounded
<1>5. T \subseteq SUBSET (0 .. s) /\ T # {}
  BY <1>2
<1>6. PICK x \in T : \A y \in T : ~ (<<y, x>> \in R)
  BY <1>4, <1>5, WFMin
<1>7. PICK m \in Below : x = 0 .. m
  BY <1>6
<1>8. \A k \in Below : m <= k
  <2> SUFFICES ASSUME NEW k \in Below, k < m PROVE FALSE
    BY <1>2
  <2>1. <<0 .. k, 0 .. m>> \in R
    BY <1>2 DEF StrictSubsetOrdering
  <2> QED
    BY <1>6, <1>7, <2>1
<1>9. ASSUME NEW k \in S PROVE m <= k
  <2>1. m \in Nat /\ k \in Nat /\ m <= s
    BY <1>2, <1>7
  <2>2. CASE k <= s
    BY <1>8, <2>2
  <2>3. CASE ~ (k <= s)
    BY <1>2, <2>1, <2>3
  <2> QED
    BY <2>2, <2>3
<1>10. m \in S
  BY <1>7
<1> HIDE DEF Below, T, R
<1> QED
  BY <1>9, <1>10

\* Induction, for a set of numbers.
LEMMA AllNumbers ==
  ASSUME NEW P \in SUBSET Nat, 0 \in P, \A n \in P : n + 1 \in P
  PROVE  \A n \in Nat : n \in P
<1> SUFFICES ASSUME Nat \ P # {} PROVE FALSE
  OBVIOUS
<1>1. PICK m \in Nat \ P : \A k \in Nat \ P : m <= k
  <2>1. Nat \ P \in SUBSET Nat
    OBVIOUS
  <2> QED
    BY <2>1, LeastNumber
<1>2. m - 1 \in Nat /\ ~(m <= m - 1)
  BY <1>1
<1>3. m - 1 \in P
  BY <1>1, <1>2
<1> QED
  BY <1>1, <1>3

\* What the sizes say of the columns: the cursor leaves a row behind LastColumn, and
\* a cell that can be cleared can be drawn in.
LEMMA Layout ==
  /\ LastColumn \in Nat /\ LastColumn >= 3 /\ LastColumn <= CanvasWidth \div 8
  /\ \A x \in 0 .. LastColumn : (x + 1) * 8 + 16 > CanvasWidth <=> x = LastColumn
  /\ CanvasWidth % 8 \in {0, 1} => (CanvasWidth - 10) \div 8 = LastColumn
  /\ \A p \in Cell : ClearedWhole(p) => DrawnInPart(p)
<1>1. LastColumn \in Nat /\ LastColumn >= 3 /\ LastColumn <= CanvasWidth \div 8
  BY CommandLineAssumption DEF LastColumn
<1>2. \A x \in 0 .. LastColumn : (x + 1) * 8 + 16 > CanvasWidth <=> x = LastColumn
  BY CommandLineAssumption DEF LastColumn
<1>3. CanvasWidth % 8 \in {0, 1} => (CanvasWidth - 10) \div 8 = LastColumn
  BY CommandLineAssumption DEF LastColumn
<1>4. \A p \in Cell : ClearedWhole(p) => DrawnInPart(p)
  BY CommandLineAssumption, <1>1 DEF Cell, ClearedWhole, DrawnInPart
<1> QED
  BY <1>1, <1>2, <1>3, <1>4

\* One character on; and backspace finds the way back, where its margin is that of
\* cprint.
LEMMA OneOn ==
  ASSUME NEW p \in Cell
  PROVE  /\ Advanced(p) \in Cell /\ Before(p, Advanced(p))
         /\ Advanced(p) = IF p.x = LastColumn THEN [x |-> 0, y |-> p.y + 1]
                          ELSE [x |-> p.x + 1, y |-> p.y]
         /\ CanvasWidth % 8 \in {0, 1} => Back(Advanced(p)) = p
<1>1. p.x \in 0 .. LastColumn /\ p.y \in Nat /\ p = [x |-> p.x, y |-> p.y]
  BY DEF Cell
<1>2. Advanced(p) = IF p.x = LastColumn THEN [x |-> 0, y |-> p.y + 1]
                    ELSE [x |-> p.x + 1, y |-> p.y]
  <2>1. [p EXCEPT !.x = @ + 1] = [x |-> p.x + 1, y |-> p.y]
    BY <1>1
  <2> QED
    BY <1>1, <2>1, Layout DEF Advanced
<1>3. Advanced(p) \in Cell /\ Before(p, Advanced(p))
  BY <1>1, <1>2, Layout DEF Cell, Before
<1>4. ASSUME CanvasWidth % 8 \in {0, 1} PROVE Back(Advanced(p)) = p
  <2>1. CASE p.x = LastColumn
    BY <1>1, <1>2, <1>4, <2>1, Layout DEF Back
  <2>2. CASE p.x # LastColumn
    <3>1. Advanced(p) = [x |-> p.x + 1, y |-> p.y]
      BY <1>2, <2>2
    <3>2. [Advanced(p) EXCEPT !.x = @ - 1] = [x |-> p.x, y |-> p.y]
      BY <1>1, <3>1
    <3> QED
      BY <1>1, <3>1, <3>2 DEF Back
  <2> QED
    BY <2>1, <2>2
<1> QED
  BY <1>2, <1>3, <1>4

\* There is a path from every cell, and it goes on for ever.
LEMMA PathDefined ==
  ASSUME NEW b
  PROVE  Path(b) = [k \in 0 .. LineBound |-> IF k = 0 THEN b ELSE Advanced(Path(b)[k - 1])]
<1> DEFINE IsPath(f, n) == f = [k \in 0 .. n |-> IF k = 0 THEN b ELSE Advanced(f[k - 1])]
           Solved == {n \in Nat : \E f : IsPath(f, n)}
<1>1. 0 \in Solved
  <2> DEFINE f == [k \in 0 .. 0 |-> b]
  <2>1. \A k \in 0 .. 0 : k = 0
    OBVIOUS
  <2>2. IsPath(f, 0)
    BY <2>1
  <2> HIDE DEF IsPath
  <2> QED
    BY <2>2
<1>2. ASSUME NEW n \in Solved PROVE n + 1 \in Solved
  <2>1. n \in Nat
    OBVIOUS
  <2>2. PICK f : IsPath(f, n)
    OBVIOUS
  <2> DEFINE g == [k \in 0 .. n + 1 |-> IF k = n + 1 THEN Advanced(f[n]) ELSE f[k]]
  <2>3. ASSUME NEW k \in 0 .. n + 1
        PROVE  g[k] = IF k = 0 THEN b ELSE Advanced(g[k - 1])
    <3>1. CASE k = n + 1
      <4>1. g[k] = Advanced(f[n]) /\ k # 0 /\ k - 1 = n /\ n \in 0 .. n + 1 /\ n # n + 1
        BY <2>1, <3>1
      <4>2. g[n] = f[n]
        BY <4>1
      <4> QED
        BY <4>1, <4>2
    <3>2. CASE k # n + 1
      <4>1. k \in 0 .. n /\ g[k] = f[k]
        BY <2>1, <3>2
      <4>2. f[k] = IF k = 0 THEN b ELSE Advanced(f[k - 1])
        BY <2>2, <4>1
      <4>3. k # 0 => k - 1 \in 0 .. n + 1 /\ k - 1 # n + 1
        BY <2>1, <4>1
      <4>4. k # 0 => g[k - 1] = f[k - 1]
        BY <4>3
      <4> QED
        BY <4>1, <4>2, <4>4
    <3> QED
      BY <3>1, <3>2
  <2>4. IsPath(g, n + 1)
    <3> DEFINE h == [k \in 0 .. n + 1 |-> IF k = 0 THEN b ELSE Advanced(g[k - 1])]
    <3>1. \A k \in 0 .. n + 1 : g[k] = h[k]
      <4> HIDE DEF g
      <4> QED
        BY <2>3
    <3>2. g = [k \in 0 .. n + 1 |-> g[k]] /\ h = [k \in 0 .. n + 1 |-> h[k]]
      OBVIOUS
    <3>3. g = h
      <4> HIDE DEF g, h
      <4> QED
        BY <3>1, <3>2
    <3> HIDE DEF g
    <3> QED
      BY <3>3
  <2> HIDE DEF IsPath
  <2> QED
    BY <2>1, <2>4
<1>3. \E f : IsPath(f, LineBound)
  <2>1. LineBound \in Solved
    <3>1. Solved \in SUBSET Nat
      OBVIOUS
    <3> HIDE DEF Solved
    <3> QED
      BY <1>1, <1>2, <3>1, AllNumbers, CommandLineAssumption
  <2> HIDE DEF IsPath
  <2> QED
    BY <2>1
<1> QED
  BY <1>3 DEF Path

\* The cells of a path: one behind the other, and none twice.
LEMMA PathCells ==
  ASSUME NEW b \in Cell
  PROVE  /\ Path(b)[0] = b
         /\ \A k \in 0 .. LineBound : Path(b)[k] \in Cell
         /\ \A k \in 0 .. LineBound : k + 1 <= LineBound => Path(b)[k + 1] = Advanced(Path(b)[k])
         /\ \A k \in 0 .. LineBound : \A j \in 0 .. k - 1 : Before(Path(b)[j], Path(b)[k])
<1>1. PICK f : f = Path(b)
  OBVIOUS
<1>2. f = [k \in 0 .. LineBound |-> IF k = 0 THEN b ELSE Advanced(f[k - 1])]
  BY <1>1, PathDefined
<1>3. f[0] = b /\ \A k \in 0 .. LineBound : k + 1 <= LineBound => f[k + 1] = Advanced(f[k])
  <2>1. 0 \in 0 .. LineBound
    BY CommandLineAssumption
  <2>2. f[0] = b
    BY <1>2, <2>1
  <2>3. ASSUME NEW k \in 0 .. LineBound, k + 1 <= LineBound PROVE f[k + 1] = Advanced(f[k])
    <3>1. k + 1 \in 0 .. LineBound /\ k + 1 # 0 /\ (k + 1) - 1 = k
      BY <2>3, CommandLineAssumption
    <3> QED
      BY <1>2, <3>1
  <2> QED
    BY <2>2, <2>3
<1> DEFINE Fine == {n \in Nat : n <= LineBound =>
                      f[n] \in Cell /\ \A j \in 0 .. n - 1 : f[j] \in Cell /\ Before(f[j], f[n])}
<1>4. 0 \in Fine
  BY <1>3
<1>5. ASSUME NEW n \in Fine PROVE n + 1 \in Fine
  <2> SUFFICES ASSUME n + 1 <= LineBound
               PROVE  /\ f[n + 1] \in Cell
                      /\ \A j \in 0 .. (n + 1) - 1 : f[j] \in Cell /\ Before(f[j], f[n + 1])
    OBVIOUS
  <2>1. n \in Nat /\ n \in 0 .. LineBound /\ f[n] \in Cell
    BY CommandLineAssumption
  <2>2. f[n + 1] = Advanced(f[n])
    BY <1>3, <2>1
  <2>3. f[n + 1] \in Cell /\ Before(f[n], f[n + 1])
    BY <2>1, <2>2, OneOn
  <2>4. ASSUME NEW j \in 0 .. n - 1 PROVE f[j] \in Cell /\ Before(f[j], f[n + 1])
    <3>1. f[j] \in Cell /\ Before(f[j], f[n])
      BY <2>1
    <3> QED
      BY <2>1, <2>3, <3>1 DEF Before, Cell
  <2>5. \A j \in 0 .. (n + 1) - 1 : j = n \/ j \in 0 .. n - 1
    BY <2>1
  <2> QED
    BY <2>1, <2>3, <2>4, <2>5
<1>6. \A n \in Nat : n \in Fine
  <2>1. Fine \in SUBSET Nat
    OBVIOUS
  <2> HIDE DEF Fine
  <2> QED
    BY <1>4, <1>5, <2>1, AllNumbers
<1>7. \A k \in 0 .. LineBound : f[k] \in Cell /\ \A j \in 0 .. k - 1 : Before(f[j], f[k])
  BY <1>6, CommandLineAssumption
<1> QED
  BY <1>1, <1>3, <1>7
-----------------------------------------------------------------------------
(* Printing. *)

\* The screens on which anything may be printed, the bytes behind the line included.
Ink == Glyphs \cup {Space, End, Pointer, NewLine}
Drawings(X) == [Point -> SUBSET X]
Places == [x : Nat, y : Nat]
Screens == [cursor : Cell, begin : Places, cells : Drawings(Ink)]

\* t is what printing makes of s: nothing is drawn below the cursor.
PrintsOn(s, t) ==
    /\ t \in Screens /\ t.cursor.y >= s.cursor.y
    /\ \A p \in Point : p.y > t.cursor.y => t.cells[p] = s.cells[p]

\* A cell of a row of the model is a cell of the screen.
LEMMA CellOnScreen == ASSUME NEW p \in Cell, p.y <= RowBound PROVE p \in Point
<1>1. p.x \in 0 .. LastColumn /\ p.y \in Nat /\ p = [x |-> p.x, y |-> p.y]
  BY DEF Cell
<1>2. p.x \in Columns /\ p.y \in Rows
  BY <1>1, Layout, CommandLineAssumption DEF Columns, Rows
<1> QED
  BY <1>1, <1>2 DEF Point

\* Clearing a cell leaves the others.
LEMMA CellCleared ==
  ASSUME NEW X, NEW cells \in Drawings(X), NEW p
  PROVE  /\ Rect(cells, p) \in Drawings(X)
         /\ \A q \in Point : q # p => Rect(cells, p)[q] = cells[q]
  BY DEF Rect, Drawings

\* What a character does to the cells: nothing but to its own.
LEMMA CharacterDrawn ==
  ASSUME NEW X, NEW cells \in Drawings(X), NEW p, NEW c \in X \cup {Space}
  PROVE  /\ Rect(cells, p) \in Drawings(X)
         /\ Glyph(Rect(cells, p), p, c) \in Drawings(X)
         /\ \A q \in Point : q # p =>
               Rect(cells, p)[q] = cells[q] /\ Glyph(Rect(cells, p), p, c)[q] = cells[q]
         /\ \A q \in Point : Glyph(Rect(cells, p), p, c)[q] \subseteq cells[q] \cup ({c} \ {Space})
         /\ p \in Point /\ ClearedWhole(p) => Rect(cells, p)[p] = {}
         /\ p \in Point /\ p \in Cell /\ ClearedWhole(p) =>
               Glyph(Rect(cells, p), p, c)[p] = {c} \ {Space}
<1> DEFINE r == Rect(cells, p)
           g == Glyph(r, p, c)
<1>1. r \in Drawings(X) /\ (\A q \in Point : q # p => r[q] = cells[q])
  BY DEF Rect, Drawings
<1>2. p \in Point /\ ClearedWhole(p) => r[p] = {}
  BY DEF Rect, Drawings
<1>3. \A q \in Point : r[q] \subseteq cells[q]
  BY DEF Rect, Drawings
<1> HIDE DEF r
<1>4. \A q \in Point : g[q] \subseteq r[q] \cup ({c} \ {Space})
  BY <1>1 DEF Glyph, Drawings
<1>5. g \in Drawings(X) /\ (\A q \in Point : q # p => g[q] = r[q])
  BY <1>1 DEF Glyph, Drawings
<1>6. ASSUME p \in Point, p \in Cell, ClearedWhole(p) PROVE g[p] = {c} \ {Space}
  <2>1. DrawnInPart(p) /\ r[p] = {}
    BY <1>2, <1>6, Layout
  <2>2. CASE c = Space
    BY <2>1, <2>2 DEF Glyph
  <2>3. CASE c # Space
    <3>1. g = [r EXCEPT ![p] = @ \cup {c}]
      BY <2>1, <2>3 DEF Glyph
    <3>2. g[p] = r[p] \cup {c}
      BY <1>1, <1>6, <3>1 DEF Drawings
    <3> QED
      BY <2>1, <2>3, <3>2
  <2> QED
    BY <2>2, <2>3
<1> HIDE DEF g
<1>7. \A q \in Point : g[q] \subseteq cells[q] \cup ({c} \ {Space})
  BY <1>3, <1>4
<1>8. \A q \in Point : q # p => r[q] = cells[q] /\ g[q] = cells[q]
  BY <1>1, <1>5
<1>9. g = Glyph(Rect(cells, p), p, c) /\ r = Rect(cells, p)
  BY DEF g, r
<1> QED
  BY <1>1, <1>2, <1>5, <1>6, <1>8, <1>9, <1>7

\* A newline.
LEMMA NewLinePrinted ==
  ASSUME NEW s \in Screens
  PROVE  /\ PrintsOn(s, Printed(s, NewLine))
         /\ Printed(s, NewLine).cursor = [x |-> 0, y |-> s.cursor.y + 1]
         /\ Printed(s, NewLine).cells = s.cells
<1>1. PICK a \in Cell, b \in Places, c \in Drawings(Ink) :
         s = [cursor |-> a, begin |-> b, cells |-> c]
  BY DEF Screens
<1>2. Printed(s, NewLine) = [cursor |-> [x |-> 0, y |-> a.y + 1],
                             begin |-> [b EXCEPT !.y = @ + 1], cells |-> c]
  BY <1>1 DEF Printed
<1>3. a.y \in Nat /\ [x |-> 0, y |-> a.y + 1] \in Cell /\ [b EXCEPT !.y = @ + 1] \in Places
  BY Layout DEF Cell, Places
<1> QED
  BY <1>1, <1>2, <1>3 DEF PrintsOn, Screens

\* Any other character.
LEMMA CharacterPrinted ==
  ASSUME NEW s \in Screens, NEW c \in Ink \ {NewLine}
  PROVE  /\ PrintsOn(s, Printed(s, c))
         /\ Printed(s, c) = [cursor |-> Advanced(s.cursor), begin |-> s.begin,
                             cells |-> Glyph(Rect(s.cells, s.cursor), s.cursor, c)]
<1>1. PICK a \in Cell, b \in Places, d \in Drawings(Ink) :
         s = [cursor |-> a, begin |-> b, cells |-> d]
  BY DEF Screens
<1>2. Printed(s, c) = [cursor |-> Advanced(a), begin |-> b, cells |-> Glyph(Rect(d, a), a, c)]
  BY <1>1 DEF Printed
<1>3. Advanced(a) \in Cell /\ Before(a, Advanced(a))
  BY OneOn
<1>4. a.y \in Nat /\ Advanced(a).y \in Nat /\ Advanced(a).y >= a.y
  BY <1>3 DEF Cell, Before
<1>5. \A p \in Point : p.y > Advanced(a).y => p # a
  BY <1>4 DEF Point, Rows
<1>6. /\ Glyph(Rect(d, a), a, c) \in Drawings(Ink)
      /\ \A q \in Point : q # a => Glyph(Rect(d, a), a, c)[q] = d[q]
  <2>1. c \in Ink \cup {Space}
    OBVIOUS
  <2> QED
    BY <2>1, CharacterDrawn
<1> QED
  BY <1>1, <1>2, <1>3, <1>4, <1>5, <1>6 DEF PrintsOn, Screens

\* Printing goes on from what was printed.
LEMMA PrintsOnAndOn ==
  ASSUME NEW s \in Screens, NEW t, NEW u, PrintsOn(s, t), PrintsOn(t, u)
  PROVE  PrintsOn(s, u)
<1>1. s.cursor.y \in Nat /\ t.cursor.y \in Nat /\ u.cursor.y \in Nat
  BY DEF PrintsOn, Screens, Cell
<1>2. \A p \in Point : p.y \in Int
  BY DEF Point, Rows
<1> QED
  BY <1>1, <1>2 DEF PrintsOn

LEMMA MaxTop ==
  ASSUME NEW m \in Nat, NEW S \in SUBSET (1 .. m), m \in S
  PROVE  Max(S) = m
<1>1. \A x \in S : (\A y \in S : x >= y) <=> x = m
  <2> SUFFICES ASSUME NEW x \in S PROVE (\A y \in S : x >= y) <=> x = m
    OBVIOUS
  <2>1. x \in 1 .. m /\ \A y \in S : y \in 1 .. m
    OBVIOUS
  <2> QED
    BY <2>1
<1> QED
  BY <1>1 DEF Max

\* print, character by character.
LEMMA PrintTurns ==
  ASSUME NEW s, NEW text \in Seq(Ink), NEW k \in Nat, Len(text) = k
  PROVE  \E A : /\ A[0] = s
                /\ \A j \in 1 .. k : A[j] = Printed(A[j - 1], text[j])
                /\ PrintedAll(s, text) = A[k]
<1> DEFINE Turn(f, S) == Printed(f[S \ {Max(S)}], text[Max(S)])
           Solves(f, m) == f = [S \in SUBSET (1 .. m) |-> IF S = {} THEN s ELSE Turn(f, S)]
           Unsolved == {m \in Nat : m <= k /\ \A f : ~Solves(f, m)}
<1>0. DOMAIN text = 1 .. k
  OBVIOUS
<1>1. Unsolved = {}
  <2> SUFFICES ASSUME Unsolved # {} PROVE FALSE
    OBVIOUS
  <2>1. PICK m \in Unsolved : \A j \in Unsolved : m <= j
    <3>1. Unsolved \in SUBSET Nat
      OBVIOUS
    <3> HIDE DEF Unsolved
    <3> QED
      BY <3>1, LeastNumber
  <2>2. m \in Nat /\ m <= k /\ \A f : ~Solves(f, m)
    OBVIOUS
  <2>3. CASE m = 0
    <3> DEFINE f == [S \in SUBSET (1 .. 0) |-> s]
    <3>1. \A S \in SUBSET (1 .. 0) : S = {}
      OBVIOUS
    <3>2. Solves(f, 0)
      <4> HIDE DEF Turn
      <4> QED
        BY <3>1
    <3> QED
      BY <2>2, <2>3, <3>2
  <2>4. CASE m # 0
    <3>1. m - 1 \in Nat /\ m - 1 \notin Unsolved /\ m - 1 <= k
      <4>1. m - 1 \in Nat /\ ~(m <= m - 1) /\ m - 1 <= k
        BY <2>2, <2>4
      <4> HIDE DEF Unsolved
      <4> QED
        BY <2>1, <4>1
    <3>2. PICK f : Solves(f, m - 1)
      BY <3>1
    <3> DEFINE g == [S \in SUBSET (1 .. m) |->
                       IF m \in S THEN Turn(f, S) ELSE f[S]]
    <3>3. ASSUME NEW S \in SUBSET (1 .. m)
          PROVE  g[S] = IF S = {} THEN s ELSE Turn(g, S)
      <4>1. CASE m \in S
        <5>1. Max(S) = m
          BY <2>2, <4>1, MaxTop
        <5>2. S \ {m} \in SUBSET (1 .. m) /\ m \notin S \ {m} /\ S # {}
          BY <4>1
        <5>3. g[S \ {Max(S)}] = f[S \ {Max(S)}]
          BY <5>1, <5>2
        <5> QED
          BY <4>1, <5>2, <5>3
      <4>2. CASE m \notin S
        <5>1. S \in SUBSET (1 .. m - 1)
          BY <2>2, <4>2
        <5>2. f[S] = IF S = {} THEN s ELSE Turn(f, S)
          <6> HIDE DEF Turn
          <6> QED
            BY <3>2, <5>1
        <5>3. S \ {Max(S)} \in SUBSET (1 .. m) /\ m \notin S \ {Max(S)}
          BY <4>2
        <5>4. g[S] = f[S] /\ g[S \ {Max(S)}] = f[S \ {Max(S)}]
          BY <4>2, <5>3
        <5> QED
          BY <5>2, <5>4
      <4> QED
        BY <4>1, <4>2
    <3>4. Solves(g, m)
      <4> DEFINE h == [S \in SUBSET (1 .. m) |-> IF S = {} THEN s ELSE Turn(g, S)]
      <4>1. \A S \in SUBSET (1 .. m) : g[S] = h[S]
        <5> HIDE DEF Turn, g
        <5> QED
          BY <3>3
      <4>2. g = h
        <5> HIDE DEF Turn
        <5>1. g = [S \in SUBSET (1 .. m) |-> g[S]] /\ h = [S \in SUBSET (1 .. m) |-> h[S]]
          OBVIOUS
        <5> HIDE DEF g, h
        <5> QED
          BY <4>1, <5>1
      <4> QED
        BY <4>2
    <3> HIDE DEF Solves
    <3> QED
      BY <2>2, <3>4
  <2> QED
    BY <2>3, <2>4
<1>2. \E f : Solves(f, k)
  <2>1. k \notin Unsolved
    <3> HIDE DEF Unsolved
    <3> QED
      BY <1>1
  <2> HIDE DEF Solves
  <2> QED
    BY <2>1
<1> DEFINE It == CHOOSE f : Solves(f, k)
<1>3. Solves(It, k)
  <2> HIDE DEF Solves
  <2> QED
    BY <1>2
<1>4. PrintedAll(s, text) = It[1 .. k]
  <2> DEFINE At == CHOOSE f : f = [S \in SUBSET DOMAIN text |-> IF S = {} THEN s ELSE Turn(f, S)]
  <2>2. PrintedAll(s, text) = At[DOMAIN text]
    BY DEF PrintedAll, FoldLeft, MapThenFoldSet
  <2>3. At = It
    <3> HIDE DEF Turn
    <3> QED
      BY <1>0
  <2> HIDE DEF At, It
  <2> QED
    BY <1>0, <2>2, <2>3
<1> HIDE DEF It
<1>5. \A S \in SUBSET (1 .. k) : It[S] = IF S = {} THEN s ELSE Turn(It, S)
  <2> HIDE DEF Turn
  <2> QED
    BY <1>3
<1> DEFINE A == [j \in 0 .. k |-> It[1 .. j]]
<1>6. A[0] = s /\ A[k] = It[1 .. k]
  <2>1. 1 .. 0 = {} /\ 1 .. 0 \in SUBSET (1 .. k) /\ 0 \in 0 .. k /\ k \in 0 .. k
    OBVIOUS
  <2> HIDE DEF Turn
  <2> QED
    BY <1>5, <2>1
<1>7. ASSUME NEW j \in 1 .. k
      PROVE  A[j] = Printed(A[j - 1], text[j])
  <2>1. /\ 1 .. j \in SUBSET (1 .. k) /\ j \in Nat /\ j \in 1 .. j /\ j \in 0 .. k
        /\ j - 1 \in 0 .. k /\ (1 .. j) \ {j} = 1 .. j - 1
    OBVIOUS
  <2>2. Max(1 .. j) = j
    BY <2>1, MaxTop
  <2>3. It[1 .. j] = Turn(It, 1 .. j)
    <3> HIDE DEF Turn
    <3>1. 1 .. j # {}
      BY <2>1
    <3> QED
      BY <1>5, <2>1, <3>1
  <2>4. Turn(It, 1 .. j) = Printed(It[1 .. j - 1], text[j])
    BY <2>1, <2>2, Zenon
  <2> QED
    BY <2>1, <2>3, <2>4
<1> HIDE DEF A
<1> QED
  BY <1>4, <1>6, <1>7

\* print draws nothing below the cursor either.
LEMMA TextPrinted ==
  ASSUME NEW s \in Screens, NEW text \in Seq(Ink)
  PROVE  PrintsOn(s, PrintedAll(s, text))
<1>1. PICK k \in Nat : k = Len(text) /\ DOMAIN text = 1 .. k /\ \A j \in 1 .. k : text[j] \in Ink
  OBVIOUS
<1>2. PICK A : /\ A[0] = s
               /\ \A j \in 1 .. k : A[j] = Printed(A[j - 1], text[j])
               /\ PrintedAll(s, text) = A[k]
  BY <1>1, PrintTurns
<1> DEFINE Done == {n \in Nat : n <= k => PrintsOn(s, A[n])}
<1>3. 0 \in Done
  <2>1. s.cursor.y \in Nat
    BY DEF Screens, Cell
  <2>2. PrintsOn(s, s)
    BY <2>1 DEF PrintsOn
  <2> QED
    BY <1>2, <2>2
<1>4. ASSUME NEW n \in Done PROVE n + 1 \in Done
  <2> SUFFICES ASSUME n + 1 <= k PROVE PrintsOn(s, A[n + 1])
    OBVIOUS
  <2>1. n \in Nat /\ n + 1 \in 1 .. k /\ (n + 1) - 1 = n /\ PrintsOn(s, A[n])
    BY <1>1
  <2>2. A[n] \in Screens
    BY <2>1 DEF PrintsOn
  <2>3. A[n + 1] = Printed(A[n], text[n + 1]) /\ text[n + 1] \in Ink
    BY <1>1, <1>2, <2>1
  <2>4. PrintsOn(A[n], Printed(A[n], text[n + 1]))
    BY <2>2, <2>3, NewLinePrinted, CharacterPrinted
  <2> QED
    BY <2>1, <2>3, <2>4, PrintsOnAndOn
<1>5. \A n \in Nat : n \in Done
  <2>1. Done \in SUBSET Nat
    OBVIOUS
  <2> HIDE DEF Done
  <2> QED
    BY <1>3, <1>4, <2>1, AllNumbers
<1> QED
  BY <1>1, <1>2, <1>5

-----------------------------------------------------------------------------
(* Commands. *)

\* What the i-th character does to the words of a text.
Grown(words, text, i) ==
    IF text[i] = Space THEN words
    ELSE IF i = 1 \/ text[i - 1] = Space THEN Append(words, <<text[i]>>)
    ELSE [words EXCEPT ![Len(words)] = Append(@, text[i])]

\* The words of a text, character by character.
LEMMA WordTurns ==
  ASSUME NEW text, NEW k \in Nat, Len(text) = k
  PROVE  \E A : /\ A[0] = <<>>
                /\ \A j \in 1 .. k : A[j] = Grown(A[j - 1], text, j)
                /\ Words(text) = A[k]
<1> DEFINE seq == [i \in 1 .. k |-> i]
           Turn(f, S) == Grown(f[S \ {Max(S)}], text, seq[Max(S)])
           Solves(f, m) == f = [S \in SUBSET (1 .. m) |-> IF S = {} THEN <<>> ELSE Turn(f, S)]
           Unsolved == {m \in Nat : m <= k /\ \A f : ~Solves(f, m)}
<1>1. Unsolved = {}
  <2> SUFFICES ASSUME Unsolved # {} PROVE FALSE
    OBVIOUS
  <2>1. PICK m \in Unsolved : \A j \in Unsolved : m <= j
    <3>1. Unsolved \in SUBSET Nat
      OBVIOUS
    <3> HIDE DEF Unsolved
    <3> QED
      BY <3>1, LeastNumber
  <2>2. m \in Nat /\ m <= k /\ \A f : ~Solves(f, m)
    OBVIOUS
  <2>3. CASE m = 0
    <3> DEFINE f == [S \in SUBSET (1 .. 0) |-> <<>>]
    <3>1. \A S \in SUBSET (1 .. 0) : S = {}
      OBVIOUS
    <3>2. Solves(f, 0)
      <4> HIDE DEF Turn
      <4> QED
        BY <3>1
    <3> QED
      BY <2>2, <2>3, <3>2
  <2>4. CASE m # 0
    <3>1. m - 1 \in Nat /\ m - 1 \notin Unsolved /\ m - 1 <= k
      <4>1. m - 1 \in Nat /\ ~(m <= m - 1) /\ m - 1 <= k
        BY <2>2, <2>4
      <4> HIDE DEF Unsolved
      <4> QED
        BY <2>1, <4>1
    <3>2. PICK f : Solves(f, m - 1)
      BY <3>1
    <3> DEFINE g == [S \in SUBSET (1 .. m) |->
                       IF m \in S THEN Turn(f, S) ELSE f[S]]
    <3>3. ASSUME NEW S \in SUBSET (1 .. m)
          PROVE  g[S] = IF S = {} THEN <<>> ELSE Turn(g, S)
      <4>1. CASE m \in S
        <5>1. Max(S) = m
          BY <2>2, <4>1, MaxTop
        <5>2. S \ {m} \in SUBSET (1 .. m) /\ m \notin S \ {m} /\ S # {}
          BY <4>1
        <5>3. g[S \ {Max(S)}] = f[S \ {Max(S)}]
          BY <5>1, <5>2
        <5> QED
          BY <4>1, <5>2, <5>3
      <4>2. CASE m \notin S
        <5>1. S \in SUBSET (1 .. m - 1)
          BY <2>2, <4>2
        <5>2. f[S] = IF S = {} THEN <<>> ELSE Turn(f, S)
          <6> HIDE DEF Turn
          <6> QED
            BY <3>2, <5>1
        <5>3. S \ {Max(S)} \in SUBSET (1 .. m) /\ m \notin S \ {Max(S)}
          BY <4>2
        <5>4. g[S] = f[S] /\ g[S \ {Max(S)}] = f[S \ {Max(S)}]
          BY <4>2, <5>3
        <5> QED
          BY <5>2, <5>4
      <4> QED
        BY <4>1, <4>2
    <3>4. Solves(g, m)
      <4> DEFINE h == [S \in SUBSET (1 .. m) |-> IF S = {} THEN <<>> ELSE Turn(g, S)]
      <4>1. \A S \in SUBSET (1 .. m) : g[S] = h[S]
        <5> HIDE DEF Turn, g
        <5> QED
          BY <3>3
      <4>2. g = h
        <5> HIDE DEF Turn
        <5>1. g = [S \in SUBSET (1 .. m) |-> g[S]] /\ h = [S \in SUBSET (1 .. m) |-> h[S]]
          OBVIOUS
        <5> HIDE DEF g, h
        <5> QED
          BY <4>1, <5>1
      <4> QED
        BY <4>2
    <3> HIDE DEF Solves
    <3> QED
      BY <2>2, <3>4
  <2> QED
    BY <2>3, <2>4
<1>2. \E f : Solves(f, k)
  <2>1. k \notin Unsolved
    <3> HIDE DEF Unsolved
    <3> QED
      BY <1>1
  <2> HIDE DEF Solves
  <2> QED
    BY <2>1
<1> DEFINE It == CHOOSE f : Solves(f, k)
<1>3. Solves(It, k)
  <2> HIDE DEF Solves
  <2> QED
    BY <1>2
<1>4. Words(text) = It[1 .. k]
  <2>1. DOMAIN seq = 1 .. k
    OBVIOUS
  <2> DEFINE At == CHOOSE f : f = [S \in SUBSET DOMAIN seq |-> IF S = {} THEN <<>> ELSE Turn(f, S)]
  <2>2. Words(text) = At[DOMAIN seq]
    BY DEF Words, Grown, FoldLeft, MapThenFoldSet
  <2>3. At = It
    <3> HIDE DEF seq, Turn
    <3> QED
      BY <2>1
  <2> HIDE DEF At, It
  <2> QED
    BY <2>1, <2>2, <2>3
<1> HIDE DEF It
<1>5. \A S \in SUBSET (1 .. k) : It[S] = IF S = {} THEN <<>> ELSE Turn(It, S)
  <2> HIDE DEF Turn
  <2> QED
    BY <1>3
<1> DEFINE A == [j \in 0 .. k |-> It[1 .. j]]
<1>6. A[0] = <<>> /\ A[k] = It[1 .. k]
  <2>1. 1 .. 0 = {} /\ 1 .. 0 \in SUBSET (1 .. k) /\ 0 \in 0 .. k /\ k \in 0 .. k
    OBVIOUS
  <2> HIDE DEF Turn
  <2> QED
    BY <1>5, <2>1
<1>7. ASSUME NEW j \in 1 .. k
      PROVE  A[j] = Grown(A[j - 1], text, j)
  <2>1. /\ 1 .. j \in SUBSET (1 .. k) /\ j \in Nat /\ j \in 1 .. j /\ j \in 0 .. k
        /\ j - 1 \in 0 .. k /\ (1 .. j) \ {j} = 1 .. j - 1
    OBVIOUS
  <2>2. Max(1 .. j) = j
    BY <2>1, MaxTop
  <2>3. It[1 .. j] = Turn(It, 1 .. j)
    <3> HIDE DEF Turn
    <3>1. 1 .. j # {}
      BY <2>1
    <3> QED
      BY <1>5, <2>1, <3>1
  <2>4. seq[j] = j
    OBVIOUS
  <2>5. Turn(It, 1 .. j) = Grown(It[1 .. j - 1], text, j)
    BY <2>1, <2>2, <2>4, Zenon
  <2> QED
    BY <2>1, <2>3, <2>5
<1> HIDE DEF A
<1> QED
  BY <1>4, <1>6, <1>7

\* The bytes of a line; a text of them has words of them.
Bytes == Keys \cup {Space, End, Pointer}

LEMMA GrownWords ==
  ASSUME NEW words \in Seq(Seq(Bytes)), NEW text, NEW i, text[i] \in Bytes
  PROVE  Grown(words, text, i) \in Seq(Seq(Bytes))
<1>1. PICK c \in Bytes : c = text[i]
  OBVIOUS
<1>2. <<c>> \in Seq(Bytes)
  OBVIOUS
<1>3. Append(words, <<c>>) \in Seq(Seq(Bytes))
  BY <1>2
<1>4. [words EXCEPT ![Len(words)] = Append(@, c)] \in Seq(Seq(Bytes))
  <2>1. PICK n \in Nat : n = Len(words) /\ DOMAIN words = 1 .. n
    OBVIOUS
  <2> DEFINE w == [words EXCEPT ![n] = Append(@, c)]
  <2>2. DOMAIN w = 1 .. n
    BY <2>1
  <2>3. ASSUME NEW j \in 1 .. n PROVE w[j] \in Seq(Bytes)
    <3>1. words[j] \in Seq(Bytes)
      BY <2>1
    <3>2. Append(words[j], c) \in Seq(Bytes)
      BY <3>1
    <3> QED
      BY <2>1, <3>1, <3>2
  <2>4. w = [j \in 1 .. n |-> w[j]]
    BY <2>1
  <2>5. w \in [1 .. n -> Seq(Bytes)]
    <3> HIDE DEF w
    <3> QED
      BY <2>3, <2>4
  <2> HIDE DEF w
  <2>6. w \in Seq(Seq(Bytes))
    BY <2>5
  <2> QED
    BY <2>1, <2>6 DEF w
<1> QED
  BY <1>1, <1>3, <1>4 DEF Grown

LEMMA WordsOfBytes ==
  ASSUME NEW text \in Seq(Bytes)
  PROVE  Words(text) \in Seq(Seq(Bytes))
<1>1. PICK k \in Nat : k = Len(text) /\ \A j \in 1 .. k : text[j] \in Bytes
  OBVIOUS
<1>2. PICK A : /\ A[0] = <<>>
               /\ \A j \in 1 .. k : A[j] = Grown(A[j - 1], text, j)
               /\ Words(text) = A[k]
  BY <1>1, WordTurns
<1> DEFINE Done == {n \in Nat : n <= k => A[n] \in Seq(Seq(Bytes))}
<1>3. 0 \in Done
  <2>1. <<>> \in Seq(Seq(Bytes))
    OBVIOUS
  <2> QED
    BY <1>2, <2>1
<1>4. ASSUME NEW n \in Done PROVE n + 1 \in Done
  <2> SUFFICES ASSUME n + 1 <= k PROVE A[n + 1] \in Seq(Seq(Bytes))
    OBVIOUS
  <2>1. n \in Nat /\ n + 1 \in 1 .. k /\ (n + 1) - 1 = n /\ A[n] \in Seq(Seq(Bytes))
    BY <1>1
  <2> QED
    BY <1>1, <1>2, <2>1, GrownWords
<1>5. \A n \in Nat : n \in Done
  <2>1. Done \in SUBSET Nat
    OBVIOUS
  <2> HIDE DEF Done
  <2> QED
    BY <1>3, <1>4, <2>1, AllNumbers
<1> QED
  BY <1>1, <1>2, <1>5

\* FlattenSeq makes one text of several.
LEMMA FlatText ==
  ASSUME NEW C, NEW seqs \in Seq(Seq(C))
  PROVE  FlattenSeq(seqs) \in Seq(C)
<1>1. PICK n \in Nat : n = Len(seqs) /\ \A j \in 1 .. n : seqs[j] \in Seq(C)
  OBVIOUS
<1>2. CASE n = 0
  <2>1. seqs = <<>>
    BY <1>1, <1>2, EmptySeq
  <2>2. FlattenSeq(seqs) = <<>>
    BY <2>1, <1>1, <1>2 DEF FlattenSeq
  <2> QED
    BY <2>2
<1>3. CASE n # 0
  <2> DEFINE Flat(f, m) == f = [i \in 1 .. m |-> IF i = 1 THEN seqs[i] ELSE f[i - 1] \o seqs[i]]
             Solved == {m \in Nat : \E f : Flat(f, m)}
  <2>1. 0 \in Solved
    <3> DEFINE f == [i \in 1 .. 0 |-> seqs[i]]
    <3>1. 1 .. 0 = {}
      OBVIOUS
    <3>2. Flat(f, 0)
      BY <3>1
    <3> HIDE DEF Flat
    <3> QED
      BY <3>2
  <2>2. ASSUME NEW m \in Solved PROVE m + 1 \in Solved
    <3>1. m \in Nat
      OBVIOUS
    <3>2. PICK f : Flat(f, m)
      OBVIOUS
    <3> DEFINE g == [i \in 1 .. m + 1 |->
                       IF i = m + 1 THEN IF i = 1 THEN seqs[i] ELSE f[m] \o seqs[i] ELSE f[i]]
               h == [i \in 1 .. m + 1 |-> IF i = 1 THEN seqs[i] ELSE g[i - 1] \o seqs[i]]
    <3>3. ASSUME NEW i \in 1 .. m + 1 PROVE g[i] = h[i]
      <4>1. i # 1 => i - 1 \in 1 .. m /\ i - 1 # m + 1 /\ i - 1 \in 1 .. m + 1
        BY <3>1
      <4>2. i # 1 => g[i - 1] = f[i - 1]
        BY <4>1
      <4>3. CASE i = m + 1
        <5>1. i - 1 = m
          BY <3>1, <4>3
        <5> QED
          BY <4>2, <4>3, <5>1
      <4>4. CASE i # m + 1
        <5>1. i \in 1 .. m /\ g[i] = f[i]
          BY <3>1, <4>4
        <5>2. f[i] = IF i = 1 THEN seqs[i] ELSE f[i - 1] \o seqs[i]
          BY <3>2, <5>1
        <5> QED
          BY <4>2, <5>1, <5>2
      <4> QED
        BY <4>3, <4>4
    <3>4. g = [i \in 1 .. m + 1 |-> g[i]] /\ h = [i \in 1 .. m + 1 |-> h[i]]
      OBVIOUS
    <3>5. g = h
      <4> HIDE DEF g, h
      <4> QED
        BY <3>3, <3>4
    <3>6. Flat(g, m + 1)
      <4> HIDE DEF g
      <4> QED
        BY <3>5
    <3> HIDE DEF Flat
    <3> QED
      BY <3>1, <3>6
  <2>3. \E f : Flat(f, n)
    <3>1. Solved \in SUBSET Nat
      OBVIOUS
    <3>2. n \in Solved
      <4> HIDE DEF Solved
      <4> QED
        BY <2>1, <2>2, <3>1, AllNumbers
    <3> HIDE DEF Flat
    <3> QED
      BY <3>2
  <2> DEFINE F == CHOOSE f : f = [i \in 1 .. n |-> IF i = 1 THEN seqs[i] ELSE f[i - 1] \o seqs[i]]
  <2>4. Flat(F, n)
    BY <2>3
  <2>5. FlattenSeq(seqs) = F[n]
    <3>1. Len(seqs) = n
      BY <1>1
    <3> QED
      BY <1>3, <3>1 DEF FlattenSeq
  <2> HIDE DEF F
  <2>6. \A i \in 1 .. n : F[i] = IF i = 1 THEN seqs[i] ELSE F[i - 1] \o seqs[i]
    BY <2>4
  <2> DEFINE Done == {m \in Nat : m + 1 <= n => F[m + 1] \in Seq(C)}
  <2>7. 0 \in Done
    BY <1>1, <2>6
  <2>8. ASSUME NEW m \in Done PROVE m + 1 \in Done
    <3> SUFFICES ASSUME (m + 1) + 1 <= n PROVE F[(m + 1) + 1] \in Seq(C)
      OBVIOUS
    <3>1. PICK i \in 1 .. n : i = (m + 1) + 1 /\ i # 1 /\ i - 1 = m + 1 /\ F[m + 1] \in Seq(C)
      OBVIOUS
    <3>2. F[i] = F[i - 1] \o seqs[i]
      BY <2>6, <3>1
    <3>3. F[i - 1] \in Seq(C) /\ seqs[i] \in Seq(C)
      BY <1>1, <3>1
    <3>4. F[i - 1] \o seqs[i] \in Seq(C)
      BY <3>3
    <3> QED
      BY <3>1, <3>2, <3>4
  <2>9. \A m \in Nat : m \in Done
    <3>1. Done \in SUBSET Nat
      OBVIOUS
    <3> HIDE DEF Done
    <3> QED
      BY <2>7, <2>8, <3>1, AllNumbers
  <2>10. n - 1 \in Nat /\ (n - 1) + 1 = n /\ n <= n
    BY <1>3
  <2>11. n - 1 \in Done
    <3> HIDE DEF Done
    <3> QED
      BY <2>9, <2>10
  <2> QED
    BY <2>5, <2>10, <2>11
<1> QED
  BY <1>2, <1>3

\* enter and init_user: the prompt in a row of its own, nothing else drawn from there on.
LEMMA PromptShown ==
  ASSUME NEW s \in Screens
  PROVE  LET t == Prompted(s)
             y == s.cursor.y + 1
         IN  /\ t \in Screens /\ y \in Nat
             /\ t.cursor = [x |-> 2, y |-> y] /\ t.begin = [x |-> 2, y |-> y]
             /\ \A p \in Point : t.cells[p] \subseteq s.cells[p] \cup {">"}
             /\ y <= RowBound /\ ClearedWhole([x |-> 0, y |-> y]) =>
                   t.cells[[x |-> 0, y |-> y]] = {">"}
<1>1. s.cursor.y \in Nat
  BY DEF Screens, Cell
<1>2. PICK y \in Nat : y = s.cursor.y + 1
  BY <1>1
<1> DEFINE text == <<NewLine, ">", Space>>
           P(x) == [x |-> x, y |-> y]
           s1 == Printed(s, NewLine)
           s2 == Printed(s1, ">")
           s3 == Printed(s2, Space)
<1>3. text \in Seq(Ink) /\ Len(text) = 3 /\ text[1] = NewLine /\ text[2] = ">" /\ text[3] = Space
  BY DEF Ink, Glyphs
<1>4. PrintedAll(s, text) = s3
  <2> HIDE DEF text
  <2>1. PICK A : /\ A[0] = s
                 /\ \A j \in 1 .. 3 : A[j] = Printed(A[j - 1], text[j])
                 /\ PrintedAll(s, text) = A[3]
    BY <1>3, PrintTurns
  <2>2. A[1] = s1
    BY <1>3, <2>1
  <2>3. A[2] = s2
    BY <1>3, <2>1, <2>2
  <2> QED
    BY <1>3, <2>1, <2>3
<1>5. s1 \in Screens /\ s1.cursor = P(0) /\ s1.cells = s.cells
  BY <1>2, NewLinePrinted DEF PrintsOn
<1>6. \A x \in 0 .. 2 : P(x) \in Cell /\ x # LastColumn
  BY Layout DEF Cell
<1>7. Advanced(P(0)) = P(1) /\ Advanced(P(1)) = P(2)
  <2>1. \A x \in 0 .. 1 : Advanced(P(x)) = P(x + 1)
    BY <1>6, OneOn
  <2> QED
    BY <2>1
<1>8. ">" \in Ink \ {NewLine} /\ Space \in Ink \ {NewLine}
  BY DEF Ink, Glyphs, Space, NewLine
<1>9. /\ s2 \in Screens /\ s2.cursor = P(1)
      /\ s2.cells = Glyph(Rect(s.cells, P(0)), P(0), ">")
  <2> HIDE DEF s1
  <2>1. s2 = [cursor |-> Advanced(s1.cursor), begin |-> s1.begin,
              cells |-> Glyph(Rect(s1.cells, s1.cursor), s1.cursor, ">")]
    BY <1>5, <1>8, CharacterPrinted
  <2>2. s2 \in Screens
    BY <1>5, <1>8, CharacterPrinted DEF PrintsOn
  <2> HIDE DEF s2
  <2> QED
    BY <1>5, <1>7, <2>1, <2>2
<1>10. /\ s3 \in Screens /\ s3.cursor = P(2)
       /\ s3.cells = Glyph(Rect(s2.cells, P(1)), P(1), Space)
  <2> HIDE DEF s2
  <2>1. s3 = [cursor |-> Advanced(s2.cursor), begin |-> s2.begin,
              cells |-> Glyph(Rect(s2.cells, s2.cursor), s2.cursor, Space)]
    BY <1>8, <1>9, CharacterPrinted
  <2>2. s3 \in Screens
    BY <1>8, <1>9, CharacterPrinted DEF PrintsOn
  <2> HIDE DEF s3
  <2> QED
    BY <1>7, <1>9, <2>1, <2>2
<1> HIDE DEF s1, s2, s3
<1>11. /\ s.cells \in Drawings(Ink) /\ s2.cells \in Drawings(Ink)
       /\ ">" \in Ink \cup {Space} /\ Space \in Ink \cup {Space}
  BY <1>8, <1>9 DEF Screens
<1>12. \A p \in Point : s3.cells[p] \subseteq s.cells[p] \cup {">"}
  <2>1. \A p \in Point : s2.cells[p] \subseteq s.cells[p] \cup ({">"} \ {Space})
    BY <1>9, <1>11, CharacterDrawn
  <2>2. \A p \in Point : s3.cells[p] \subseteq s2.cells[p] \cup ({Space} \ {Space})
    BY <1>10, <1>11, CharacterDrawn
  <2> QED
    BY <2>1, <2>2
<1>13. ASSUME y <= RowBound, ClearedWhole(P(0)) PROVE s3.cells[P(0)] = {">"}
  <2>1. P(0) \in Cell /\ P(0) \in Point /\ P(0) # P(1)
    BY <1>6, <1>13, CellOnScreen
  <2>2. s2.cells[P(0)] = {">"} \ {Space}
    BY <1>9, <1>11, <1>13, <2>1, CharacterDrawn
  <2>3. s3.cells[P(0)] = s2.cells[P(0)]
    BY <1>10, <1>11, <2>1, CharacterDrawn
  <2> QED
    BY <2>2, <2>3 DEF Space
<1>14. /\ Prompted(s) = [s3 EXCEPT !.begin = s3.cursor]
       /\ Prompted(s) \in Screens /\ Prompted(s).cells = s3.cells
       /\ Prompted(s).cursor = P(2) /\ Prompted(s).begin = P(2)
  <2>1. Prompted(s) = [s3 EXCEPT !.begin = s3.cursor]
    BY <1>4 DEF Prompted
  <2> QED
    BY <1>10, <2>1 DEF Screens, Places
<1> QED
  BY <1>2, <1>12, <1>13, <1>14

\* A command prints, or clears the screen.
LEMMA CommandShown ==
  ASSUME NEW s \in Screens, NEW words \in Seq(Seq(Bytes))
  PROVE  PrintsOn(s, Executed(s, words)) \/ Executed(s, words) = Cleared(s)
<1>1. s.cursor.y \in Nat
  BY DEF Screens, Cell
<1>2. PrintsOn(s, s)
  BY <1>1 DEF PrintsOn
<1>3. \A text \in Seq(Ink) : PrintsOn(s, PrintedAll(s, text))
  BY TextPrinted
<1>4. \A text \in Seq(Bytes) : text \in Seq(Ink)
  <2>1. Bytes \subseteq Ink
    BY DEF Bytes, Ink, Glyphs
  <2> QED
    BY <2>1
<1>5. CASE words = <<>>
  BY <1>2, <1>5 DEF Executed
<1>6. CASE words # <<>> /\ words[1] = <<"e">>
  <2> DEFINE shown == [i \in 1 .. Len(words) - 1 |-> Append(words[i + 1], Space)]
  <2>1. PICK n \in Nat : n = Len(words) - 1 /\ \A i \in 1 .. n : words[i + 1] \in Seq(Bytes)
    BY <1>6, EmptySeq
  <2>2. \A i \in 1 .. n : Append(words[i + 1], Space) \in Seq(Bytes)
    <3>1. Space \in Bytes
      BY DEF Bytes
    <3> QED
      BY <2>1, <3>1
  <2>3. shown \in Seq(Seq(Bytes))
    BY <2>1, <2>2
  <2>4. FlattenSeq(shown) \in Seq(Ink)
    <3> HIDE DEF shown
    <3> QED
      BY <1>4, <2>3, FlatText
  <2>5. Executed(s, words) = PrintedAll(s, FlattenSeq(shown))
    BY <1>6 DEF Executed
  <2> HIDE DEF shown
  <2> QED
    BY <1>3, <2>4, <2>5
<1>7. CASE words # <<>> /\ words[1] = <<"c">>
  <2>1. <<"c">> # <<"e">>
    OBVIOUS
  <2> QED
    BY <1>7, <2>1 DEF Executed
<1>8. CASE words # <<>> /\ words[1] = <<"w">>
  <2>1. <<"w">> # <<"e">> /\ <<"w">> # <<"c">>
    OBVIOUS
  <2>2. <<"u", NewLine>> \in Seq(Ink)
    BY DEF Ink, Glyphs
  <2>3. Executed(s, words) = IF Len(words) = 3 THEN s ELSE PrintedAll(s, <<"u", NewLine>>)
    BY <1>8, <2>1 DEF Executed
  <2> QED
    BY <1>2, <1>3, <2>2, <2>3
<1>9. CASE words # <<>> /\ words[1] \notin {<<"e">>, <<"c">>, <<"w">>}
  <2>1. words[1] \in Seq(Bytes)
    BY <1>9, EmptySeq
  <2>2. words[1] \in Seq(Ink) /\ <<"?">> \in Seq(Ink) /\ <<NewLine>> \in Seq(Ink)
    BY <1>4, <2>1 DEF Ink, Glyphs
  <2>3. <<"?">> \o words[1] \o <<NewLine>> \in Seq(Ink)
    BY <2>2
  <2>4. Executed(s, words) = PrintedAll(s, <<"?">> \o words[1] \o <<NewLine>>)
    BY <1>9 DEF Executed
  <2> QED
    BY <1>3, <2>3, <2>4
<1> QED
  BY <1>5, <1>6, <1>7, <1>8, <1>9

-----------------------------------------------------------------------------
(* The line and the screen. *)

\* Where the prompt is.
PromptCell == [x |-> 0, y |-> screen.begin.y]

\* The cells of the line: f leads over them from b, and the cursor is on the i-th.
LineAt(b, i, f) ==
    /\ b = screen.begin /\ i = current_line_index /\ f = CellAt /\ f = Path(b)
    /\ b \in Cell /\ b \in Point /\ i \in 0 .. LineBound
    /\ f[0] = b /\ screen.cursor = f[i]
    /\ \A k \in 0 .. i : f[k] \in Cell /\ f[k] \in Point /\ f[k] # PromptCell
    /\ \A k \in 0 .. i - 1 : f[k] # f[i] /\ Before(f[k], f[i]) /\ f[k + 1] = Advanced(f[k])
    /\ i + 1 <= LineBound => f[i + 1] = Advanced(f[i])
    /\ PromptCell \in Cell /\ PromptCell \in Point

LEMMA CellsOfLine == LineInv => \E b, i, f : LineAt(b, i, f)
<1> SUFFICES ASSUME LineInv PROVE \E b, i, f : LineAt(b, i, f)
  OBVIOUS
<1>1. PICK b, i, f : b = screen.begin /\ i = current_line_index /\ f = Path(b)
  OBVIOUS
<1>2. CellAt = f
  BY <1>1 DEF CellAt, Path
<1>3. /\ b \in Cell /\ b \in Point /\ b.x = 2 /\ i \in 0 .. LineBound
      /\ screen.cursor = f[i] /\ f[i] \in Point
  BY <1>1, <1>2 DEF LineInv, LineTypeOK
<1>4. f[0] = b
  BY <1>1, <1>3, PathCells
<1>5. \A k \in 0 .. LineBound : f[k] \in Cell /\ (k + 1 <= LineBound => f[k + 1] = Advanced(f[k]))
  BY <1>1, <1>3, PathCells
<1>6. \A k \in 0 .. i : \A j \in 0 .. k - 1 : Before(f[j], f[k])
  <2>1. \A k \in 0 .. i : k \in 0 .. LineBound
    BY <1>3, CommandLineAssumption
  <2> QED
    BY <1>1, <1>3, <2>1, PathCells
<1>7. \A k \in 0 .. i : k \in 0 .. LineBound /\ (k # i => k \in 0 .. i - 1)
  BY <1>3, CommandLineAssumption
<1>8. i \in 0 .. i /\ f[i].y \in Nat /\ f[i].y <= RowBound
  BY <1>3, <1>5 DEF Point, Rows, Cell
<1>9. ASSUME NEW k \in 0 .. i PROVE f[k] \in Cell /\ f[k] \in Point
  <2>1. f[k] \in Cell /\ f[k].y \in Nat
    BY <1>5, <1>7 DEF Cell
  <2>2. f[k].y <= f[i].y
    BY <1>6, <1>7, <1>8, <2>1 DEF Before
  <2> QED
    BY <1>8, <2>1, <2>2, CellOnScreen, CommandLineAssumption
<1>10. ASSUME NEW k \in 0 .. i PROVE f[k] # PromptCell
  <2>1. CASE k = 0
    BY <1>1, <1>3, <1>4, <2>1 DEF PromptCell
  <2>2. CASE k # 0
    <3>1. 0 \in 0 .. k - 1
      BY <1>3, <2>2, CommandLineAssumption
    <3>2. Before(b, f[k])
      BY <1>4, <1>6, <3>1
    <3>3. b.y \in Nat /\ f[k].x \in Nat
      BY <1>3, <1>9, Layout DEF Cell
    <3> QED
      BY <1>1, <1>3, <3>2, <3>3 DEF Before, PromptCell
  <2> QED
    BY <2>1, <2>2
<1>11. ASSUME NEW k \in 0 .. i - 1
       PROVE  f[k] # f[i] /\ Before(f[k], f[i]) /\ f[k + 1] = Advanced(f[k])
  <2>1. Before(f[k], f[i]) /\ k \in 0 .. LineBound /\ k + 1 <= LineBound
    BY <1>3, <1>6, <1>8, CommandLineAssumption
  <2>2. f[k].x \in Int /\ f[k].y \in Int
    BY <1>5, <2>1, Layout DEF Cell
  <2> QED
    BY <1>5, <2>1, <2>2 DEF Before
<1>12. PromptCell \in Cell /\ PromptCell \in Point
  <2>1. b.y \in Nat /\ b.y <= RowBound
    BY <1>3 DEF Cell, Point, Rows
  <2>2. PromptCell \in Cell /\ PromptCell.y <= RowBound
    BY <1>1, <2>1, Layout DEF PromptCell, Cell
  <2> QED
    BY <2>2, CellOnScreen
<1>13. LineAt(b, i, f)
  <2>1. i + 1 <= LineBound => f[i + 1] = Advanced(f[i])
    BY <1>3, <1>5
  <2> QED
    BY <1>1, <1>2, <1>3, <1>4, <1>9, <1>10, <1>11, <1>12, <2>1 DEF LineAt
<1> QED
  BY <1>13

\* The screen of the model is one that can be printed on.
LEMMA LineScreen ==
  ASSUME LineInv, NEW b, NEW i, NEW f, LineAt(b, i, f)
  PROVE  screen \in Screens /\ screen.cells \in Drawings(Glyphs)
<1>1. screen.cells \in Drawings(Glyphs)
  BY DEF LineInv, Drawings
<1>2. screen.cells \in Drawings(Ink)
  BY <1>1 DEF Drawings, Ink
<1>3. screen.cursor \in Cell
  <2>1. i \in 0 .. i
    BY CommandLineAssumption DEF LineAt
  <2> QED
    BY <2>1 DEF LineAt
<1>4. screen.begin \in Places
  BY DEF LineInv, Point, Columns, Rows, Places
<1> QED
  BY <1>1, <1>2, <1>3, <1>4 DEF LineInv, Screens

\* A key that is stored.
LEMMA StoreKeeps ==
  ASSUME LineInv, InBounds, NEW c \in Keys \cup {Space}, Store(c)
  PROVE  LineInv'
<1>1. PICK b, i, f : LineAt(b, i, f)
  BY CellsOfLine
<1>2. PICK cells \in Drawings(Glyphs) : cells = screen.cells
  BY <1>1, LineScreen
<1> DEFINE G == Glyph(Rect(cells, f[i]), f[i], c)
<1>3. /\ i \in 0 .. LineBound /\ i + 1 \in 0 .. LineBound /\ f[i + 1] = Advanced(f[i])
      /\ current_line_index = i /\ current_line_index' = i + 1
      /\ current_line' = [current_line EXCEPT ![i] = c] /\ entered' = entered
  BY <1>1, CommandLineAssumption DEF LineAt, InBounds, Store
<1>4. screen' = [cursor |-> f[i + 1], begin |-> b, cells |-> G]
  <2>1. c \in Ink \ {NewLine}
    BY CommandLineAssumption DEF Ink, Glyphs, NewLine, Space
  <2>2. screen \in Screens
    BY <1>1, LineScreen
  <2>3. screen' = [cursor |-> Advanced(screen.cursor), begin |-> screen.begin,
                   cells |-> Glyph(Rect(screen.cells, screen.cursor), screen.cursor, c)]
    BY <2>1, <2>2, CharacterPrinted DEF Store
  <2> QED
    BY <1>1, <1>2, <1>3, <2>3 DEF LineAt
<1>5. CellAt' = f
  <2>1. CellAt' = Path(b)
    BY <1>4 DEF CellAt, Path
  <2> QED
    BY <1>1, <2>1 DEF LineAt
<1>6. f[i] \in Cell /\ f[i] \in Point /\ f[i] # PromptCell
  BY <1>1, <1>3 DEF LineAt
<1>7. f[i + 1] \in Point /\ f[i + 1] \in Cell
  <2>1. f[i + 1] \in Cell
    BY <1>3, <1>6, OneOn
  <2>2. f[i + 1].y <= RowBound
    BY <1>1, <1>3 DEF LineAt, InBounds
  <2> QED
    BY <2>1, <2>2, CellOnScreen
<1>8. /\ G \in Drawings(Glyphs)
      /\ \A q \in Point : q # f[i] => G[q] = cells[q]
      /\ ClearedWhole(f[i]) => G[f[i]] = {c} \ {Space}
  <2>1. c \in Glyphs \cup {Space}
    BY DEF Glyphs
  <2> QED
    BY <1>6, <2>1, CharacterDrawn
<1> HIDE DEF G
<1>9. LineTypeOK'
  <2>1. current_line' \in [0 .. LineBound -> Keys \cup {Space, End, Pointer}]
    BY <1>3 DEF LineInv, LineTypeOK
  <2>2. screen.begin \in Point /\ entered \in BOOLEAN
    BY DEF LineInv, LineTypeOK
  <2> QED
    BY <1>1, <1>3, <1>4, <1>7, <1>8, <2>1, <2>2 DEF LineTypeOK, LineAt, Drawings
<1>10. /\ screen' \in [cursor : Point, begin : Point, cells : [Point -> SUBSET Glyphs]]
       /\ screen'.begin \in Cell /\ screen'.begin.x = 2
  BY <1>1, <1>4, <1>7, <1>8 DEF LineInv, LineAt, Drawings
<1>11. ASSUME NEW k \in 0 .. i
       PROVE  /\ current_line'[k] \in Keys \cup {Space}
              /\ ClearedWhole(f[k]) => G[f[k]] = {current_line'[k]} \ {Space}
  <2>1. k \in 0 .. LineBound /\ (k # i => k \in 0 .. i - 1) /\ DOMAIN current_line = 0 .. LineBound
    BY <1>3, CommandLineAssumption DEF LineInv, LineTypeOK
  <2>2. CASE k = i
    BY <1>3, <1>8, <2>1, <2>2
  <2>3. CASE k # i
    <3>1. current_line'[k] = current_line[k]
      BY <1>3, <2>1, <2>3
    <3>2. /\ current_line[k] \in Keys \cup {Space}
          /\ ClearedWhole(f[k]) => cells[f[k]] = {current_line[k]} \ {Space}
      BY <1>1, <1>2, <1>3, <2>1, <2>3 DEF LineInv, LineAt
    <3>3. f[k] \in Point /\ f[k] # f[i]
      BY <1>1, <2>1, <2>3 DEF LineAt
    <3> QED
      BY <1>8, <3>1, <3>2, <3>3
  <2> QED
    BY <2>2, <2>3
<1>12. ASSUME NEW k \in i + 1 .. LineBound, k < MaxCharacters PROVE current_line'[k] = End
  <2>1. k \in i .. LineBound /\ k # i /\ k \in 0 .. LineBound
    BY <1>3, CommandLineAssumption
  <2> QED
    BY <1>3, <1>12, <2>1 DEF LineInv, LineTypeOK
<1>13. entered => (ClearedWhole(PromptCell) => G[PromptCell] = {">"})
  BY <1>1, <1>2, <1>6, <1>8 DEF LineInv, LineAt, PromptCell
<1>14. [x |-> 0, y |-> screen'.begin.y] = PromptCell
  BY <1>1, <1>4 DEF LineAt, PromptCell
<1>15. 0 .. (i + 1) - 1 = 0 .. i
  BY <1>3
<1> QED
  BY <1>3, <1>4, <1>5, <1>9, <1>10, <1>11, <1>12, <1>13, <1>14, <1>15 DEF LineInv

\* Backspace takes back the last of the line, or finds the prompt.
LEMMA BackspaceKeeps ==
  ASSUME CanvasWidth % 8 \in {0, 1}, LineInv, TypeBackspace
  PROVE  LineInv'
<1>1. PICK b, i, f : LineAt(b, i, f)
  BY CellsOfLine
<1>2. PICK cells \in Drawings(Glyphs) : cells = screen.cells
  BY <1>1, LineScreen
<1>3. /\ i \in 0 .. LineBound /\ current_line_index = i
      /\ current_line_index' = IF i = 0 THEN 0 ELSE i - 1
      /\ current_line' = [current_line EXCEPT ![current_line_index'] = End]
      /\ entered' = entered /\ screen' = Backspaced(screen)
  BY <1>1 DEF LineAt, TypeBackspace, IndexBack
<1>4. PICK j \in 0 .. LineBound : j = current_line_index'
  BY <1>3, CommandLineAssumption
<1>5. PICK G : /\ screen' = [cursor |-> f[j], begin |-> b, cells |-> G] /\ G \in Drawings(Glyphs)
               /\ \A q \in Point : q # f[j] \/ i = 0 => G[q] = cells[q]
  <2>1. CASE i = 0
    <3>1. Backspaced(screen) = screen
      BY <1>1, <2>1, Layout DEF Backspaced, LineAt, Cell
    <3>2. screen' = [cursor |-> f[j], begin |-> b, cells |-> cells]
      BY <1>1, <1>2, <1>3, <1>4, <2>1, <3>1 DEF LineInv, LineAt
    <3> QED
      BY <3>2
  <2>2. CASE i # 0
    <3>1. j = i - 1 /\ j \in 0 .. i - 1 /\ j + 1 = i /\ j \in 0 .. i /\ 0 \in 0 .. i - 1
      BY <1>3, <1>4, <2>2
    <3>2. f[j] \in Cell /\ f[i] = Advanced(f[j]) /\ Before(b, f[i])
      BY <1>1, <3>1 DEF LineAt
    <3>3. Back(screen.cursor) = f[j]
      BY <1>1, <3>2, OneOn DEF LineAt
    <3>4. ~(screen.cursor.x <= screen.begin.x /\ screen.cursor.y = screen.begin.y)
      <4>1. b.x \in Int /\ b.y \in Int /\ f[i].x \in Int /\ f[i].y \in Int
        <5>1. i \in 0 .. i
          BY <1>3
        <5> QED
          BY <1>1, <5>1, Layout DEF LineAt, Cell
      <4> QED
        BY <1>1, <3>2, <4>1 DEF LineAt, Before
    <3>5. screen' = [screen EXCEPT !.cursor = f[j], !.cells = Rect(cells, f[j])]
      BY <1>2, <1>3, <3>3, <3>4 DEF Backspaced
    <3>6. screen' = [cursor |-> f[j], begin |-> b, cells |-> Rect(cells, f[j])]
      <4>1. PICK a, d : screen = [cursor |-> a, begin |-> b, cells |-> d]
        BY <1>1 DEF LineInv, LineAt
      <4>2. PICK p, r, t : p = f[j] /\ r = Rect(cells, f[j]) /\ t = screen'
        OBVIOUS
      <4>3. t = [[cursor |-> a, begin |-> b, cells |-> d] EXCEPT !.cursor = p, !.cells = r]
        BY <3>5, <4>1, <4>2
      <4>4. t = [cursor |-> p, begin |-> b, cells |-> r]
        BY <4>3
      <4> QED
        BY <4>2, <4>4
    <3>7. /\ Rect(cells, f[j]) \in Drawings(Glyphs)
          /\ \A q \in Point : q # f[j] => Rect(cells, f[j])[q] = cells[q]
      BY CellCleared
    <3> QED
      BY <2>2, <3>6, <3>7
  <2> QED
    BY <2>1, <2>2
<1>6. CellAt' = f
  <2>1. CellAt' = Path(b)
    BY <1>5 DEF CellAt, Path
  <2> QED
    BY <1>1, <2>1 DEF LineAt
<1>7. /\ j \in 0 .. i /\ (i # 0 => j = i - 1)
      /\ \A k \in 0 .. j - 1 : k \in 0 .. i - 1 /\ i # 0 /\ k # j /\ k \in 0 .. LineBound
  <2>1. j = IF i = 0 THEN 0 ELSE i - 1
    BY <1>3, <1>4
  <2> QED
    BY <1>3, <2>1, CommandLineAssumption
<1>8. f[j] \in Point /\ f[j] # PromptCell
  BY <1>1, <1>7 DEF LineAt
<1>9. LineTypeOK'
  <2>1. current_line' \in [0 .. LineBound -> Keys \cup {Space, End, Pointer}]
    BY <1>3 DEF LineInv, LineTypeOK
  <2>2. screen.begin \in Point /\ entered \in BOOLEAN
    BY DEF LineInv, LineTypeOK
  <2> QED
    BY <1>1, <1>3, <1>4, <1>5, <1>8, <2>1, <2>2 DEF LineTypeOK, LineAt, Drawings
<1>10. /\ screen' \in [cursor : Point, begin : Point, cells : [Point -> SUBSET Glyphs]]
       /\ screen'.begin \in Cell /\ screen'.begin.x = 2
  BY <1>1, <1>5, <1>8 DEF LineInv, LineAt, Drawings
<1>11. ASSUME NEW k \in 0 .. j - 1
       PROVE  /\ current_line'[k] \in Keys \cup {Space}
              /\ ClearedWhole(f[k]) => G[f[k]] = {current_line'[k]} \ {Space}
  <2>1. current_line'[k] = current_line[k]
    BY <1>3, <1>4, <1>7 DEF LineInv, LineTypeOK
  <2>2. /\ current_line[k] \in Keys \cup {Space}
        /\ ClearedWhole(f[k]) => cells[f[k]] = {current_line[k]} \ {Space}
    BY <1>1, <1>2, <1>3, <1>7 DEF LineInv, LineAt
  <2>3. f[k] \in Point /\ f[k] # f[j]
    <3>1. j = i - 1 /\ k \in 0 .. i /\ k \in 0 .. i - 1 /\ j \in 0 .. LineBound
      BY <1>3, <1>4, <1>7
    <3>2. f[k] \in Point
      BY <1>1, <3>1 DEF LineAt
    <3>3. Before(f[k], f[j]) /\ f[k] \in Cell /\ f[j] \in Cell
      BY <1>1, <1>7, <3>1, PathCells DEF LineAt
    <3>4. f[k].x \in Int /\ f[k].y \in Int
      BY <3>3, Layout DEF Cell
    <3> QED
      BY <3>2, <3>3, <3>4 DEF Before
  <2> QED
    BY <1>5, <2>1, <2>2, <2>3
<1>12. ASSUME NEW k \in j .. LineBound, k < MaxCharacters PROVE current_line'[k] = End
  <2>1. k \in 0 .. LineBound /\ (k # j => k \in i .. LineBound)
    BY <1>3, <1>4, CommandLineAssumption
  <2> QED
    BY <1>3, <1>4, <1>12, <2>1 DEF LineInv, LineTypeOK
<1>13. entered => (ClearedWhole(PromptCell) => G[PromptCell] = {">"})
  BY <1>1, <1>2, <1>5, <1>8 DEF LineInv, LineAt, PromptCell
<1>14. [x |-> 0, y |-> screen'.begin.y] = PromptCell
  BY <1>1, <1>5 DEF LineAt, PromptCell
<1> QED
  BY <1>3, <1>4, <1>5, <1>6, <1>9, <1>10, <1>11, <1>12, <1>13, <1>14 DEF LineInv

\* The text of a line ends at its first 0.
LEMMA TextOfLine ==
  ASSUME NEW line \in [0 .. LineBound -> Bytes]
  PROVE  /\ Text(line) \in Seq(Bytes)
         /\ \A i \in 0 .. LineBound :
               line[i] = End /\ (\A k \in 0 .. i - 1 : line[k] # End) => Len(Text(line)) = i
<1> DEFINE ends == {i \in DOMAIN line : line[i] = End}
           First == CHOOSE i \in ends : \A j \in ends : i <= j
           length == IF ends = {} THEN LineBound + 1 ELSE First
<1>1. DOMAIN line = 0 .. LineBound /\ LineBound \in Nat
  BY CommandLineAssumption
<1>2. ends # {} => First \in ends /\ \A j \in ends : First <= j
  <2>1. ends \in SUBSET Nat
    BY <1>1
  <2> HIDE DEF ends
  <2>2. ends # {} => \E i \in ends : \A j \in ends : i <= j
    BY <2>1, LeastNumber
  <2> QED
    BY <2>2
<1>3. length \in Nat /\ length <= LineBound + 1
  BY <1>1, <1>2
<1>4. Text(line) = [i \in 1 .. length |-> line[i - 1]]
  BY DEF Text
<1>5. \A i \in 0 .. LineBound :
         line[i] = End /\ (\A k \in 0 .. i - 1 : line[k] # End) => length = i
  <2> SUFFICES ASSUME NEW i \in 0 .. LineBound, line[i] = End, \A k \in 0 .. i - 1 : line[k] # End
               PROVE  length = i
    OBVIOUS
  <2>1. i \in ends
    BY <1>1
  <2>2. First \in 0 .. LineBound /\ line[First] = End /\ First <= i
    BY <1>1, <1>2, <2>1
  <2>3. ~(First < i)
    <3> HIDE DEF First
    <3> QED
      BY <1>1, <2>2
  <2> QED
    BY <1>1, <2>1, <2>2, <2>3
<1> HIDE DEF length
<1>6. \A i \in 1 .. length : line[i - 1] \in Bytes
  BY <1>1, <1>3
<1>7. Text(line) \in Seq(Bytes) /\ Len(Text(line)) = length
  BY <1>3, <1>4, <1>6
<1> QED
  BY <1>5, <1>7

\* Enter: whatever the command shows is above the new prompt, or gone.
LEMMA EnterKeeps == ASSUME LineInv, TypeEnter PROVE LineInv'
<1>1. PICK b, i, f : LineAt(b, i, f)
  BY CellsOfLine
<1> DEFINE words == Words(Text(current_line))
           s1 == PrintedAll(screen, <<NewLine>>)
           s2 == Executed(s1, words)
           shown == Prompted(s2)
           y == s2.cursor.y + 1
<1>2. screen \in Screens /\ screen.cells \in Drawings(Glyphs)
  BY <1>1, LineScreen
<1>3. words \in Seq(Seq(Bytes))
  <2>1. Text(current_line) \in Seq(Bytes)
    BY TextOfLine DEF LineInv, LineTypeOK, Bytes
  <2> QED
    BY <2>1, WordsOfBytes
<1>4. PrintsOn(screen, s1)
  <2>1. <<NewLine>> \in Seq(Ink)
    BY DEF Ink
  <2> QED
    BY <1>2, <2>1, TextPrinted
<1>5. s1 \in Screens
  BY <1>4 DEF PrintsOn
<1> HIDE DEF words, s1
<1>6. PrintsOn(s1, s2) \/ s2 = Cleared(s1)
  BY <1>3, <1>5, CommandShown
<1> HIDE DEF s2
<1>7. s2 \in Screens /\ \A p \in Point : p.y > s2.cursor.y => s2.cells[p] \subseteq Glyphs
  <2>1. CASE PrintsOn(s1, s2)
    <3>1. PrintsOn(screen, s2)
      BY <1>2, <1>4, <2>1, PrintsOnAndOn
    <3> QED
      BY <1>2, <3>1 DEF PrintsOn, Drawings
  <2>2. CASE s2 = Cleared(s1)
    <3>1. PICK a \in Cell, d \in Places, g \in Drawings(Ink) :
               s1 = [cursor |-> a, begin |-> d, cells |-> g]
      BY <1>5 DEF Screens
    <3>2. s2 = [cursor |-> [x |-> 0, y |-> 0], begin |-> d, cells |-> Blank]
      BY <2>2, <3>1 DEF Cleared
    <3>3. [x |-> 0, y |-> 0] \in Cell /\ Blank \in Drawings(Ink)
      BY Layout DEF Cell, Blank, Drawings
    <3> QED
      BY <3>2, <3>3 DEF Screens, Blank
  <2> QED
    BY <1>6, <2>1, <2>2
<1>8. /\ shown \in Screens /\ y \in Nat
      /\ shown.cursor = [x |-> 2, y |-> y] /\ shown.begin = [x |-> 2, y |-> y]
      /\ \A p \in Point : shown.cells[p] \subseteq s2.cells[p] \cup {">"}
      /\ y <= RowBound /\ ClearedWhole([x |-> 0, y |-> y]) =>
            shown.cells[[x |-> 0, y |-> y]] = {">"}
  BY <1>7, PromptShown
<1>9. /\ shown.cursor.y < RowBound
      /\ screen' = [shown EXCEPT !.cells = [p \in Point |->
                                               IF p.y < shown.begin.y THEN {} ELSE @[p]]]
      /\ current_line' = Wiped(current_line) /\ current_line_index' = 0 /\ entered' = TRUE
  BY DEF TypeEnter, shown, s2, s1, words
<1> HIDE DEF shown
<1> DEFINE cells == [p \in Point |-> IF p.y < y THEN {} ELSE shown.cells[p]]
           start == [x |-> 2, y |-> y]
<1>10. screen' = [cursor |-> start, begin |-> start, cells |-> cells]
  <2>1. PICK g : shown = [cursor |-> start, begin |-> start, cells |-> g]
    BY <1>8 DEF Screens
  <2> QED
    BY <1>8, <1>9, <2>1
<1>11. y \in Nat /\ y < RowBound
  BY <1>8, <1>9
<1>12. start \in Cell /\ start \in Point
  <2>1. start \in Cell /\ start.y <= RowBound
    BY <1>11, Layout, CommandLineAssumption DEF Cell
  <2> QED
    BY <2>1, CellOnScreen
<1>13. cells \in [Point -> SUBSET Glyphs]
  <2>1. ASSUME NEW p \in Point, ~(p.y < y) PROVE shown.cells[p] \subseteq Glyphs
    <3>1. p.y > s2.cursor.y
      <4>1. s2.cursor.y \in Nat /\ p.y \in Nat
        BY <1>7 DEF Screens, Cell, Point, Rows
      <4> QED
        BY <2>1, <4>1
    <3>2. s2.cells[p] \subseteq Glyphs /\ ">" \in Glyphs
      BY <1>7, <3>1 DEF Glyphs
    <3> QED
      BY <1>8, <3>2
  <2> QED
    BY <2>1
<1>14. ClearedWhole([x |-> 0, y |-> y]) => cells[[x |-> 0, y |-> y]] = {">"}
  <2>1. [x |-> 0, y |-> y] \in Point
    <3>1. [x |-> 0, y |-> y] \in Cell
      BY <1>11, Layout DEF Cell
    <3> QED
      BY <1>11, <3>1, CellOnScreen, CommandLineAssumption
  <2> QED
    BY <1>8, <1>11, <2>1, CommandLineAssumption
<1>15. CellAt'[0] = start
  <2>1. CellAt' = Path(start)
    BY <1>10 DEF CellAt, Path
  <2> QED
    BY <1>12, <2>1, PathCells
<1>16. /\ current_line' \in [0 .. LineBound -> Keys \cup {Space, End, Pointer}]
       /\ \A k \in 0 .. LineBound : k < MaxCharacters => current_line'[k] = End
  BY <1>9 DEF Wiped, LineInv, LineTypeOK
<1> HIDE DEF cells, y
<1>17. LineTypeOK'
  BY <1>9, <1>10, <1>12, <1>13, <1>16, CommandLineAssumption DEF LineTypeOK
<1>18. /\ screen' \in [cursor : Point, begin : Point, cells : [Point -> SUBSET Glyphs]]
       /\ screen'.begin \in Cell /\ screen'.begin.x = 2 /\ screen'.cursor = start
       /\ screen'.cells = cells /\ screen'.begin.y = y
  BY <1>10, <1>12, <1>13
<1>19. 0 .. 0 - 1 = {}
  OBVIOUS
<1> QED
  BY <1>9, <1>14, <1>15, <1>16, <1>17, <1>18, <1>19 DEF LineInv

\* The first prompt, and what FAT32 prints behind it.
LEMMA LineStarts == LineInit => LineInv
<1> SUFFICES ASSUME LineInit PROVE LineInv
  OBVIOUS
<1> DEFINE s0 == [cursor |-> [x |-> 0, y |-> 0], begin |-> [x |-> 4, y |-> 0], cells |-> Blank]
           first == Prompted(s0)
           P(x, y) == [x |-> x, y |-> y]
<1>1. PICK found \in {<<>>, <<"#", NewLine, "#", "#">>} : screen = PrintedAll(first, found)
  BY DEF LineInit
<1>2. s0 \in Screens /\ s0.cursor.y + 1 = 1 /\ \A p \in Point : s0.cells[p] = {}
  BY Layout DEF Screens, Places, Cell, Drawings, Blank
<1>3. /\ first \in Screens /\ first.cursor = P(2, 1) /\ first.begin = P(2, 1)
      /\ \A p \in Point : first.cells[p] \subseteq {">"}
  <2> HIDE DEF s0
  <2>1. /\ first \in Screens /\ first.cursor = P(2, 1) /\ first.begin = P(2, 1)
        /\ \A p \in Point : first.cells[p] \subseteq s0.cells[p] \cup {">"}
    BY <1>2, PromptShown
  <2> QED
    BY <1>2, <2>1
<1> HIDE DEF s0, first
<1>4. first.cells \in Drawings(Glyphs)
  BY <1>3 DEF Screens, Drawings, Glyphs
<1>5. PICK r \in 1 .. 2 : /\ screen \in Screens /\ screen.cells \in Drawings(Glyphs)
                          /\ screen.cursor = P(2, r) /\ screen.begin = P(2, r)
  <2>1. CASE found = <<>>
    <3>1. <<>> \in Seq(Ink) /\ Len(<<>>) = 0
      OBVIOUS
    <3>2. PrintedAll(first, <<>>) = first
      <4>1. PICK k \in Nat, text \in Seq(Ink) : k = 0 /\ text = <<>> /\ Len(text) = k
        BY <3>1
      <4>2. PICK A : /\ A[0] = first
                     /\ \A j \in 1 .. k : A[j] = Printed(A[j - 1], text[j])
                     /\ PrintedAll(first, text) = A[k]
        <5>1. Len(text) = k
          BY <4>1
        <5>2. PICK t : t = first
          OBVIOUS
        <5>3. \E A : /\ A[0] = t
                     /\ \A j \in 1 .. k : A[j] = Printed(A[j - 1], text[j])
                     /\ PrintedAll(t, text) = A[k]
          BY <5>1, PrintTurns
        <5> QED
          BY <5>2, <5>3
      <4> QED
        BY <4>1, <4>2
    <3> QED
      BY <1>1, <1>3, <1>4, <2>1, <3>2
  <2>2. CASE found = <<"#", NewLine, "#", "#">>
    <3> DEFINE text == <<"#", NewLine, "#", "#">>
               s1 == Printed(first, "#")
               s2 == Printed(s1, NewLine)
               s3 == Printed(s2, "#")
               s4 == Printed(s3, "#")
    <3>1. /\ text \in Seq(Ink) /\ Len(text) = 4
          /\ text[1] = "#" /\ text[2] = NewLine /\ text[3] = "#" /\ text[4] = "#"
      BY DEF Ink, Glyphs
    <3>2. screen = s4
      <4>1. PrintedAll(first, text) = s4
        <5> HIDE DEF text
        <5>0. PICK k \in Nat : k = 4 /\ Len(text) = k
          BY <3>1
        <5>1. PICK A : /\ A[0] = first
                       /\ \A j \in 1 .. k : A[j] = Printed(A[j - 1], text[j])
                       /\ PrintedAll(first, text) = A[k]
          <6>1. PICK u \in Seq(Ink) : u = text /\ Len(u) = k
            BY <3>1, <5>0
          <6>2. PICK t : t = first
            OBVIOUS
          <6>3. Len(u) = k
            BY <6>1
          <6>4. \E A : /\ A[0] = t
                       /\ \A j \in 1 .. k : A[j] = Printed(A[j - 1], u[j])
                       /\ PrintedAll(t, u) = A[k]
            BY <6>3, PrintTurns
          <6> QED
            BY <6>1, <6>2, <6>4
        <5>2. A[1] = s1
          BY <3>1, <5>0, <5>1
        <5>3. A[2] = s2
          BY <3>1, <5>0, <5>1, <5>2
        <5>4. A[3] = s3
          BY <3>1, <5>0, <5>1, <5>3
        <5> QED
          BY <3>1, <5>0, <5>1, <5>4
      <4> QED
        BY <1>1, <2>2, <4>1
    <3>3. "#" \in Ink \ {NewLine} /\ "#" \in Glyphs \cup {Space}
      BY DEF Ink, Glyphs, NewLine
    <3>4. ASSUME NEW s \in Screens, s.cells \in Drawings(Glyphs),
                 NEW x \in 0 .. 2, NEW y \in Nat, s.cursor = P(x, y)
          PROVE  /\ Printed(s, "#") \in Screens /\ Printed(s, "#").cells \in Drawings(Glyphs)
                 /\ Printed(s, "#").cursor = P(x + 1, y) /\ Printed(s, "#").begin = s.begin
      <4>1. P(x, y) \in Cell /\ x # LastColumn
        BY Layout DEF Cell
      <4>2. Advanced(P(x, y)) = P(x + 1, y)
        BY <4>1, OneOn
      <4>3. /\ Printed(s, "#") \in Screens
            /\ Printed(s, "#") = [cursor |-> Advanced(s.cursor), begin |-> s.begin,
                                  cells |-> Glyph(Rect(s.cells, s.cursor), s.cursor, "#")]
        BY <3>3, CharacterPrinted DEF PrintsOn
      <4>4. Glyph(Rect(s.cells, s.cursor), s.cursor, "#") \in Drawings(Glyphs)
        BY <3>3, <3>4, CharacterDrawn
      <4> QED
        BY <3>4, <4>2, <4>3, <4>4
    <3>5. /\ s1 \in Screens /\ s1.cells \in Drawings(Glyphs)
          /\ s1.cursor = P(3, 1) /\ s1.begin = P(2, 1)
      BY <1>3, <1>4, <3>4
    <3> HIDE DEF s1
    <3>6. /\ s2 \in Screens /\ s2.cells \in Drawings(Glyphs)
          /\ s2.cursor = P(0, 2) /\ s2.begin = P(2, 2)
      <4>1. /\ s2 \in Screens /\ s2.cursor = [x |-> 0, y |-> s1.cursor.y + 1] /\ s2.cells = s1.cells
        BY <3>5, NewLinePrinted DEF PrintsOn
      <4>2. s2.begin = P(2, 2)
        <5>1. PICK a, d : s1 = [cursor |-> a, begin |-> P(2, 1), cells |-> d]
          BY <3>5 DEF Screens
        <5>2. s2 = [cursor |-> [x |-> 0, y |-> a.y + 1],
                    begin |-> [P(2, 1) EXCEPT !.y = @ + 1], cells |-> d]
          BY <5>1 DEF Printed
        <5> QED
          BY <5>2
      <4> QED
        BY <3>5, <4>1, <4>2
    <3> HIDE DEF s2
    <3>7. /\ s3 \in Screens /\ s3.cells \in Drawings(Glyphs)
          /\ s3.cursor = P(1, 2) /\ s3.begin = P(2, 2)
      BY <3>4, <3>6
    <3> HIDE DEF s3
    <3>8. /\ s4 \in Screens /\ s4.cells \in Drawings(Glyphs)
          /\ s4.cursor = P(2, 2) /\ s4.begin = P(2, 2)
      BY <3>4, <3>7
    <3> QED
      BY <3>2, <3>8
  <2> QED
    BY <2>1, <2>2
<1>6. P(2, r) \in Cell /\ P(2, r) \in Point
  <2>1. P(2, r) \in Cell /\ P(2, r).y <= RowBound
    BY Layout, CommandLineAssumption DEF Cell
  <2> QED
    BY <2>1, CellOnScreen
<1>7. screen \in [cursor : Point, begin : Point, cells : [Point -> SUBSET Glyphs]]
  BY <1>5, <1>6 DEF Screens, Drawings
<1>8. CellAt[0] = P(2, r)
  <2>1. CellAt = Path(P(2, r))
    BY <1>5 DEF CellAt, Path
  <2> QED
    BY <1>6, <2>1, PathCells
<1>9. /\ current_line \in [0 .. LineBound -> Keys \cup {Space, End, Pointer}]
      /\ \A k \in 0 .. LineBound : k < MaxCharacters => current_line[k] = End
      /\ current_line_index = 0 /\ entered = FALSE
  BY DEF LineInit
<1>10. LineTypeOK
  <2>1. screen.cursor \in Point /\ screen.begin \in Point /\ screen.cells \in [Point -> SUBSET Glyphs]
    BY <1>7
  <2>2. current_line_index \in 0 .. LineBound
    BY <1>9, CommandLineAssumption
  <2> QED
    BY <1>9, <2>1, <2>2 DEF LineTypeOK
<1>11. 0 .. 0 - 1 = {}
  OBVIOUS
<1> QED
  BY <1>5, <1>6, <1>7, <1>8, <1>9, <1>10, <1>11 DEF LineInv

\* What every reachable state keeps, on a canvas where backspace finds the margin of cprint.
THEOREM LineInvariance == ASSUME CanvasWidth % 8 \in {0, 1} PROVE LineSpec => []LineInv
<1>1. ASSUME LineInv, [LineNext]_lineVars PROVE LineInv'
  <2>1. CASE TypeKey
    <3>1. PICK c \in Keys : InBounds /\ Store(c)
      BY <2>1 DEF TypeKey
    <3> QED
      BY <1>1, <3>1, StoreKeeps
  <2>2. CASE TypeSpace
    BY <1>1, <2>2, StoreKeeps DEF TypeSpace
  <2>3. CASE TypeBackspace
    BY <1>1, <2>3, BackspaceKeeps
  <2>4. CASE TypeEnter
    BY <1>1, <2>4, EnterKeeps
  <2>5. CASE UNCHANGED lineVars
    <3>1. CellAt = Path(screen.begin) /\ CellAt' = Path(screen.begin)
      BY <2>5 DEF CellAt, Path, lineVars
    <3> QED
      BY <1>1, <2>5, <3>1 DEF LineInv, LineTypeOK, lineVars
  <2> QED
    BY <1>1, <2>1, <2>2, <2>3, <2>4, <2>5 DEF LineNext, handle_keyboard
<1> QED
  BY <1>1, LineStarts, PTL DEF LineSpec

\* What the user sees is what a command will get, for every canvas whose width leaves no
\* more than 1 modulo 8, every line length and every sequence of keys.  At other widths
\* backspace (out.cpp:89) and cprint (out.cpp:63) do not agree on the last column.
THEOREM LineShown == ASSUME CanvasWidth % 8 \in {0, 1} PROVE LineSpec => []ScreenShowsLine
<1>1. LineInv => ScreenShowsLine
  <2> SUFFICES ASSUME LineInv PROVE ScreenShowsLine
    OBVIOUS
  <2>1. current_line \in [0 .. LineBound -> Bytes] /\ current_line_index \in 0 .. LineBound
    BY DEF LineInv, LineTypeOK, Bytes
  <2>2. ASSUME current_line_index < MaxCharacters
        PROVE  Len(Text(current_line)) = current_line_index
    <3>1. current_line_index \in current_line_index .. LineBound
      BY <2>1, CommandLineAssumption
    <3>2. current_line[current_line_index] = End
      BY <2>2, <3>1 DEF LineInv
    <3>3. \A k \in 0 .. current_line_index - 1 : current_line[k] # End
      BY CommandLineAssumption DEF LineInv, Space, End
    <3> QED
      BY <2>1, <3>2, <3>3, TextOfLine
  <2> QED
    BY <2>2 DEF LineInv, ScreenShowsLine
<1> QED
  BY <1>1, LineInvariance, PTL
=============================================================================
