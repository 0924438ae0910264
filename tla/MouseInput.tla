----------------------------- MODULE MouseInput -----------------------------
(***************************************************************************)
(* The mouse of the shell: the PS/2 device sends three-byte packets, each  *)
(* byte raises IRQ 12 and mouse_int_handler gives it to                    *)
(* Shell::handle_mouse, which assembles mouse_packet and sets              *)
(* mouse_packet_ready; the main loop calls Shell::process_mouse_packet     *)
(* once a frame.  The two share the packet, the cycle and the flag without *)
(* a lock.  The handler runs with interrupts off, so it is one step; the   *)
(* main loop is a sequence of steps and any number of bytes may arrive     *)
(* between two of them.                                                    *)
(***************************************************************************)
EXTENDS Integers, FiniteSets

CONSTANTS
    Width, Height,  \* of the screen in pixels: graphics->get_width(), get_height()
    Packets         \* the packets <<flags, x, y>> the device may send

Byte == 0 .. 255

ASSUME MouseAssumption ==
    /\ Width \in Nat \ {0} /\ Height \in Nat \ {0}
    /\ Packets \subseteq Byte \X Byte \X Byte

VARIABLES
    sending,    \* the packet the device is sending
    sent,       \* how many of its bytes the device has sent: the next byte's place
    mouse_cycle, mouse_packet, mouse_packet_ready,  \* the globals of mouse.cpp
    pos, button_state,                              \* fields of *mouse
    pc,         \* where the main loop is
    x_neg, y_neg,                                   \* locals of process_mouse_packet
    dropped,    \* ghost: a byte arrived while a complete packet waited
    torn,       \* ghost: a byte arrived while the main loop was inside process_mouse_packet
    true_pos, true_button   \* ghost: the device's own account of pointer and buttons

device == <<sending, sent>>
buffer == <<mouse_cycle, mouse_packet, mouse_packet_ready>>
pointer == <<pos, button_state>>
truth == <<dropped, torn, true_pos, true_button>>
vars == <<device, buffer, pointer, pc, x_neg, y_neg, truth>>

Buttons == {"M_LEFT", "M_RIGHT", "M_MIDDLE", "M_NONE"}
Locations == {"check", "flags", "buttons", "x", "y", "clamp", "done", "draw"}

Bit(b, i) == (b \div 2^i) % 2 = 1

TypeOK ==
    /\ sending \in Packets /\ sent \in 0 .. 2
    /\ mouse_cycle \in 0 .. 2 /\ mouse_packet_ready \in BOOLEAN
    /\ mouse_packet \in [0 .. 2 -> Byte]
    /\ pos \in [x : Int, y : Int] /\ button_state \in Buttons
    /\ pc \in Locations /\ x_neg \in BOOLEAN /\ y_neg \in BOOLEAN
    /\ dropped \in BOOLEAN /\ torn \in BOOLEAN
    /\ true_pos \in [x : 0 .. Width - 1, y : 0 .. Height - 1] /\ true_button \in Buttons

-----------------------------------------------------------------------------
(* What a packet means. *)

\* The first of the three button bits that is set.
ButtonOf(flags) ==
    IF Bit(flags, 0) THEN "M_LEFT"
    ELSE IF Bit(flags, 1) THEN "M_RIGHT"
    ELSE IF Bit(flags, 2) THEN "M_MIDDLE" ELSE "M_NONE"

\* mutant: an off-by-one at the far edge of the screen
ClampPastEdge(v, n) == IF v < 0 THEN 0 ELSE IF v > n THEN n ELSE v

\* A coordinate put back on a screen of n pixels.
Clamp(v, n) == IF v < 0 THEN 0 ELSE IF v > n - 1 THEN n - 1 ELSE v

\* mutant: a negative motion taken as it is
NegatedNot(b) == b

\* mouse_packet[i] = 256 - mouse_packet[i], in eight bits.
Negated(b) == (256 - b) % 256

\* The nine-bit two's complement motion of the PS/2 protocol: the reference the
\* arithmetic of process_mouse_packet is held against.
Motion(b, negative) == IF negative THEN b - 256 ELSE b

\* Where the pointer belongs after packet p: x grows right, y grows down, the
\* device counts y up.
Moved(q, p) ==
    [x |-> Clamp(q.x + Motion(p[2], Bit(p[1], 4)), Width),
     y |-> Clamp(q.y - Motion(p[3], Bit(p[1], 5)), Height)]

-----------------------------------------------------------------------------
Init ==
    /\ sending \in Packets /\ sent = 0
    /\ mouse_cycle = 0 /\ mouse_packet_ready = FALSE
    /\ mouse_packet = [i \in 0 .. 2 |-> 0]
    /\ pos = [x |-> 0, y |-> 0] /\ button_state = "M_NONE"
    /\ pc = "check" /\ x_neg = FALSE /\ y_neg = FALSE
    /\ dropped = FALSE /\ torn = FALSE
    /\ true_pos = [x |-> 0, y |-> 0] /\ true_button = "M_NONE"

\* The main loop is between the check of the flag and the end of
\* process_mouse_packet.
Processing == pc \in Locations \ {"check", "draw"}

\* mutant: the cycle goes back to the wrong place
AssembleStuck(byte) ==
    IF mouse_packet_ready
    THEN UNCHANGED buffer
    ELSE /\ mouse_packet' = [mouse_packet EXCEPT ![mouse_cycle] = byte]
         /\ mouse_cycle' = IF mouse_cycle = 2 THEN 1 ELSE mouse_cycle + 1
         /\ mouse_packet_ready' = (mouse_cycle = 2)

\* What handle_mouse stores for the byte: nothing while a packet waits.  The
\* test of bit 3 in case 0 reads "data & (0b1000 == 0)", which is never true,
\* so every byte is taken as a first byte.
Assemble(byte) ==
    IF mouse_packet_ready
    THEN UNCHANGED buffer
    ELSE /\ mouse_packet' = [mouse_packet EXCEPT ![mouse_cycle] = byte]
         /\ mouse_cycle' = (mouse_cycle + 1) % 3
         /\ mouse_packet_ready' = (mouse_cycle = 2)

\* The device's account is not kept up once the two have lost each other.
NoPos == [x |-> 0, y |-> 0]

\* The device sends its next byte and the interrupt handler takes it.
handle_mouse ==
    /\ Assemble(sending[sent + 1])
    /\ dropped' = (dropped \/ mouse_packet_ready)
    /\ torn' = (torn \/ Processing)
    /\ sent' = (sent + 1) % 3
    /\ \/ sent < 2 /\ UNCHANGED <<sending, true_pos, true_button>>
       \/ /\ sent = 2 /\ sending' \in Packets
          /\ true_pos' = IF dropped' \/ torn' THEN NoPos ELSE Moved(true_pos, sending)
          /\ true_button' = IF dropped' \/ torn' THEN "M_NONE" ELSE ButtonOf(sending[1])
    /\ UNCHANGED <<pointer, pc, x_neg, y_neg>>

-----------------------------------------------------------------------------
(* The main loop: process_mouse_packet, then the frame is drawn. *)

\* mutant: the test of the flag inverted
CheckReadyInverted ==
    /\ pc = "check"
    /\ \/ mouse_packet_ready /\ pc' = "draw" /\ UNCHANGED mouse_packet_ready
       \/ ~mouse_packet_ready /\ pc' = "flags" /\ mouse_packet_ready' = FALSE
    /\ UNCHANGED <<device, mouse_cycle, mouse_packet, pointer, x_neg, y_neg, truth>>

\* "if(!mouse_packet_ready) return; mouse_packet_ready = false;"
CheckReady ==
    /\ pc = "check"
    /\ \/ ~mouse_packet_ready /\ pc' = "draw" /\ UNCHANGED mouse_packet_ready
       \/ mouse_packet_ready /\ pc' = "flags" /\ mouse_packet_ready' = FALSE
    /\ UNCHANGED <<device, mouse_cycle, mouse_packet, pointer, x_neg, y_neg, truth>>

ReadSigns ==
    /\ pc = "flags" /\ pc' = "buttons"
    /\ x_neg' = Bit(mouse_packet[0], 4) /\ y_neg' = Bit(mouse_packet[0], 5)
    /\ UNCHANGED <<device, buffer, pointer, truth>>

ReadButtons ==
    /\ pc = "buttons" /\ pc' = "x"
    /\ button_state' = ButtonOf(mouse_packet[0])
    /\ UNCHANGED <<device, buffer, pos, x_neg, y_neg, truth>>

\* A negative motion is negated in place, in the buffer the handler fills.
MoveX ==
    /\ pc = "x" /\ pc' = "y"
    /\ \/ /\ ~x_neg
          /\ pos' = [pos EXCEPT !.x = @ + mouse_packet[1]]
          /\ UNCHANGED mouse_packet
       \/ /\ x_neg
          /\ mouse_packet' = [mouse_packet EXCEPT ![1] = Negated(@)]
          /\ pos' = [pos EXCEPT !.x = @ - Negated(mouse_packet[1])]
    /\ UNCHANGED <<device, mouse_cycle, mouse_packet_ready, button_state, x_neg, y_neg, truth>>

MoveY ==
    /\ pc = "y" /\ pc' = "clamp"
    /\ \/ /\ ~y_neg
          /\ pos' = [pos EXCEPT !.y = @ - mouse_packet[2]]
          /\ UNCHANGED mouse_packet
       \/ /\ y_neg
          /\ mouse_packet' = [mouse_packet EXCEPT ![2] = Negated(@)]
          /\ pos' = [pos EXCEPT !.y = @ + Negated(mouse_packet[2])]
    /\ x_neg' = FALSE /\ y_neg' = FALSE
    /\ UNCHANGED <<device, mouse_cycle, mouse_packet_ready, button_state, truth>>

OnScreen(q) == [x |-> Clamp(q.x, Width), y |-> Clamp(q.y, Height)]

ClampPosition ==
    /\ pc = "clamp" /\ pc' = "done"
    /\ pos' = OnScreen(pos)
    /\ UNCHANGED <<device, buffer, button_state, x_neg, y_neg, truth>>

\* The flag is cleared a second time: a packet that became complete in between
\* is forgotten.
ClearReady ==
    /\ pc = "done" /\ pc' = "draw"
    /\ mouse_packet_ready' = FALSE
    /\ UNCHANGED <<device, mouse_cycle, mouse_packet, pointer, x_neg, y_neg, truth>>

\* The rest of the frame only reads the pointer.
Draw ==
    /\ pc = "draw" /\ pc' = "check"
    /\ UNCHANGED <<device, buffer, pointer, x_neg, y_neg, truth>>

MainLoop ==
    \/ CheckReady \/ ReadSigns \/ ReadButtons \/ MoveX \/ MoveY
    \/ ClampPosition \/ ClearReady \/ Draw

Next == handle_mouse \/ MainLoop

\* Interrupts return, so the main loop goes on between them.
Spec == Init /\ [][Next]_vars /\ WF_vars(MainLoop)

-----------------------------------------------------------------------------
\* As long as no byte was dropped the driver's cycle is the device's: the byte
\* handle_mouse takes as the first of a packet is one, however long the main
\* loop dawdles inside process_mouse_packet and whatever it clears there.
AlignedUnlessDropped == TypeOK /\ (dropped \/ mouse_cycle = sent)

\* The frame is drawn with the pointer on the screen, also after the garbage
\* that torn or misaligned packets make of the coordinates.
DrawnOnScreen == pc = "draw" => pos.x \in 0 .. Width - 1 /\ pos.y \in 0 .. Height - 1

\* When no byte was dropped and none arrived during process_mouse_packet, the
\* pointer and the button the shell draws are those the device reported, packet
\* by packet, with every packet's motion clamped once.
PointerFollowsDevice ==
    \/ dropped \/ torn \/ mouse_packet_ready
    \/ Processing \/ sent # 0
    \/ pos = true_pos /\ button_state = true_button

\* A complete packet does not block the handler for ever: the main loop takes it.
PacketTaken == mouse_packet_ready ~> ~mouse_packet_ready
=============================================================================
