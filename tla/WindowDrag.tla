----------------------------- MODULE WindowDrag -----------------------------
(***************************************************************************)
(* One window between the frames of Shell::start_loop: the focus it gets,  *)
(* how it is dragged by its bar, closed by its button and opened again by  *)
(* the command "window", and what a frame writes to the back buffer.       *)
(*                                                                         *)
(* A frame is one step: what it uses is its own, but for the packet, which *)
(* is MouseInput's.  Between frames mouse->last_pos is mouse->pos, and     *)
(* prev_mouse_state is mouse->button_state.  A part of the back buffer is  *)
(* given by its corners: the columns x0 .. x1 - 1 of the rows y0 .. y1 - 1.*)
(***************************************************************************)
EXTENDS Integers

CONSTANTS
    Width, Height,      \* of the screen
    Strides,            \* how many pixels firmware may put from one row to the next
    Size,               \* of a window's canvas
    Start,              \* where make_window opens it
    MouseXs, MouseYs    \* where the pointer comes to rest

RealSize == [x |-> Size.x + 2, y |-> Size.y + 26]

ASSUME DragAssumption ==
    /\ Width \in Nat /\ Height \in Nat /\ Height >= 40
    /\ Strides \subseteq Nat /\ \A s \in Strides : s >= Width
    /\ Size.x \in Nat /\ Size.x >= 100 /\ Size.y \in Nat
    /\ Start \in [x : 0 .. Width - RealSize.x, y : 0 .. Height - RealSize.y]
    /\ MouseXs \subseteq 0 .. Width - 1 /\ MouseYs \subseteq 0 .. Height - 1

VARIABLES
    open,               \* the window is in the list
    position,           \* of the window
    has_focus,          \* focus_index is the window's index, 1
    last_pos,           \* mouse->last_pos
    prev_mouse_state,   \* M_LEFT, or any of the others
    pps                 \* PixelsPerScanLine of the framebuffer

vars == <<open, position, has_focus, last_pos, prev_mouse_state, pps>>

MouseStates == {"M_LEFT", "M_NONE"}
MousePoints == [x : MouseXs, y : MouseYs]

TypeOK ==
    /\ open \in BOOLEAN /\ has_focus \in BOOLEAN
    /\ position \in [x : 0 .. Width, y : 0 .. Height]
    /\ last_pos \in MousePoints \cup {[x |-> 0, y |-> 0]}
    /\ prev_mouse_state \in MouseStates /\ pps \in Strides

-----------------------------------------------------------------------------
(* Where the pointer is on the window. *)

Within(p, dx, dy, w, h) ==
    /\ p.x >= position.x + dx /\ p.x < position.x + dx + w
    /\ p.y >= position.y + dy /\ p.y < position.y + dy + h

hover_window(p) == Within(p, 0, 0, RealSize.x, RealSize.y)
is_draggable(p) == Within(p, 0, 0, RealSize.x - 62, 24)

\* The button is 58 wide; what takes the click goes on to the right of it by
\* the width of the window.
hover_exit(p) == Within(p, RealSize.x - 60, 2, 58 + RealSize.x, 21)

\* mutant: the edge of the canvas taken for the edge of the window
KeptByCanvas(v, n, real) ==
    IF v + real - 26 > n THEN n - real + 26 ELSE IF v < 0 THEN 0 ELSE v

\* A coordinate of a window of length real put back on a screen of n pixels.
Kept(v, n, real) ==
    LET far == IF v + real > n THEN n - real ELSE v
    IN  IF far < 0 THEN 0 ELSE far

\* mutant: the device counts y up
DeltaUp(to, from) == [x |-> to.x - from.x, y |-> from.y - to.y]

Delta(to, from) == [x |-> to.x - from.x, y |-> to.y - from.y]

-----------------------------------------------------------------------------
Init ==
    /\ open = FALSE /\ position = Start /\ has_focus = FALSE
    /\ last_pos = [x |-> 0, y |-> 0] /\ prev_mouse_state = "M_NONE"
    /\ pps \in Strides

\* The command "window".  focus_index is what it was: a window that is opened
\* after one with the focus was closed has it at once.
make_window ==
    /\ ~open
    /\ open' = TRUE /\ position' = Start
    /\ UNCHANGED <<has_focus, last_pos, prev_mouse_state, pps>>

Fresh(state) == state = "M_LEFT" /\ prev_mouse_state # state

\* The focus during a frame: a fresh click on the window gives it.
Focused(state) == has_focus \/ (open /\ Fresh(state) /\ hover_window(last_pos))

CloseClicked(state) == open /\ Fresh(state) /\ hover_exit(last_pos) /\ Focused(state)

Dragged(state) == open /\ state = "M_LEFT" /\ is_draggable(last_pos) /\ Focused(state)

\* What every frame does: handle tests where the pointer was the frame before.
Frame(pos, state) ==
    /\ has_focus' = Focused(state)
    /\ last_pos' = pos /\ prev_mouse_state' = state
    /\ UNCHANGED pps

CloseFrame(pos, state) ==
    /\ CloseClicked(state)
    /\ open' = FALSE
    /\ UNCHANGED position
    /\ Frame(pos, state)

DragFrame(pos, state) ==
    /\ ~CloseClicked(state) /\ Dragged(state)
    /\ LET d == Delta(pos, last_pos)
       IN  position' = [x |-> Kept(position.x + d.x, Width, RealSize.x),
                        y |-> Kept(position.y + d.y, Height, RealSize.y)]
    /\ UNCHANGED open
    /\ Frame(pos, state)

StillFrame(pos, state) ==
    /\ ~CloseClicked(state) /\ ~Dragged(state)
    /\ UNCHANGED <<open, position>>
    /\ Frame(pos, state)

Next ==
    \/ make_window
    \/ \E pos \in MousePoints, state \in MouseStates :
          CloseFrame(pos, state) \/ DragFrame(pos, state) \/ StillFrame(pos, state)

Spec == Init /\ [][Next]_vars

-----------------------------------------------------------------------------
(* What a frame writes. *)

Area(x, y, w, h) == [x0 |-> x, y0 |-> y, x1 |-> x + w, y1 |-> y + h]

\* draw_rect paints a rectangle only if both its corners lie on the screen or
\* on its far edges.
draw_rect(a) ==
    IF a.x0 \in 0 .. Width /\ a.x1 \in 0 .. Width /\ a.y0 \in 0 .. Height /\ a.y1 \in 0 .. Height
    THEN {a} ELSE {}

Least(v, n) == IF v < n THEN v ELSE n

\* Glyphs are painted pixel by pixel; draw_pixel takes columns up to Width and
\* rows up to Height.
Glyphs(a) == {[a EXCEPT !.x1 = Least(@, Width + 1), !.y1 = Least(@, Height + 1)]}

\* Window::render: border, top bar, button, its X, canvas area, title, and the
\* canvas, which is copied row by row without a test.
WindowPaint ==
    LET x == position.x
        y == position.y
    IN  draw_rect(Area(x, y, RealSize.x, RealSize.y))
        \cup draw_rect(Area(x + 1, y + 1, RealSize.x - 2, 23))
        \cup draw_rect(Area(x + RealSize.x - 60, y + 2, 58, 21))
        \cup Glyphs(Area(x + RealSize.x - 34, y + 5, 8, 16))
        \cup draw_rect(Area(x + 1, y + 25, RealSize.x - 2, RealSize.y - 26))
        \cup Glyphs(Area(x + 5, y + 5, 6 * 8, 16))
        \cup {Area(x + 1, y + 25, Size.x, Size.y)}

\* draw_mouse_cursor leaves out columns from Width on, and rows from pps on, before
\* draw_pixel leaves out those behind Height.
draw_mouse_cursor(p) ==
    [Area(p.x, p.y, 12, 19) EXCEPT !.x1 = Least(@, Width), !.y1 = Least(Least(@, pps), Height + 1)]

\* The toolbar, the shell and the window.
Paint ==
    {Area(0, 0, Width, 40), Area(0, 40, Width, Height - 40)}
        \cup (IF open THEN WindowPaint ELSE {})

\* Nothing is written, as of a pointer whose rows draw_mouse_cursor takes for
\* columns, on a screen higher than wide.
Empty(a) == a.x1 <= a.x0 \/ a.y1 <= a.y0

Inside(a) == Empty(a) \/ (a.x0 >= 0 /\ a.x1 <= Width /\ a.y0 >= 0 /\ a.y1 <= Height)

\* The back buffer is a block of Width * Height pixels (graphics.cpp:22), in which a
\* row begins pps pixels behind the one before.
InBackbuffer(a) == Empty(a) \/ (a.x0 >= 0 /\ a.y0 >= 0 /\ (a.y1 - 1) * pps + a.x1 <= Width * Height)

\* Wherever the window is dragged, a frame writes no part of toolbar, shell or window
\* past an edge of the screen, though the canvas is copied without a test, and none
\* behind the back buffer if rows follow each other without a gap (pps = Width; with
\* a gap the lowest rows are written behind it).  The pointer keeps to the columns,
\* and to the rows but for the one behind the last, which draw_pixel lets pass.
PaintStaysOnScreen ==
    /\ TypeOK
    /\ \A a \in Paint : Inside(a) /\ (pps = Width => InBackbuffer(a))
    /\ LET a == draw_mouse_cursor(last_pos)
       IN  Inside([a EXCEPT !.y1 = Least(@, Height)]) /\ a.y1 <= Height + 1

\* Held by its bar.
Held == open /\ has_focus /\ prev_mouse_state = "M_LEFT" /\ is_draggable(last_pos)

\* No edge of the screen stops a window that moves by d.
Free(d) ==
    /\ position.x + d.x \in 0 .. Width - RealSize.x
    /\ position.y + d.y \in 0 .. Height - RealSize.y

\* A window that is held stays held and follows the pointer as long as the button
\* is down and no edge stops it, however far the pointer goes in a frame, although
\* handle looks at where the pointer was the frame before.
HeldWindowFollows ==
    [][LET d == [x |-> last_pos'.x - last_pos.x, y |-> last_pos'.y - last_pos.y]
       IN  Held /\ prev_mouse_state' = "M_LEFT" /\ Free(d) =>
               /\ Held'
               /\ position' = [x |-> position.x + d.x, y |-> position.y + d.y]]_vars
=============================================================================
