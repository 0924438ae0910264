---------------------------- MODULE WindowProofs ----------------------------
(***************************************************************************)
(* Proofs about the window manager.                                        *)
(*                                                                         *)
(* WindowDrag, for every screen a window fits on, every size of its canvas *)
(* and every place the pointer may come to rest.                           *)
(*                                                                         *)
(* WindowList, for every number of windows.  The list is followed by a     *)
(* function c: the nodes that next leads to from the head are c[0], c[1]   *)
(* .. c[L].  The walks of the code, which WindowList counts by recursion,  *)
(* are shown to go along c, and each operation is shown to turn one such   *)
(* list into another.                                                      *)
(*                                                                         *)
(* Blocks, for every memory, length and place.  A loop of memcopy is       *)
(* unfolded into the memories A[0], A[1] .. A[k] that it goes through, and *)
(* after j turns of n bytes A[j] is one copy of j * n bytes.               *)
(*                                                                         *)
(* Numbers, for every number: the values that to_string divides by ten are *)
(* followed from the last to the first, which strtoi, unfolded in the same *)
(* way, puts together again.                                               *)
(***************************************************************************)
EXTENDS MCWindowDrag, WindowList, FiniteSetTheorems, TLAPS

-----------------------------------------------------------------------------
(* WindowDrag: the operators. *)

\* A window that fits on n pixels is put back on them, and one that is there
\* already is left where it is.
LEMMA KeptOnScreen ==
  ASSUME NEW v \in Int, NEW n \in Nat, NEW real \in 0 .. n
  PROVE  /\ Kept(v, n, real) \in 0 .. n - real
         /\ v \in 0 .. n - real => Kept(v, n, real) = v
  BY DEF Kept

\* The window fits on the screen: its place at the start is on it.
LEMMA WindowFits ==
  /\ RealSize.x \in 102 .. Width /\ RealSize.y \in 26 .. Height
  /\ RealSize.x = Size.x + 2 /\ RealSize.y = Size.y + 26
<1>1. RealSize.x = Size.x + 2 /\ RealSize.y = Size.y + 26
  BY DEF RealSize
<1>2. Start.x \in 0 .. Width - RealSize.x /\ Start.y \in 0 .. Height - RealSize.y
  BY DragAssumption
<1> QED
  BY <1>1, <1>2, DragAssumption

\* The points the pointer rests on are pixels of the screen.
LEMMA PointsOnScreen ==
  ASSUME NEW p \in MousePoints \cup {[x |-> 0, y |-> 0]}
  PROVE  p.x \in 0 .. Width /\ p.y \in 0 .. Height
<1>1. CASE p \in MousePoints
  <2>1. p.x \in MouseXs /\ p.y \in MouseYs
    BY <1>1 DEF MousePoints
  <2>2. p.x \in 0 .. Width - 1 /\ p.y \in 0 .. Height - 1
    BY <2>1, DragAssumption
  <2>3. Width \in Nat /\ Height \in Nat
    BY DragAssumption
  <2> QED
    BY <2>2, <2>3
<1>2. CASE p = [x |-> 0, y |-> 0]
  BY <1>2, DragAssumption
<1> QED
  BY <1>1, <1>2

-----------------------------------------------------------------------------
(***************************************************************************)
(* Its invariant.  That every part painted lies on the screen follows from *)
(* where the window may be, which TypeOK does not say.                     *)
(***************************************************************************)
Flags == open \in BOOLEAN /\ has_focus \in BOOLEAN

OnScreen == position \in [x : 0 .. Width - RealSize.x, y : 0 .. Height - RealSize.y]

Pointer ==
    /\ last_pos \in MousePoints \cup {[x |-> 0, y |-> 0]}
    /\ prev_mouse_state \in MouseStates /\ pps \in Strides

IInv == Flags /\ OnScreen /\ Pointer

\* The invariant holds before any window is open.
LEMMA InvInit == Init => IInv
<1> SUFFICES ASSUME Init PROVE IInv
  OBVIOUS
<1>1. Flags
  BY Zenon DEF Init, Flags
<1>2. OnScreen
  BY DragAssumption DEF Init, OnScreen
<1>3. Pointer
  BY DEF Init, Pointer, MouseStates
<1> QED
  BY <1>1, <1>2, <1>3 DEF IInv

\* Every step keeps it: only a drag moves the window, and its place is put back
\* on the screen before the frame ends.
LEMMA InvNext == IInv /\ [Next]_vars => IInv'
<1> SUFFICES ASSUME IInv, [Next]_vars PROVE IInv'
  OBVIOUS
<1>1. CASE make_window
  <2>1. Flags'
    BY <1>1, Zenon DEF IInv, Flags, make_window
  <2>2. OnScreen' /\ Pointer'
    BY <1>1, DragAssumption DEF IInv, OnScreen, Pointer, make_window
  <2> QED
    BY <2>1, <2>2 DEF IInv
<1>2. ASSUME NEW pos \in MousePoints, NEW state \in MouseStates,
             CloseFrame(pos, state) \/ DragFrame(pos, state) \/ StillFrame(pos, state)
      PROVE  IInv'
  <2>1. Focused(state) \in BOOLEAN
    BY Zenon DEF IInv, Flags, Focused
  <2>2. Flags'
    BY <1>2, <2>1, Zenon DEF IInv, Flags, CloseFrame, DragFrame, StillFrame, Frame
  <2>3. Pointer'
    BY <1>2 DEF IInv, Pointer, CloseFrame, DragFrame, StillFrame, Frame
  <2>4. OnScreen'
    <3>1. CASE UNCHANGED position
      BY <3>1 DEF IInv, OnScreen
    <3>2. CASE DragFrame(pos, state)
      <4> DEFINE d == Delta(pos, last_pos)
      <4>1. d.x \in Int /\ d.y \in Int
        BY PointsOnScreen DEF IInv, Pointer, Delta
      <4>2. position.x + d.x \in Int /\ position.y + d.y \in Int
        <5>1. position.x \in Int /\ position.y \in Int
          BY DEF IInv, OnScreen
        <5> QED
          BY <4>1, <5>1
      <4>3. /\ Kept(position.x + d.x, Width, RealSize.x) \in 0 .. Width - RealSize.x
            /\ Kept(position.y + d.y, Height, RealSize.y) \in 0 .. Height - RealSize.y
        <5>1. /\ Width \in Nat /\ RealSize.x \in 0 .. Width
              /\ Height \in Nat /\ RealSize.y \in 0 .. Height
          BY WindowFits, DragAssumption
        <5> HIDE DEF d
        <5> QED
          BY <4>2, <5>1, KeptOnScreen
      <4> QED
        BY <3>2, <4>3 DEF DragFrame, OnScreen
    <3> QED
      BY <1>2, <3>1, <3>2 DEF CloseFrame, StillFrame
  <2> QED
    BY <2>2, <2>3, <2>4 DEF IInv
<1>3. CASE UNCHANGED vars
  BY <1>3 DEF vars, IInv, Flags, OnScreen, Pointer
<1> QED
  BY <1>1, <1>2, <1>3 DEF Next

\* The window never leaves the screen.
THEOREM Invariance == Spec => []IInv
  BY InvInit, InvNext, PTL DEF Spec

-----------------------------------------------------------------------------
(* What a frame writes. *)

\* draw_rect paints on the screen or nothing.
LEMMA RectInside ==
  ASSUME NEW a, NEW r \in draw_rect(a)
  PROVE  Inside(r)
  BY DragAssumption DEF draw_rect, Inside, Empty

\* Glyphs whose place is on the screen are painted on it.
LEMMA GlyphsInside ==
  ASSUME NEW x \in Int, NEW y \in Int, NEW w \in Nat, NEW h \in Nat,
         x >= 0, x + w <= Width, y >= 0, y + h <= Height,
         NEW g \in Glyphs(Area(x, y, w, h))
  PROVE  Inside(g)
<1>1. g.x0 = x /\ g.y0 = y /\ g.x1 = Least(x + w, Width + 1) /\ g.y1 = Least(y + h, Height + 1)
  BY DEF Glyphs, Area
<1>2. g.x1 = x + w /\ g.y1 = y + h
  BY <1>1, DragAssumption DEF Least
<1> QED
  BY <1>1, <1>2 DEF Inside

\* Every part of a window on the screen is painted on the screen, its canvas
\* and its title and the X of its button too, which no test guards.
LEMMA WindowPaintInside ==
  ASSUME OnScreen, NEW a \in WindowPaint
  PROVE  Inside(a)
<1> DEFINE x == position.x
           y == position.y
<1>1. /\ x \in 0 .. Width - RealSize.x /\ y \in 0 .. Height - RealSize.y
      /\ RealSize.x = Size.x + 2 /\ RealSize.y = Size.y + 26
      /\ Size.x \in Nat /\ Size.x >= 100 /\ Size.y \in Nat /\ Width \in Nat /\ Height \in Nat
  BY WindowFits, DragAssumption DEF OnScreen
<1> HIDE DEF x, y
<1>2. ASSUME NEW g \in Glyphs(Area(x + RealSize.x - 34, y + 5, 8, 16)) PROVE Inside(g)
  <2>1. /\ x + RealSize.x - 34 \in Int /\ y + 5 \in Int
        /\ x + RealSize.x - 34 >= 0 /\ x + RealSize.x - 34 + 8 <= Width
        /\ y + 5 >= 0 /\ y + 5 + 16 <= Height
    BY <1>1
  <2> QED
    BY <1>1, <1>2, <2>1, GlyphsInside
<1>3. ASSUME NEW g \in Glyphs(Area(x + 5, y + 5, 6 * 8, 16)) PROVE Inside(g)
  <2>1. x + 5 >= 0 /\ x + 5 + 6 * 8 <= Width /\ y + 5 >= 0 /\ y + 5 + 16 <= Height
    BY <1>1
  <2> QED
    BY <1>1, <1>3, <2>1, GlyphsInside
<1>4. Inside(Area(x + 1, y + 25, Size.x, Size.y))
  BY <1>1 DEF Area, Inside
<1> QED
  BY <1>2, <1>3, <1>4, RectInside DEF WindowPaint, x, y

\* The corners of what is painted are numbers.
LEMMA PaintTyped ==
  ASSUME OnScreen, NEW a \in Paint
  PROVE  a.x0 \in Int /\ a.x1 \in Int /\ a.y0 \in Int /\ a.y1 \in Int
<1> DEFINE x == position.x
           y == position.y
           Whole(r) == r.x0 \in Int /\ r.x1 \in Int /\ r.y0 \in Int /\ r.y1 \in Int
<1>1. /\ x \in Int /\ y \in Int /\ RealSize.x \in Int /\ RealSize.y \in Int
      /\ Size.x \in Int /\ Size.y \in Int /\ Width \in Nat /\ Height \in Nat
  BY WindowFits, DragAssumption DEF OnScreen
<1> HIDE DEF x, y
<1>2. ASSUME NEW r, NEW s \in draw_rect(r) PROVE Whole(s)
  BY <1>1, <1>2 DEF draw_rect
<1>3. ASSUME NEW u \in Int, NEW v \in Int, NEW w \in Nat, NEW h \in Nat,
             NEW g \in Glyphs(Area(u, v, w, h)) PROVE Whole(g)
  <2>1. /\ g.x0 = u /\ g.y0 = v
        /\ g.x1 = Least(u + w, Width + 1) /\ g.y1 = Least(v + h, Height + 1)
    BY <1>3 DEF Glyphs, Area
  <2>2. u + w \in Int /\ v + h \in Int /\ Width + 1 \in Int /\ Height + 1 \in Int
    BY <1>1
  <2>3. g.x1 \in Int /\ g.y1 \in Int
    BY <2>1, <2>2 DEF Least
  <2> QED
    BY <2>1, <2>3
<1>4. Whole(Area(0, 0, Width, 40)) /\ Whole(Area(0, 40, Width, Height - 40))
  BY <1>1 DEF Area
<1>5. Whole(Area(x + 1, y + 25, Size.x, Size.y))
  BY <1>1 DEF Area
<1>6. ASSUME NEW g \in Glyphs(Area(x + RealSize.x - 34, y + 5, 8, 16)) PROVE Whole(g)
  <2>1. x + RealSize.x - 34 \in Int /\ y + 5 \in Int
    BY <1>1
  <2> QED
    BY <1>3, <1>6, <2>1
<1>7. ASSUME NEW g \in Glyphs(Area(x + 5, y + 5, 6 * 8, 16)) PROVE Whole(g)
  <2>1. x + 5 \in Int /\ y + 5 \in Int
    BY <1>1
  <2> QED
    BY <1>3, <1>7, <2>1
<1> HIDE DEF Whole
<1>8. a \in WindowPaint => Whole(a)
  BY <1>2, <1>5, <1>6, <1>7 DEF WindowPaint, x, y
<1>9. Whole(a)
  BY <1>4, <1>8 DEF Paint
<1> QED
  BY <1>9 DEF Whole

\* What is on the screen is in the back buffer, if rows follow each other.
LEMMA InsideInBackbuffer ==
  ASSUME NEW a, Inside(a), a.x1 \in Int, a.y1 \in Int, pps = Width
  PROVE  InBackbuffer(a)
<1> SUFFICES ASSUME ~Empty(a) PROVE (a.y1 - 1) * pps + a.x1 <= Width * Height
  BY DEF InBackbuffer, Inside
<1>1. PICK w \in Nat, h \in Nat, x \in Int, y \in Int :
          w = Width /\ h = Height /\ x = a.x1 /\ y = a.y1
  BY DragAssumption
<1>2. x <= w /\ y <= h
  BY <1>1 DEF Inside
<1>3. (y - 1) * w + x <= w * h
  <2>1. h - y >= 0 /\ w - x >= 0
    BY <1>1, <1>2
  <2>2. (h - y) * w >= 0
    BY <1>1, <2>1
  <2>3. (y - 1) * w + x = w * h - (h - y) * w - (w - x)
    BY <1>1
  <2> QED
    BY <1>1, <2>1, <2>2, <2>3
<1> QED
  BY <1>1, <1>3

\* The frame is written on the screen wherever the window has been dragged to and
\* wherever the pointer is, and in the back buffer if rows follow each other.
THEOREM PaintHolds == Spec => []PaintStaysOnScreen
<1>1. IInv => PaintStaysOnScreen
  <2> SUFFICES ASSUME IInv PROVE PaintStaysOnScreen
    OBVIOUS
  <2>1. TypeOK
    <3>1. position \in [x : 0 .. Width, y : 0 .. Height]
      BY WindowFits, DragAssumption DEF IInv, OnScreen
    <3> QED
      BY <3>1 DEF IInv, Flags, Pointer, TypeOK
  <2>2. ASSUME NEW a \in Paint PROVE Inside(a)
    <3>1. Inside(Area(0, 0, Width, 40)) /\ Inside(Area(0, 40, Width, Height - 40))
      BY DragAssumption DEF Area, Inside
    <3> QED
      BY <2>2, <3>1, WindowPaintInside DEF Paint, IInv
  <2>3. LET a == draw_mouse_cursor(last_pos)
        IN  Inside([a EXCEPT !.y1 = Least(@, Height)]) /\ a.y1 <= Height + 1
    <3>1. last_pos.x \in 0 .. Width /\ last_pos.y \in 0 .. Height
      BY PointsOnScreen DEF IInv, Pointer
    <3> QED
      BY <3>1, DragAssumption DEF draw_mouse_cursor, Area, Least, Inside, IInv, Pointer
  <2>4. ASSUME NEW a \in Paint, pps = Width PROVE InBackbuffer(a)
    BY <2>2, <2>4, InsideInBackbuffer, PaintTyped DEF IInv
  <2> QED
    BY <2>1, <2>2, <2>3, <2>4 DEF PaintStaysOnScreen
<1> QED
  BY <1>1, Invariance, PTL

-----------------------------------------------------------------------------
(* How it is dragged. *)

\* A window held by its bar follows the pointer, whatever way it jumps, and is
\* still held by the same point of the bar when the frame is over.
THEOREM HeldHolds == Spec => HeldWindowFollows
<1> DEFINE d == [x |-> last_pos'.x - last_pos.x, y |-> last_pos'.y - last_pos.y]
           Follows == Held /\ prev_mouse_state' = "M_LEFT" /\ Free(d) =>
                         /\ Held'
                         /\ position' = [x |-> position.x + d.x, y |-> position.y + d.y]
<1>1. IInv /\ IInv' /\ [Next]_vars => [Follows]_vars
  <2> SUFFICES ASSUME IInv, IInv', Next, Held, prev_mouse_state' = "M_LEFT", Free(d)
               PROVE  /\ Held'
                      /\ position' = [x |-> position.x + d.x, y |-> position.y + d.y]
    OBVIOUS
  <2>1. PICK pos \in MousePoints, state \in MouseStates :
            CloseFrame(pos, state) \/ DragFrame(pos, state) \/ StillFrame(pos, state)
    BY DEF Next, make_window, Held
  <2>2. last_pos' = pos /\ state = "M_LEFT"
    BY <2>1 DEF CloseFrame, DragFrame, StillFrame, Frame
  <2>3. ~CloseClicked(state) /\ Dragged(state)
    BY <2>2 DEF CloseClicked, Dragged, Fresh, Focused, Held
  <2>4. DragFrame(pos, state) /\ has_focus' /\ open'
    BY <2>1, <2>2, <2>3 DEF CloseFrame, DragFrame, StillFrame, Frame, Held, Focused
  <2>5. d = Delta(pos, last_pos)
    BY <2>2 DEF Delta
  <2>6. /\ position.x \in Int /\ position.y \in Int /\ last_pos.x \in Int /\ last_pos.y \in Int
        /\ pos.x \in Int /\ pos.y \in Int /\ RealSize.x \in Int
    BY PointsOnScreen, WindowFits DEF IInv, OnScreen, Pointer
  <2>7. d.x = pos.x - last_pos.x /\ d.y = pos.y - last_pos.y
    BY <2>2
  <2>8. position' = [x |-> position.x + d.x, y |-> position.y + d.y]
    <3>1. /\ position.x + d.x \in 0 .. Width - RealSize.x
          /\ position.y + d.y \in 0 .. Height - RealSize.y
      BY DEF Free
    <3>2. /\ Kept(position.x + d.x, Width, RealSize.x) = position.x + d.x
          /\ Kept(position.y + d.y, Height, RealSize.y) = position.y + d.y
      <4>1. /\ Width \in Nat /\ RealSize.x \in 0 .. Width
            /\ Height \in Nat /\ RealSize.y \in 0 .. Height
        BY WindowFits, DragAssumption
      <4>2. position.x + d.x \in Int /\ position.y + d.y \in Int
        BY <2>6, <2>7
      <4> HIDE DEF d
      <4> QED
        BY <3>1, <4>1, <4>2, KeptOnScreen
    <3> QED
      BY <2>4, <2>5, <3>2 DEF DragFrame
  <2>9. /\ position'.x = position.x + pos.x - last_pos.x
        /\ position'.y = position.y + pos.y - last_pos.y
    BY <2>6, <2>7, <2>8
  <2>10. is_draggable(last_pos)'
    BY <2>2, <2>6, <2>9 DEF Held, is_draggable, Within
  <2> QED
    BY <2>4, <2>8, <2>10 DEF Held
<1>2. Spec => [][Follows]_vars
  BY <1>1, Invariance, PTL DEF Spec
<1> QED
  BY <1>2 DEF HeldWindowFollows

-----------------------------------------------------------------------------
(* WindowList: walks. *)

\* A set of numbers has a least one.
LEMMA LeastNumber ==
  ASSUME NEW S \in SUBSET Nat, S # {}
  PROVE  \E m \in S : \A k \in S : m <= k
<1>1. PICK s \in S : TRUE
  OBVIOUS
<1> DEFINE Below == {k \in S : k <= s}
           T == {0 .. k : k \in Below}
           R == StrictSubsetOrdering(0 .. s)
<1>2. s \in Nat /\ s \in Below /\ \A k \in Below : k \in Nat /\ k <= s
  BY <1>1
<1>3. FiniteSubsetsOf(0 .. s) = SUBSET (0 .. s)
  <2>1. IsFiniteSet(0 .. s)
    BY <1>2, FS_Interval
  <2> QED
    BY <2>1, FS_FiniteSubsetsOfFinite
<1>4. IsWellFoundedOn(R, SUBSET (0 .. s))
  BY <1>3, FS_StrictSubsetOrderingWellFounded
<1>5. T \subseteq SUBSET (0 .. s) /\ T # {}
  BY <1>2
<1>6. PICK x \in T : \A y \in T : ~ (<<y, x>> \in R)
  BY <1>4, <1>5, WFMin
<1>7. PICK m \in Below : x = 0 .. m
  BY <1>6
<1>8. \A k \in Below : m <= k
  <2> SUFFICES ASSUME NEW k \in Below, k < m PROVE FALSE
    BY <1>2
  <2>1. <<0 .. k, 0 .. m>> \in R
    BY <1>2 DEF StrictSubsetOrdering
  <2> QED
    BY <1>6, <1>7, <2>1
<1> QED
  BY <1>2, <1>7, <1>8

\* Induction, for a set of numbers.
LEMMA AllNumbers ==
  ASSUME NEW P \in SUBSET Nat, 0 \in P, \A n \in P : n + 1 \in P
  PROVE  \A n \in Nat : n \in P
<1> SUFFICES ASSUME Nat \ P # {} PROVE FALSE
  OBVIOUS
<1>1. PICK m \in Nat \ P : \A k \in Nat \ P : m <= k
  <2>1. Nat \ P \in SUBSET Nat
    OBVIOUS
  <2> QED
    BY <2>1, LeastNumber
<1>2. m - 1 \in Nat /\ ~(m <= m - 1)
  BY <1>1
<1>3. m - 1 \in P
  BY <1>1, <1>2
<1> QED
  BY <1>1, <1>3

\* Step follows next, one node after the other: the recursion of its definition has
\* a solution.
LEMMA Steps ==
  ASSUME NEW n, NEW a
  PROVE  /\ Step(n, a, 0) = a
         /\ \A k \in 0 .. MaxWindows : Step(n, a, k + 1) = Next1(n, Step(n, a, k))
<1> DEFINE Solves(f, m) == f = [i \in 0 .. m |-> IF i = 0 THEN a ELSE Next1(n, f[i - 1])]
           Unsolved == {m \in Nat : \A f : ~Solves(f, m)}
<1>1. MaxWindows \in Nat
  BY WindowAssumption
<1>2. Unsolved = {}
  <2> SUFFICES ASSUME Unsolved # {} PROVE FALSE
    OBVIOUS
  <2>1. PICK m \in Unsolved : \A k \in Unsolved : m <= k
    BY LeastNumber
  <2>2. m \in Nat /\ \A f : ~Solves(f, m)
    OBVIOUS
  <2>3. CASE m = 0
    <3> DEFINE f == [i \in 0 .. 0 |-> a]
    <3>1. Solves(f, 0)
      OBVIOUS
    <3> QED
      BY <2>2, <2>3, <3>1
  <2>4. CASE m # 0
    <3>1. m - 1 \in Nat /\ m - 1 \notin Unsolved
      <4> HIDE DEF Unsolved
      <4>1. m - 1 \in Nat /\ ~(m <= m - 1)
        BY <2>2, <2>4
      <4> QED
        BY <2>1, <4>1
    <3>2. PICK f : Solves(f, m - 1)
      BY <3>1
    <3> DEFINE g == [i \in 0 .. m |-> IF i = m THEN Next1(n, f[m - 1]) ELSE f[i]]
    <3>3. ASSUME NEW i \in 0 .. m
          PROVE  g[i] = IF i = 0 THEN a ELSE Next1(n, g[i - 1])
      <4>1. CASE i = m
        BY <2>2, <2>4, <4>1
      <4>2. CASE i \in 0 .. m - 1
        <5>1. f[i] = IF i = 0 THEN a ELSE Next1(n, f[i - 1])
          BY <3>2, <4>2
        <5>2. g[i] = f[i] /\ (i # 0 => g[i - 1] = f[i - 1])
          BY <2>2, <4>2
        <5> QED
          BY <5>1, <5>2
      <4> QED
        BY <2>2, <4>1, <4>2
    <3>4. Solves(g, m)
      <4> DEFINE h == [i \in 0 .. m |-> IF i = 0 THEN a ELSE Next1(n, g[i - 1])]
      <4>1. \A i \in 0 .. m : g[i] = h[i]
        BY <3>3
      <4>2. g = h
        BY <4>1
      <4> QED
        BY <4>2
    <3> QED
      BY <2>2, <3>4
  <2> QED
    BY <2>3, <2>4
<1>3. MaxWindows + 1 \in Nat /\ MaxWindows + 1 \notin Unsolved
  <2> HIDE DEF Unsolved
  <2> QED
    BY <1>1, <1>2
<1>4. \E f : Solves(f, MaxWindows + 1)
  BY <1>3
<1> DEFINE At == CHOOSE f : Solves(f, MaxWindows + 1)
<1>5. Solves(At, MaxWindows + 1)
  BY <1>4, Zenon
<1>6. \A k : Step(n, a, k) = At[k]
  BY DEF Step
<1> HIDE DEF At
<1>7. \A i \in 0 .. MaxWindows + 1 : At[i] = IF i = 0 THEN a ELSE Next1(n, At[i - 1])
  BY <1>5
<1>8. At[0] = a /\ \A k \in 0 .. MaxWindows : At[k + 1] = Next1(n, At[k])
  BY <1>1, <1>7
<1> QED
  BY <1>6, <1>8

\* A path of n nodes of links: w[0], w[1] .. w[K], and Null behind it.
Path(n, w, K) ==
    /\ K \in 0 .. MaxWindows
    /\ \A i \in 0 .. K : w[i] # Null
    /\ \A i \in 0 .. K - 1 : n[w[i]].next = w[i + 1]
    /\ n[w[K]].next = Null

\* Step goes along the path.
LEMMA StepsOnPath ==
  ASSUME NEW n, NEW w, NEW K, Path(n, w, K)
  PROVE  \A k \in 0 .. MaxWindows + 1 : Step(n, w[0], k) = IF k <= K THEN w[k] ELSE Null
<1> DEFINE Strays == {k \in 0 .. MaxWindows + 1 : Step(n, w[0], k) # IF k <= K THEN w[k] ELSE Null}
<1>1. MaxWindows \in Nat /\ K \in 0 .. MaxWindows /\ K \in Nat
  BY WindowAssumption DEF Path
<1> SUFFICES ASSUME Strays # {} PROVE FALSE
  OBVIOUS
<1>2. PICK m \in Strays : \A k \in Strays : m <= k
  <2>1. Strays \in SUBSET Nat
    BY <1>1
  <2> HIDE DEF Strays
  <2> QED
    BY <2>1, LeastNumber
<1>3. m \in 0 .. MaxWindows + 1 /\ Step(n, w[0], m) # IF m <= K THEN w[m] ELSE Null
  OBVIOUS
<1>4. m # 0
  BY <1>1, <1>3, Steps
<1>5. m - 1 \in 0 .. MaxWindows /\ m - 1 \notin Strays
  <2> HIDE DEF Strays
  <2>1. m - 1 \in 0 .. MaxWindows /\ ~(m <= m - 1)
    BY <1>1, <1>3, <1>4
  <2> QED
    BY <1>2, <2>1
<1>6. Step(n, w[0], m - 1) = IF m - 1 <= K THEN w[m - 1] ELSE Null
  BY <1>1, <1>5
<1> HIDE DEF Strays
<1>7. Step(n, w[0], m) = Next1(n, Step(n, w[0], m - 1))
  <2>1. (m - 1) + 1 = m
    BY <1>3
  <2>2. Step(n, w[0], (m - 1) + 1) = Next1(n, Step(n, w[0], m - 1))
    BY <1>5, Steps
  <2> QED
    BY <2>1, <2>2
<1>8. CASE m <= K
  <2>1. m - 1 \in 0 .. K - 1 /\ m - 1 \in 0 .. K /\ m - 1 <= K /\ (m - 1) + 1 = m
    BY <1>1, <1>3, <1>4, <1>8
  <2>2. Step(n, w[0], m - 1) = w[m - 1] /\ w[m - 1] # Null /\ n[w[m - 1]].next = w[m]
    BY <1>6, <2>1 DEF Path
  <2> QED
    BY <1>3, <1>7, <1>8, <2>2 DEF Next1
<1>9. CASE m = K + 1
  <2>1. m - 1 = K /\ ~(m <= K) /\ K \in 0 .. K /\ K <= K
    BY <1>1, <1>3, <1>9
  <2>2. Step(n, w[0], m - 1) = w[K] /\ w[K] # Null /\ n[w[K]].next = Null
    BY <1>6, <2>1 DEF Path
  <2> QED
    BY <1>3, <1>7, <2>1, <2>2 DEF Next1
<1>10. CASE m > K + 1
  <2>1. ~(m - 1 <= K) /\ ~(m <= K)
    BY <1>1, <1>3, <1>10
  <2> QED
    BY <1>3, <1>6, <1>7, <2>1 DEF Next1
<1> QED
  BY <1>1, <1>3, <1>8, <1>9, <1>10

\* EndOf finds where a path ends.
LEMMA EndOnPath ==
  ASSUME NEW n, NEW w, NEW K, Path(n, w, K)
  PROVE  EndOf(n, w[0]) = w[K]
<1> DEFINE ends == {k \in 0 .. MaxWindows : Step(n, w[0], k) # Null /\ Step(n, w[0], k + 1) = Null}
<1>1. MaxWindows \in Nat /\ K \in 0 .. MaxWindows /\ \A i \in 0 .. K : w[i] # Null
  BY WindowAssumption DEF Path
<1>2. \A k \in 0 .. MaxWindows :
                                /\ k \in 0 .. MaxWindows + 1 /\ k + 1 \in 0 .. MaxWindows + 1
                                /\ Step(n, w[0], k) # Null <=> k <= K
                                /\ Step(n, w[0], k + 1) = Null <=> ~(k + 1 <= K)
  <2> SUFFICES ASSUME NEW k \in 0 .. MaxWindows
               PROVE  /\ k \in 0 .. MaxWindows + 1 /\ k + 1 \in 0 .. MaxWindows + 1
                      /\ Step(n, w[0], k) # Null <=> k <= K
                      /\ Step(n, w[0], k + 1) = Null <=> ~(k + 1 <= K)
    OBVIOUS
  <2>1. k \in 0 .. MaxWindows + 1 /\ k + 1 \in 0 .. MaxWindows + 1 /\ k \in Nat
    BY <1>1
  <2>2. /\ Step(n, w[0], k) = IF k <= K THEN w[k] ELSE Null
        /\ Step(n, w[0], k + 1) = IF k + 1 <= K THEN w[k + 1] ELSE Null
    BY <2>1, StepsOnPath
  <2>3. /\ k <= K => w[k] # Null
        /\ k + 1 <= K => w[k + 1] # Null
    BY <1>1, <2>1
  <2> QED
    BY <2>1, <2>2, <2>3
<1>3. ends = {K}
  <2>1. \A k \in 0 .. MaxWindows : k \in ends <=> k <= K /\ ~(k + 1 <= K)
    BY <1>2
  <2>2. \A k \in 0 .. MaxWindows : k <= K /\ ~(k + 1 <= K) <=> k = K
    BY <1>1
  <2>3. \A k \in ends : k \in 0 .. MaxWindows
    OBVIOUS
  <2> HIDE DEF ends
  <2> QED
    BY <1>1, <2>1, <2>2, <2>3
<1>4. Step(n, w[0], K) = w[K]
  BY <1>1, StepsOnPath
<1>5. (CHOOSE k \in ends : TRUE) = K
  BY <1>3
<1>6. EndOf(n, w[0]) = IF ends = {} THEN Null ELSE Step(n, w[0], CHOOSE k \in ends : TRUE)
  BY DEF EndOf
<1> HIDE DEF ends
<1> QED
  BY <1>3, <1>4, <1>5, <1>6

-----------------------------------------------------------------------------
(* WindowList: the list and what the operations do to it. *)

Fields == [next : Link, prev : Link, index : 0 .. MaxWindows, window : BOOLEAN]

\* Nodes as they may be linked to a list.
Listable(n) ==
    /\ DOMAIN n \subseteq 0 .. MaxWindows /\ first_node \in DOMAIN n
    /\ n \in [DOMAIN n -> Fields]

\* The list is c[0], the head, and the windows c[1] .. c[L], linked both ways.
Chain(n, c, L) ==
    /\ L \in 0 .. MaxWindows /\ c \in [0 .. L -> DOMAIN n] /\ c[0] = first_node
    /\ \A i, j \in 0 .. L : c[i] = c[j] => i = j
    /\ \A i \in 0 .. L - 1 : n[c[i]].next = c[i + 1] /\ n[c[i + 1]].prev = c[i]
    /\ n[c[L]].next = Null
    /\ \A i \in 1 .. L : n[c[i]].window

\* No window is twice in a list, so it is no longer than there are nodes.
LEMMA ChainFits ==
  ASSUME NEW L \in Nat, NEW c \in [0 .. L -> 0 .. MaxWindows],
         \A i, j \in 0 .. L : c[i] = c[j] => i = j
  PROVE  L \in 0 .. MaxWindows
<1>1. c \in Injection(0 .. L, 0 .. MaxWindows)
  BY DEF Injection, IsInjective
<1>2. MaxWindows \in Nat
  BY WindowAssumption
<1>3. /\ IsFiniteSet(0 .. MaxWindows) /\ Cardinality(0 .. MaxWindows) = MaxWindows + 1
      /\ IsFiniteSet(0 .. L) /\ Cardinality(0 .. L) = L + 1
  BY <1>2, FS_Interval
<1>4. Cardinality(0 .. L) <= Cardinality(0 .. MaxWindows)
  BY <1>1, <1>3, FS_Injection DEF ExistsInjection
<1> QED
  BY <1>2, <1>3, <1>4

\* The walks of the window manager go along the list.
LEMMA WalkList ==
  ASSUME NEW n, NEW c, NEW L, Listable(n), Chain(n, c, L)
  PROVE  /\ \A k \in 0 .. MaxWindows + 1 : Step(n, first_node, k) = IF k <= L THEN c[k] ELSE Null
         /\ EndOf(n, first_node) = c[L]
         /\ \A k \in 0 .. L : c[k] # Null /\ c[k] \in Nat
         /\ L \in Nat /\ MaxWindows \in Nat /\ L <= MaxWindows
<1>1. MaxWindows \in Nat /\ L \in 0 .. MaxWindows
  BY WindowAssumption DEF Chain
<1>2. \A k \in 0 .. L : c[k] # Null /\ c[k] \in Nat
  BY <1>1 DEF Chain, Listable, Null
<1>3. Path(n, c, L)
  BY <1>1, <1>2 DEF Path, Chain
<1>4. c[0] = first_node
  BY DEF Chain
<1> QED
  BY <1>1, <1>2, <1>3, <1>4, StepsOnPath, EndOnPath

\* A step of a walk that starts at the head: the k-th window, or Null behind the list.
LEMMA StepIs ==
  ASSUME NEW n, NEW c, NEW L, Listable(n), Chain(n, c, L), NEW k \in 1 .. MaxWindows
  PROVE  /\ k \in 1 .. L => Step(n, first_node, k) = c[k] /\ c[k] # Null
         /\ k \notin 1 .. L => Step(n, first_node, k) = Null
         /\ \A j \in 1 .. L : Step(n, first_node, k) = c[j] <=> k = j
         /\ 1 .. L \subseteq 1 .. MaxWindows
<1>1. /\ k \in 0 .. MaxWindows + 1 /\ L \in Nat /\ L <= MaxWindows
      /\ k \in 1 .. L <=> k <= L
      /\ 1 .. L \subseteq 0 .. L /\ 1 .. L \subseteq 1 .. MaxWindows
  BY WalkList
<1>2. Step(n, first_node, k) = IF k <= L THEN c[k] ELSE Null
  BY <1>1, WalkList
<1>3. \A j \in 1 .. L : c[j] # Null
  BY <1>1, WalkList
<1>4. \A i, j \in 1 .. L : c[i] = c[j] => i = j
  BY <1>1 DEF Chain
<1> QED
  BY <1>1, <1>2, <1>3, <1>4

\* What a walk over the whole list comes to.
LEMMA ListedIs ==
  ASSUME NEW n, NEW c, NEW L, Listable(n), Chain(n, c, L)
  PROVE  Listed(n) = {c[k] : k \in 1 .. L} /\ Length(n) = L
<1>1. L \in Nat /\ 1 .. L \subseteq 1 .. MaxWindows
  BY WalkList
<1>2. {k \in 1 .. MaxWindows : Step(n, first_node, k) # Null} = 1 .. L
  BY <1>1, StepIs
<1>3. Cardinality(1 .. L) = L
  BY <1>1, FS_Interval
<1>4. Listed(n) = {c[k] : k \in 1 .. L}
  BY <1>1, StepIs DEF Listed
<1> QED
  BY <1>2, <1>3, <1>4 DEF Length

\* A search by a window's index finds it.
LEMMA SearchIs ==
  ASSUME NEW n, NEW c, NEW L, Listable(n), Chain(n, c, L),
         \A k \in 1 .. L : n[c[k]].index = k, NEW i \in 1 .. L
  PROVE  Search(n, i) = c[i]
<1> DEFINE hits == {k \in 1 .. MaxWindows :
                      Step(n, first_node, k) # Null /\ n[Step(n, first_node, k)].index = i}
<1>1. i \in 1 .. MaxWindows /\ L \in Nat
  BY WalkList
<1>2. hits = {i}
  <2>1. \A k \in 1 .. MaxWindows : k \in hits <=> k = i
    <3> SUFFICES ASSUME NEW k \in 1 .. MaxWindows
                 PROVE  Step(n, first_node, k) # Null /\ n[Step(n, first_node, k)].index = i
                        <=> k = i
      OBVIOUS
    <3>1. CASE k \in 1 .. L
      BY <3>1, StepIs
    <3>2. CASE k \notin 1 .. L
      BY <3>2, StepIs
    <3> QED
      BY <3>1, <3>2
  <2>2. \A k \in hits : k \in 1 .. MaxWindows
    OBVIOUS
  <2> HIDE DEF hits
  <2> QED
    BY <1>1, <2>1, <2>2
<1>3. (CHOOSE k \in hits : \A j \in hits : k <= j) = i
  <2>1. i <= i
    BY <1>1
  <2> HIDE DEF hits
  <2> QED
    BY <1>2, <2>1
<1>4. Search(n, i) = IF hits = {} THEN Null
                     ELSE Step(n, first_node, CHOOSE k \in hits : \A j \in hits : k <= j)
  BY DEF Search
<1>5. Step(n, first_node, i) = c[i]
  BY <1>1, StepIs
<1> HIDE DEF hits
<1> QED
  BY <1>2, <1>3, <1>4, <1>5

\* The topmost window of a set is the last of the list that is in it.
LEMMA TopmostIs ==
  ASSUME NEW n, NEW c, NEW L, Listable(n), Chain(n, c, L), NEW S, Null \notin S,
         NEW t \in 1 .. L, c[t] \in S, \A k \in 1 .. L : c[k] \in S => k <= t
  PROVE  Topmost(n, S) = c[t]
<1> DEFINE hits == {k \in 1 .. MaxWindows : Step(n, first_node, k) \in S}
<1>1. t \in 1 .. MaxWindows /\ L \in Nat
  BY WalkList
<1>2. t \in hits /\ \A k \in hits : k <= t
  <2>1. ASSUME NEW k \in 1 .. MaxWindows, Step(n, first_node, k) \in S PROVE k <= t
    <3>1. k \in 1 .. L
      BY <2>1, StepIs
    <3> QED
      BY <2>1, <3>1, StepIs
  <2>2. Step(n, first_node, t) \in S
    BY <1>1, StepIs
  <2> QED
    BY <1>1, <2>1, <2>2
<1>3. \A k \in hits : k \in Nat
  OBVIOUS
<1>4. (CHOOSE k \in hits : \A j \in hits : j <= k) = t
  <2> HIDE DEF hits
  <2>1. \A k \in hits : (\A j \in hits : j <= k) => k = t
    BY <1>2, <1>3
  <2> QED
    BY <1>2, <2>1
<1>5. Topmost(n, S) = IF hits = {} THEN Null
                      ELSE Step(n, first_node, CHOOSE k \in hits : \A j \in hits : j <= k)
  BY DEF Topmost
<1>6. Step(n, first_node, t) = c[t]
  BY <1>1, StepIs
<1> HIDE DEF hits
<1> QED
  BY <1>2, <1>4, <1>5, <1>6

\* A set that meets the list has a topmost window.
LEMMA TopmostThere ==
  ASSUME NEW n, NEW c, NEW L, Listable(n), Chain(n, c, L), NEW S, NEW p \in 1 .. L, c[p] \in S
  PROVE  \E t \in 1 .. L : c[t] \in S /\ \A k \in 1 .. L : c[k] \in S => k <= t
<1>1. L \in Nat
  BY WalkList
<1> DEFINE behind == {L - k : k \in {j \in 1 .. L : c[j] \in S}}
<1>2. behind \in SUBSET Nat /\ L - p \in behind
  BY <1>1
<1>3. PICK m \in behind : \A k \in behind : m <= k
  <2> HIDE DEF behind
  <2> QED
    BY <1>2, LeastNumber
<1>4. PICK t \in 1 .. L : c[t] \in S /\ m = L - t
  OBVIOUS
<1>5. ASSUME NEW k \in 1 .. L, c[k] \in S PROVE k <= t
  <2>1. L - t <= L - k
    BY <1>3, <1>4, <1>5
  <2> QED
    BY <1>1, <2>1
<1> QED
  BY <1>4, <1>5

\* reset_indices sets each index to the place in the list and nothing else.
LEMMA ReindexedIs ==
  ASSUME NEW n, NEW c, NEW L, Listable(n), Chain(n, c, L)
  PROVE  /\ Listable(Reindexed(n)) /\ Chain(Reindexed(n), c, L)
         /\ DOMAIN Reindexed(n) = DOMAIN n
         /\ \A k \in 1 .. L : Reindexed(n)[c[k]].index = k
         /\ \A a \in DOMAIN n : /\ Reindexed(n)[a].next = n[a].next
                                /\ Reindexed(n)[a].prev = n[a].prev
                                /\ Reindexed(n)[a].window = n[a].window
<1> DEFINE At(a, k) == Step(n, first_node, k) = a
           m == Reindexed(n)
<1>1. m = [a \in DOMAIN n |-> IF \E k \in 1 .. MaxWindows : At(a, k)
                               THEN [n[a] EXCEPT !.index = CHOOSE k \in 1 .. MaxWindows : At(a, k)]
                               ELSE n[a]]
  BY DEF Reindexed
<1>2. /\ L \in Nat /\ MaxWindows \in Nat /\ L <= MaxWindows /\ 1 .. L \subseteq 1 .. MaxWindows
      /\ \A k \in 0 .. L : c[k] \in DOMAIN n
  BY WalkList DEF Chain
<1>3. ASSUME NEW j \in 1 .. L
      PROVE  m[c[j]] = [n[c[j]] EXCEPT !.index = j]
  <2>1. \A k \in 1 .. MaxWindows : At(c[j], k) <=> k = j
    BY <1>3, StepIs
  <2>2. (CHOOSE k \in 1 .. MaxWindows : At(c[j], k)) = j
    <3> HIDE DEF At
    <3> QED
      BY <1>2, <2>1
  <2>3. c[j] \in DOMAIN n
    BY <1>2
  <2> HIDE DEF At, m
  <2> QED
    BY <1>1, <1>2, <2>1, <2>2, <2>3
<1>4. ASSUME NEW a \in DOMAIN n, \A j \in 1 .. L : c[j] # a PROVE m[a] = n[a]
  <2>1. a # Null
    BY <1>4 DEF Listable, Null
  <2>2. \A k \in 1 .. MaxWindows : ~At(a, k)
    <3> SUFFICES ASSUME NEW k \in 1 .. MaxWindows, At(a, k) PROVE FALSE
      OBVIOUS
    <3>1. CASE k \in 1 .. L
      BY <1>4, <3>1, StepIs
    <3>2. CASE k \notin 1 .. L
      BY <2>1, <3>2, StepIs
    <3> QED
      BY <3>1, <3>2
  <2> HIDE DEF At, m
  <2> QED
    BY <1>1, <2>2
<1>5. DOMAIN m = DOMAIN n
  BY <1>1
<1> HIDE DEF m
<1>6. \A a \in DOMAIN n : n[a] \in Fields
  BY DEF Listable
<1>7. ASSUME NEW a \in DOMAIN n
      PROVE  /\ m[a] \in Fields /\ m[a].next = n[a].next /\ m[a].prev = n[a].prev
             /\ m[a].window = n[a].window
  <2>1. CASE \E j \in 1 .. L : c[j] = a
    <3>1. PICK j \in 1 .. L : c[j] = a
      BY <2>1
    <3>2. m[a] = [n[a] EXCEPT !.index = j] /\ j \in 0 .. MaxWindows
      BY <1>2, <1>3, <3>1
    <3> QED
      BY <1>6, <3>2 DEF Fields
  <2>2. CASE \A j \in 1 .. L : c[j] # a
    BY <1>4, <1>6, <2>2
  <2> QED
    BY <2>1, <2>2
<1>8. \A k \in 1 .. L : m[c[k]].index = k
  <2> SUFFICES ASSUME NEW k \in 1 .. L PROVE m[c[k]].index = k
    OBVIOUS
  <2>1. n[c[k]] \in Fields
    BY <1>2, <1>6
  <2> QED
    BY <1>3, <2>1 DEF Fields
<1>9. Listable(m)
  <2>1. m = [a \in DOMAIN n |-> m[a]]
    BY <1>1
  <2> QED
    BY <1>5, <1>7, <2>1 DEF Listable
<1>10. Chain(m, c, L)
  <2>1. \A i \in 0 .. L - 1 : i \in 0 .. L /\ i + 1 \in 0 .. L
    BY <1>2
  <2>2. L \in 0 .. L /\ \A i \in 1 .. L : i \in 0 .. L
    BY <1>2
  <2>3. \A i \in 0 .. L : /\ m[c[i]].next = n[c[i]].next /\ m[c[i]].prev = n[c[i]].prev
                          /\ m[c[i]].window = n[c[i]].window
    BY <1>2, <1>7
  <2> QED
    BY <1>5, <2>1, <2>2, <2>3 DEF Chain
<1> QED
  BY <1>5, <1>7, <1>8, <1>9, <1>10 DEF m

\* The list without its window p, and the list up to place j with a behind it.
Without(c, L, p) == [i \in 0 .. L - 1 |-> IF i < p THEN c[i] ELSE c[i + 1]]
Behind(c, j, a) == [i \in 0 .. j + 1 |-> IF i <= j THEN c[i] ELSE a]

\* Taking a window out joins its neighbours and leaves it what it had.
LEMMA UnlinkKeeps ==
  ASSUME NEW n, NEW c, NEW L, Listable(n), Chain(n, c, L), NEW p \in 1 .. L
  PROVE  LET m == Unlinked(n, c[p])
             d == Without(c, L, p)
         IN  /\ Listable(m) /\ Chain(m, d, L - 1) /\ DOMAIN m = DOMAIN n
             /\ \A a \in DOMAIN n : m[a].index = n[a].index /\ m[a].window = n[a].window
             /\ m[c[p]].next = IF p = L THEN Null ELSE d[p]
             /\ \A i \in 0 .. L - 1 : d[i] # c[p]
<1> DEFINE m == Unlinked(n, c[p])
           d == Without(c, L, p)
           x == IF p = L THEN Null ELSE c[p + 1]
<1>1. /\ L \in Nat /\ L <= MaxWindows /\ MaxWindows \in Nat /\ p \in Nat /\ p <= L /\ p >= 1
      /\ \A i \in 0 .. L : c[i] \in DOMAIN n /\ c[i] # Null /\ n[c[i]] \in Fields
  <2>1. /\ L \in Nat /\ L <= MaxWindows /\ MaxWindows \in Nat
        /\ \A i \in 0 .. L : c[i] # Null
    BY WalkList
  <2>2. \A i \in 0 .. L : c[i] \in DOMAIN n
    BY DEF Chain
  <2>3. \A a \in DOMAIN n : n[a] \in Fields
    BY DEF Listable
  <2>4. p \in Nat /\ p <= L /\ p >= 1
    BY <2>1
  <2> QED
    BY <2>1, <2>2, <2>3, <2>4
<1>2. /\ \A i, j \in 0 .. L : c[i] = c[j] => i = j
      /\ \A i \in 0 .. L - 1 : n[c[i]].next = c[i + 1] /\ n[c[i + 1]].prev = c[i]
      /\ n[c[L]].next = Null /\ c[0] = first_node
      /\ \A i \in 1 .. L : n[c[i]].window
  BY DEF Chain
<1>3. n[c[p]].prev = c[p - 1] /\ n[c[p]].next = x
  <2>1. p - 1 \in 0 .. L - 1 /\ (p - 1) + 1 = p
    BY <1>1
  <2>2. n[c[p]].prev = c[p - 1]
    BY <1>2, <2>1
  <2>3. p # L => p \in 0 .. L - 1
    BY <1>1
  <2> QED
    BY <1>2, <2>2, <2>3
<1>4. /\ DOMAIN m = DOMAIN n
      /\ m[c[p - 1]] = [n[c[p - 1]] EXCEPT !.next = x]
      /\ p # L => m[c[p + 1]] = [n[c[p + 1]] EXCEPT !.prev = c[p - 1]]
      /\ \A b \in DOMAIN n : b # c[p - 1] /\ (p # L => b # c[p + 1]) => m[b] = n[b]
  <2>1. m = [b \in DOMAIN n |-> IF b = c[p - 1] THEN [n[b] EXCEPT !.next = x]
                                ELSE IF b = x THEN [n[b] EXCEPT !.prev = c[p - 1]] ELSE n[b]]
    BY <1>3 DEF Unlinked
  <2>2. /\ p - 1 \in 0 .. L /\ c[p - 1] \in DOMAIN n
        /\ p # L => p + 1 \in 0 .. L /\ c[p + 1] \in DOMAIN n /\ c[p + 1] # c[p - 1] /\ x = c[p + 1]
        /\ p = L => x = Null
        /\ \A b \in DOMAIN n : b # Null
    <3>1. p - 1 \in 0 .. L /\ (p # L => p + 1 \in 0 .. L) /\ p + 1 # p - 1
      BY <1>1
    <3>2. \A b \in DOMAIN n : b # Null
      BY DEF Listable, Null
    <3> QED
      BY <1>1, <1>2, <3>1, <3>2
  <2> HIDE DEF m, x
  <2> QED
    BY <2>1, <2>2
<1> HIDE DEF m
<1>5. \A b \in DOMAIN n :
         /\ m[b] \in Fields /\ m[b].index = n[b].index /\ m[b].window = n[b].window
         /\ b # c[p - 1] => m[b].next = n[b].next
         /\ (p # L => b # c[p + 1]) => m[b].prev = n[b].prev
  <2> SUFFICES ASSUME NEW b \in DOMAIN n
               PROVE  /\ m[b] \in Fields /\ m[b].index = n[b].index /\ m[b].window = n[b].window
                      /\ b # c[p - 1] => m[b].next = n[b].next
                      /\ (p # L => b # c[p + 1]) => m[b].prev = n[b].prev
    OBVIOUS
  <2>1. n[b] \in Fields
    BY DEF Listable
  <2>2. x \in Link /\ c[p - 1] \in Link
    <3>1. DOMAIN n \subseteq Link
      BY DEF Listable, Link, Nodes, first_node
    <3>2. Null \in Link /\ p - 1 \in 0 .. L /\ (p # L => p + 1 \in 0 .. L)
      BY <1>1 DEF Link
    <3> QED
      BY <1>1, <3>1, <3>2
  <2>3. CASE b = c[p - 1]
    <3>1. m[b] = [n[b] EXCEPT !.next = x]
      BY <1>4, <2>3
    <3>2. p # L => b # c[p + 1]
      <4>1. p # L => p + 1 \in 0 .. L /\ p - 1 \in 0 .. L /\ p + 1 # p - 1
        BY <1>1
      <4> QED
        BY <1>2, <2>3, <4>1
    <3> QED
      BY <2>1, <2>2, <2>3, <3>1 DEF Fields
  <2>4. CASE p # L /\ b = c[p + 1]
    <3>1. m[b] = [n[b] EXCEPT !.prev = c[p - 1]]
      BY <1>4, <2>4
    <3> QED
      BY <2>1, <2>2, <2>4, <3>1 DEF Fields
  <2>5. CASE b # c[p - 1] /\ (p # L => b # c[p + 1])
    BY <1>4, <2>1, <2>5
  <2> QED
    BY <2>3, <2>4, <2>5
<1>6. m[c[p - 1]].next = x /\ (p # L => m[c[p + 1]].prev = c[p - 1])
  <2>1. /\ p - 1 \in 0 .. L /\ n[c[p - 1]] \in Fields
        /\ p # L => p + 1 \in 0 .. L /\ n[c[p + 1]] \in Fields
    BY <1>1
  <2> QED
    BY <1>4, <2>1 DEF Fields
<1> HIDE DEF x
<1>7. Listable(m)
  <2>1. m = [b \in DOMAIN n |-> m[b]]
    BY DEF Unlinked, m
  <2> QED
    BY <1>4, <1>5, <2>1 DEF Listable
<1>8. /\ d \in [0 .. L - 1 -> DOMAIN n] /\ d[0] = c[0]
      /\ \A i \in 0 .. L - 1 : /\ i < p => d[i] = c[i]
                               /\ i >= p => d[i] = c[i + 1]
                               /\ i \in 0 .. L /\ i + 1 \in 0 .. L
      /\ d[p - 1] = c[p - 1] /\ (p # L => d[p] = c[p + 1])
  BY <1>1 DEF Without
<1> HIDE DEF d
<1>9. \A i, j \in 0 .. L - 1 : d[i] = d[j] => i = j
  <2> SUFFICES ASSUME NEW i \in 0 .. L - 1, NEW j \in 0 .. L - 1, d[i] = d[j] PROVE i = j
    OBVIOUS
  <2> DEFINE k == IF i < p THEN i ELSE i + 1
             l == IF j < p THEN j ELSE j + 1
  <2>1. k \in 0 .. L /\ l \in 0 .. L /\ (k = l => i = j)
    BY <1>1
  <2>2. d[i] = c[k] /\ d[j] = c[l]
    <3>1. ~(i < p) => i >= p
      BY <1>1
    <3>2. ~(j < p) => j >= p
      BY <1>1
    <3> QED
      BY <1>8, <3>1, <3>2
  <2> HIDE DEF k, l
  <2> QED
    BY <1>2, <2>1, <2>2
<1>10. \A i \in 0 .. L - 1 : d[i] # c[p]
  <2> SUFFICES ASSUME NEW i \in 0 .. L - 1, d[i] = c[p] PROVE FALSE
    OBVIOUS
  <2> DEFINE k == IF i < p THEN i ELSE i + 1
  <2>1. k \in 0 .. L /\ p \in 0 .. L /\ k # p /\ (~(i < p) => i >= p)
    BY <1>1
  <2>2. d[i] = c[k]
    BY <1>8, <2>1
  <2> HIDE DEF k
  <2> QED
    BY <1>2, <2>1, <2>2
<1>11. ASSUME NEW i \in 0 .. (L - 1) - 1 PROVE m[d[i]].next = d[i + 1] /\ m[d[i + 1]].prev = d[i]
  <2>1. i \in 0 .. L - 1 /\ i + 1 \in 0 .. L - 1 /\ i \in Nat /\ p - 1 \in 0 .. L
    BY <1>1
  <2>2. CASE i + 1 < p
    <3>1. d[i] = c[i] /\ d[i + 1] = c[i + 1] /\ i \in 0 .. L /\ i + 1 \in 0 .. L
      BY <1>1, <1>8, <2>1, <2>2
    <3>2. c[i] # c[p - 1] /\ (p # L => c[i + 1] # c[p + 1])
      <4>1. i # p - 1 /\ (p # L => p + 1 \in 0 .. L /\ i + 1 # p + 1)
        BY <1>1, <2>1, <2>2
      <4> QED
        BY <1>2, <2>1, <3>1, <4>1
    <3> QED
      BY <1>1, <1>2, <1>5, <2>1, <3>1, <3>2
  <2>3. CASE i + 1 = p
    <3>1. i = p - 1 /\ p # L /\ d[i] = c[p - 1] /\ d[i + 1] = c[p + 1]
      BY <1>1, <1>8, <2>1, <2>3
    <3> QED
      BY <1>6, <3>1 DEF x
  <2>4. CASE i + 1 > p
    <3>1. /\ d[i] = c[i + 1] /\ d[i + 1] = c[(i + 1) + 1] /\ i + 1 \in 0 .. L - 1
          /\ i + 1 \in 0 .. L /\ (i + 1) + 1 \in 0 .. L
      BY <1>1, <1>8, <2>1, <2>4
    <3>2. c[i + 1] # c[p - 1] /\ (p # L => c[(i + 1) + 1] # c[p + 1])
      <4>1. i + 1 # p - 1 /\ (p # L => p + 1 \in 0 .. L /\ (i + 1) + 1 # p + 1)
        BY <1>1, <2>1, <2>4
      <4> QED
        BY <1>2, <2>1, <3>1, <4>1
    <3> QED
      BY <1>1, <1>2, <1>5, <3>1, <3>2
  <2> QED
    BY <1>1, <2>1, <2>2, <2>3, <2>4
<1>12. m[d[L - 1]].next = Null
  <2>1. CASE p = L
    BY <1>6, <1>8, <2>1 DEF x
  <2>2. CASE p # L
    <3>1. /\ d[L - 1] = c[(L - 1) + 1] /\ (L - 1) + 1 = L
          /\ L \in 0 .. L /\ L # p - 1 /\ p - 1 \in 0 .. L
      BY <1>1, <1>8, <2>2
    <3>2. c[L] # c[p - 1]
      BY <1>2, <3>1
    <3> QED
      BY <1>1, <1>2, <1>5, <3>1, <3>2
  <2> QED
    BY <2>1, <2>2
<1>13. ASSUME NEW i \in 1 .. L - 1 PROVE m[d[i]].window
  <2> DEFINE k == IF i < p THEN i ELSE i + 1
  <2>1. k \in 0 .. L /\ k \in 1 .. L /\ i \in 0 .. L - 1 /\ (~(i < p) => i >= p)
    BY <1>1
  <2>2. d[i] = c[k]
    BY <1>8, <2>1
  <2> HIDE DEF k
  <2> QED
    BY <1>1, <1>2, <1>5, <2>1, <2>2
<1>14. Chain(m, d, L - 1)
  <2>1. L - 1 \in 0 .. MaxWindows
    BY <1>1
  <2> QED
    BY <1>2, <1>4, <1>8, <1>9, <1>11, <1>12, <1>13, <2>1 DEF Chain
<1>15. m[c[p]].next = IF p = L THEN Null ELSE d[p]
  <2>1. p \in 0 .. L /\ p - 1 \in 0 .. L /\ p # p - 1
    BY <1>1
  <2>2. c[p] # c[p - 1]
    BY <1>2, <2>1
  <2> QED
    BY <1>1, <1>3, <1>5, <1>8, <2>1, <2>2 DEF x
<1> QED
  BY <1>4, <1>5, <1>7, <1>10, <1>14, <1>15 DEF m, d

\* A node put behind place j of the list ends the list there.
LEMMA BehindChain ==
  ASSUME NEW n, NEW c, NEW L, Listable(n), Chain(n, c, L), NEW j \in 0 .. L,
         NEW m, Listable(m), DOMAIN n \subseteq DOMAIN m,
         NEW a \in DOMAIN m, \A i \in 0 .. j : c[i] # a,
         m[a].next = Null, m[a].prev = c[j], m[a].window, m[c[j]].next = a,
         \A i \in 0 .. j : /\ i # j => m[c[i]].next = n[c[i]].next
                           /\ m[c[i]].prev = n[c[i]].prev
                           /\ m[c[i]].window = n[c[i]].window
  PROVE  Chain(m, Behind(c, j, a), j + 1)
<1> DEFINE d == Behind(c, j, a)
<1>1. /\ L \in Nat /\ j \in Nat /\ j <= L
      /\ \A i \in 0 .. L : c[i] \in DOMAIN n
  BY WalkList DEF Chain
<1>2. /\ \A i, k \in 0 .. L : c[i] = c[k] => i = k
      /\ \A i \in 0 .. L - 1 : n[c[i]].next = c[i + 1] /\ n[c[i + 1]].prev = c[i]
      /\ c[0] = first_node
      /\ \A i \in 1 .. L : n[c[i]].window
  BY DEF Chain
<1>3. /\ d \in [0 .. j + 1 -> DOMAIN m] /\ d[j + 1] = a
      /\ \A i \in 0 .. j : i \in 0 .. L /\ d[i] = c[i]
  BY <1>1 DEF Behind
<1> HIDE DEF d
<1>4. \A i, k \in 0 .. j + 1 : d[i] = d[k] => i = k
  <2>1. \A i \in 0 .. j + 1 : i \in 0 .. j \/ i = j + 1
    BY <1>1
  <2> QED
    BY <1>2, <1>3, <2>1
<1>5. j + 1 \in 0 .. MaxWindows
  <2>1. \A b \in DOMAIN m : b \in 0 .. MaxWindows
    BY DEF Listable
  <2>2. d \in [0 .. j + 1 -> 0 .. MaxWindows] /\ j + 1 \in Nat
    BY <1>1, <1>3, <2>1
  <2> QED
    BY <1>4, <2>2, ChainFits
<1>6. ASSUME NEW i \in 0 .. (j + 1) - 1 PROVE m[d[i]].next = d[i + 1] /\ m[d[i + 1]].prev = d[i]
  <2>1. i \in 0 .. j
    BY <1>1
  <2>2. CASE i = j
    BY <1>3, <2>1, <2>2
  <2>3. CASE i # j
    <3>1. i \in 0 .. L - 1 /\ i + 1 \in 0 .. j
      BY <1>1, <2>1, <2>3
    <3> QED
      BY <1>2, <1>3, <2>1, <2>3, <3>1
  <2> QED
    BY <2>2, <2>3
<1>7. ASSUME NEW i \in 1 .. j + 1 PROVE m[d[i]].window
  <2>1. i = j + 1 \/ (i \in 0 .. j /\ i \in 1 .. L)
    BY <1>1
  <2> QED
    BY <1>2, <1>3, <2>1
<1>8. 0 \in 0 .. j
  BY <1>1
<1> QED
  BY <1>2, <1>3, <1>4, <1>5, <1>6, <1>7, <1>8 DEF Chain, d

\* move_to_top puts its window behind the end of the list that it has found.
LEMMA RelinkKeeps ==
  ASSUME NEW n, NEW c, NEW L, Listable(n), Chain(n, c, L), NEW j \in 0 .. L,
         NEW a \in DOMAIN n, n[a].window, \A i \in 0 .. L : c[i] # a
  PROVE  LET m == Relinked(n, a, c[j])
         IN  /\ Listable(m) /\ Chain(m, Behind(c, j, a), j + 1) /\ DOMAIN m = DOMAIN n
             /\ \A b \in DOMAIN n : m[b].index = n[b].index /\ m[b].window = n[b].window
<1> DEFINE m == Relinked(n, a, c[j])
<1>1. /\ c[j] \in DOMAIN n /\ c[j] # a
      /\ \A i \in 0 .. L : c[i] \in DOMAIN n
      /\ \A i \in 0 .. j : i \in 0 .. L
      /\ \A i, k \in 0 .. L : c[i] = c[k] => i = k
  <2>1. L \in Nat
    BY WalkList
  <2> QED
    BY <2>1 DEF Chain
<1>2. \A b \in DOMAIN n : n[b] \in Fields /\ b \in Link /\ b # Null
  BY DEF Listable, Link, Nodes, first_node, Null
<1>3. /\ DOMAIN m = DOMAIN n
      /\ m[a] = [n[a] EXCEPT !.next = Null, !.prev = c[j]]
      /\ m[c[j]] = [n[c[j]] EXCEPT !.next = a]
      /\ \A b \in DOMAIN n : b # a /\ b # c[j] => m[b] = n[b]
      /\ m = [b \in DOMAIN n |-> m[b]]
  BY <1>1, <1>2 DEF Relinked, Fields
<1> HIDE DEF m
<1>4. /\ m[a] \in Fields /\ m[a].next = Null /\ m[a].prev = c[j]
      /\ m[a].index = n[a].index /\ m[a].window = n[a].window
  <2>1. Null \in Link /\ n[a] \in Fields /\ c[j] \in Link
    BY <1>1, <1>2 DEF Link
  <2>2. m[a] = [n[a] EXCEPT !.next = Null, !.prev = c[j]]
    BY <1>3
  <2> HIDE DEF Null
  <2> QED
    BY <2>1, <2>2 DEF Fields
<1>5. /\ m[c[j]] \in Fields /\ m[c[j]].next = a /\ m[c[j]].prev = n[c[j]].prev
      /\ m[c[j]].index = n[c[j]].index /\ m[c[j]].window = n[c[j]].window
  <2>1. a \in Link /\ n[c[j]] \in Fields
    BY <1>1, <1>2
  <2> QED
    BY <1>3, <2>1 DEF Fields
<1>6. /\ \A b \in DOMAIN n : /\ m[b] \in Fields
                             /\ m[b].index = n[b].index /\ m[b].window = n[b].window
      /\ \A i \in 0 .. j : /\ i # j => m[c[i]].next = n[c[i]].next
                           /\ m[c[i]].prev = n[c[i]].prev
                           /\ m[c[i]].window = n[c[i]].window
  <2>1. ASSUME NEW b \in DOMAIN n
        PROVE  /\ m[b] \in Fields /\ m[b].index = n[b].index /\ m[b].window = n[b].window
               /\ b # a => m[b].prev = n[b].prev
               /\ b # a /\ b # c[j] => m[b].next = n[b].next
    <3>1. CASE b = a
      BY <1>4, <3>1
    <3>2. CASE b = c[j]
      BY <1>5, <3>2
    <3>3. CASE b # a /\ b # c[j]
      BY <1>2, <1>3, <3>3
    <3> QED
      BY <3>1, <3>2, <3>3
  <2> QED
    BY <1>1, <2>1
<1>7. Listable(m)
  BY <1>3, <1>6 DEF Listable
<1>8. Chain(m, Behind(c, j, a), j + 1)
  <2>1. /\ \A i \in 0 .. j : c[i] # a
        /\ DOMAIN n \subseteq DOMAIN m /\ a \in DOMAIN m /\ m[a].window
    BY <1>1, <1>3, <1>4
  <2> QED
    BY <1>4, <1>5, <1>6, <1>7, <2>1, BehindChain
<1> QED
  BY <1>3, <1>6, <1>7, <1>8 DEF m

\* create_window's new node.
NewNode(last) == [next |-> Null, prev |-> last, index |-> 1, window |-> TRUE]

\* The nodes when it is linked behind last.
Grown(n, new, last) ==
    [a \in DOMAIN n \cup {new} |->
        IF a = new THEN NewNode(last) ELSE IF a = last THEN [n[a] EXCEPT !.next = new] ELSE n[a]]

\* create_window appends.
LEMMA AppendKeeps ==
  ASSUME NEW n, NEW c, NEW L, Listable(n), Chain(n, c, L),
         NEW new \in 1 .. MaxWindows, new \notin DOMAIN n
  PROVE  LET m == Grown(n, new, c[L])
         IN  /\ Listable(m) /\ Chain(m, Behind(c, L, new), L + 1)
             /\ DOMAIN m = DOMAIN n \cup {new} /\ m[new].window
             /\ \A b \in DOMAIN n : /\ m[b].index = n[b].index /\ m[b].window = n[b].window
                                    /\ b # c[L] => m[b].next = n[b].next
<1> DEFINE m == Grown(n, new, c[L])
<1>1. /\ L \in 0 .. L /\ c[L] \in DOMAIN n /\ c[L] # new
      /\ MaxWindows \in Nat
      /\ \A i \in 0 .. L : c[i] \in DOMAIN n /\ c[i] # new
      /\ \A i, k \in 0 .. L : c[i] = c[k] => i = k
  <2>1. L \in Nat /\ MaxWindows \in Nat
    BY WalkList
  <2> QED
    BY <2>1 DEF Chain
<1>2. /\ \A b \in DOMAIN n : n[b] \in Fields /\ b \in Link /\ b # Null
      /\ new \in Link /\ Null \in Link /\ 1 \in 0 .. MaxWindows
  BY <1>1, WindowAssumption DEF Listable, Link, Nodes, first_node, Null
<1>3. /\ DOMAIN m = DOMAIN n \cup {new}
      /\ m[new] = NewNode(c[L])
      /\ m[c[L]] = [n[c[L]] EXCEPT !.next = new]
      /\ \A b \in DOMAIN n : b # c[L] => m[b] = n[b]
      /\ m = [b \in DOMAIN n \cup {new} |-> m[b]]
  BY <1>1 DEF Grown
<1>4. /\ m[new] \in Fields /\ m[new].next = Null /\ m[new].prev = c[L] /\ m[new].window
  <2>1. c[L] \in Link
    BY <1>1, <1>2
  <2> QED
    BY <1>2, <1>3, <2>1 DEF Fields, NewNode
<1>5. /\ m[c[L]] \in Fields /\ m[c[L]].next = new /\ m[c[L]].prev = n[c[L]].prev
      /\ m[c[L]].index = n[c[L]].index /\ m[c[L]].window = n[c[L]].window
  <2>1. n[c[L]] \in Fields
    BY <1>1, <1>2
  <2> QED
    BY <1>2, <1>3, <2>1 DEF Fields
<1>6. \A b \in DOMAIN n : /\ m[b] \in Fields /\ m[b].index = n[b].index
                          /\ m[b].window = n[b].window /\ m[b].prev = n[b].prev
                          /\ b # c[L] => m[b].next = n[b].next
  BY <1>2, <1>3, <1>5
<1>7. Listable(m)
  <2>1. DOMAIN m \subseteq 0 .. MaxWindows /\ first_node \in DOMAIN m
    BY <1>1, <1>3 DEF Listable, first_node
  <2>2. \A b \in DOMAIN m : m[b] \in Fields
    BY <1>3, <1>4, <1>6
  <2> QED
    BY <1>3, <2>1, <2>2 DEF Listable
<1>8. Chain(m, Behind(c, L, new), L + 1)
  <2>1. \A i \in 0 .. L : /\ i # L => m[c[i]].next = n[c[i]].next
                          /\ m[c[i]].prev = n[c[i]].prev
                          /\ m[c[i]].window = n[c[i]].window
    BY <1>1, <1>6
  <2>2. DOMAIN n \subseteq DOMAIN m /\ new \in DOMAIN m
    BY <1>3
  <2> QED
    BY <1>1, <1>4, <1>5, <1>7, <2>1, <2>2, BehindChain
<1> QED
  BY <1>3, <1>4, <1>6, <1>7, <1>8

-----------------------------------------------------------------------------
(* The invariant of WindowList.  In every state the list is c[0] .. c[L]   *)
(* for some c and L.                                                       *)

Windows(c, L) == {c[k] : k \in 1 .. L}

\* The main loop has taken a window out of the list; DeleteUnlink has counted it
\* already.
Away == pc \in {"walk", "relink", "drop"}
Closing == IF pc \in {"close", "drop"} THEN 1 ELSE 0

\* Where the places that the main loop remembers are.
Placed(c, L) ==
    /\ pc \notin {"walk", "relink", "reindex", "drop"} => \A k \in 1 .. L : node[c[k]].index = k
    /\ pc = "visit" => cur = Null \/ cur \in Windows(c, L)
    /\ pc \in {"find", "exit", "close", "reindex"} => cur \in Windows(c, L)
    /\ pc \in {"find", "close"} => index \in 1 .. L
    /\ pc = "close" => c[index] = cur
    /\ Away => /\ moving \in DOMAIN node /\ node[moving].window
               /\ \A k \in 0 .. L : c[k] # moving
    /\ pc = "walk" => /\ cur = moving \/ cur \in Windows(c, L)
                      /\ node[moving].next \in Windows(c, L)
    /\ pc = "relink" => \E j \in 0 .. L : tail = c[j] /\ (cur = moving \/ cur \in Windows(c, j))
    /\ pc = "reindex" => moving \in Windows(c, L)
    /\ pc = "drop" => /\ cur = moving
                      /\ node[moving].next = Null \/ node[moving].next \in Windows(c, L)

\* What else holds while no window is made in the middle of a frame: no window is
\* lost,
NoneLost(c, L) ==
    /\ Open = Windows(c, L) \cup (IF Away THEN {moving} ELSE {})
    /\ pc = "relink" => tail = c[L]
    /\ pc = "reindex" => moving = c[L]
    /\ window_count + Closing = Cardinality(Open)

\* and the topmost window that was clicked is on top, or is still ahead of the
\* main loop, behind place p, or is the one that it works on.
OnTop(c, L) == L # 0 /\ c[L] = aim /\ focus_index = L
Ahead(c, L, p) ==
    \E t \in p .. L : c[t] = aim /\ \A k \in 1 .. L : c[k] \in hover => p <= k /\ k <= t
AheadAt(c, L, a, p) == \E k \in 1 .. L : a = c[k] /\ Ahead(c, L, k + p)

Clicked(c, L) ==
    /\ aim # Null => aim \in DOMAIN node
    /\ aim # Null /\ node[aim].window =>
        /\ pc # "idle" => aim \in hover
        /\ pc = "idle" => OnTop(c, L)
        /\ pc = "visit" => OnTop(c, L) \/ AheadAt(c, L, cur, 0)
        /\ pc = "find" => c[index] = aim
        /\ pc \in {"walk", "relink", "reindex"} => moving = aim
        /\ pc = "exit" => OnTop(c, L) \/ AheadAt(c, L, cur, 1)
        /\ pc = "close" => cur = aim \/ Ahead(c, L, index + 1)
        /\ pc = "drop" => moving = aim \/ AheadAt(c, L, node[moving].next, 0)

InShape(c, L) ==
    /\ Chain(node, c, L) /\ Placed(c, L)
    /\ ~preempted => NoneLost(c, L) /\ Clicked(c, L)

\* Every open window is counted.
Counted == window_count <= id_count /\ window_count + Closing >= Cardinality(Open)

\* The inductive invariant.
WInv == ListTypeOK /\ Counted /\ \E c, L : InShape(c, L)

\* The nodes of a state that has its types may be linked to a list.
LEMMA TypeListable == ListTypeOK => Listable(node)
<1> SUFFICES ASSUME ListTypeOK PROVE Listable(node)
  OBVIOUS
<1>1. MaxWindows \in Nat
  BY WindowAssumption
<1>2. /\ DOMAIN node = 0 .. id_count /\ id_count \in 0 .. MaxWindows
      /\ node \in [DOMAIN node -> Fields]
  BY DEF ListTypeOK, first_node, Fields
<1> QED
  BY <1>1, <1>2 DEF Listable, first_node

\* The converse, for nodes written without a new one.
LEMMA ListableType ==
  ASSUME ListTypeOK, NEW n, Listable(n), DOMAIN n = DOMAIN node
  PROVE  /\ DOMAIN n = first_node .. id_count
         /\ n \in [DOMAIN n -> [next : Link, prev : Link, index : 0 .. MaxWindows,
                                window : BOOLEAN]]
<1> QED
  BY DEF ListTypeOK, Listable, Fields

\* The list in use.
LEMMA ListInShape ==
  ASSUME ListTypeOK, NEW c, NEW L, InShape(c, L)
  PROVE  /\ Listable(node) /\ Chain(node, c, L)
         /\ L \in Nat /\ MaxWindows \in Nat /\ L <= MaxWindows
         /\ \A k \in 0 .. L : /\ c[k] \in DOMAIN node /\ c[k] \in Nodes /\ c[k] \in Link
                              /\ c[k] # Null /\ node[c[k]] \in Fields
         /\ \A k \in 1 .. L : c[k] # first_node /\ node[c[k]].window
         /\ \A i, k \in 0 .. L : c[i] = c[k] => i = k
         /\ \A k \in 0 .. L : node[c[k]].next = IF k = L THEN Null ELSE c[k + 1]
         /\ c[0] = first_node
         /\ EndOf(node, first_node) = c[L]
         /\ Listed(node) = Windows(c, L)
<1>1. Listable(node) /\ Chain(node, c, L)
  BY TypeListable DEF InShape
<1>2. L \in Nat /\ MaxWindows \in Nat /\ L <= MaxWindows /\ EndOf(node, first_node) = c[L]
  BY <1>1, WalkList
<1>3. /\ c \in [0 .. L -> DOMAIN node] /\ c[0] = first_node
      /\ \A i, k \in 0 .. L : c[i] = c[k] => i = k
      /\ \A i \in 0 .. L - 1 : node[c[i]].next = c[i + 1]
      /\ node[c[L]].next = Null
      /\ \A i \in 1 .. L : node[c[i]].window
  BY <1>1 DEF Chain
<1>4. \A b \in DOMAIN node : b \in Nodes /\ b \in Link /\ b # Null /\ node[b] \in Fields
  BY <1>1 DEF Listable, Link, Nodes, first_node, Null
<1>5. \A k \in 0 .. L : /\ c[k] \in DOMAIN node /\ c[k] \in Nodes /\ c[k] \in Link
                        /\ c[k] # Null /\ node[c[k]] \in Fields
  BY <1>3, <1>4
<1>6. \A k \in 1 .. L : c[k] # first_node
  <2>1. \A k \in 1 .. L : k \in 0 .. L /\ 0 \in 0 .. L /\ k # 0
    BY <1>2
  <2> QED
    BY <1>3, <2>1
<1>7. \A k \in 0 .. L : node[c[k]].next = IF k = L THEN Null ELSE c[k + 1]
  <2>1. \A k \in 0 .. L : k # L => k \in 0 .. L - 1
    BY <1>2
  <2> QED
    BY <1>3, <2>1
<1>8. Listed(node) = Windows(c, L)
  BY <1>1, ListedIs DEF Windows
<1> QED
  BY <1>1, <1>2, <1>3, <1>5, <1>6, <1>7, <1>8

\* What follows while no node is written.
LEMMA SameNodes ==
  ASSUME NEW c, NEW L, UNCHANGED node, Chain(node, c, L)
  PROVE  Chain(node, c, L)' /\ Open' = Open
<1> QED
  BY DEF Chain, Open

\* Whatever is clicked, the topmost window that is hit is chosen.
LEMMA AimedIs ==
  ASSUME ListTypeOK, NEW c, NEW L, InShape(c, L), pc = "idle", NEW S \in SUBSET Listed(node),
         Aimed(S) # Null
  PROVE  \E t \in 1 .. L : /\ Aimed(S) = c[t] /\ c[t] \in S
                           /\ \A k \in 1 .. L : c[k] \in S => k <= t
<1>1. Listed(node) = Windows(c, L) /\ Listable(node) /\ Chain(node, c, L) /\ L \in Nat
  BY ListInShape
<1>2. \A k \in 1 .. L : node[c[k]].index = k
  BY DEF InShape, Placed
<1>3. S \cap Listed(node) # {}
  BY DEF Aimed
<1>4. PICK p \in 1 .. L : c[p] \in S
  BY <1>1, <1>3 DEF Windows
<1>5. PICK t \in 1 .. L : c[t] \in S /\ \A k \in 1 .. L : c[k] \in S => k <= t
  BY <1>1, <1>4, TopmostThere
<1> DEFINE T == S \cap Listed(node)
           Top(a) == \A b \in T : node[b].index <= node[a].index
<1>6. c[t] \in T /\ Top(c[t])
  BY <1>1, <1>2, <1>5 DEF Windows
<1>7. Aimed(S) = CHOOSE a \in T : Top(a)
  BY <1>3 DEF Aimed
<1>8. Aimed(S) \in T /\ Top(Aimed(S))
  <2> HIDE DEF T, Top
  <2> QED
    BY <1>6, <1>7
<1>9. PICK u \in 1 .. L : Aimed(S) = c[u] /\ c[u] \in S
  BY <1>1, <1>8 DEF Windows
<1>10. u = t
  <2>1. t <= u
    BY <1>2, <1>6, <1>8, <1>9
  <2>2. u <= t
    BY <1>5, <1>9
  <2> QED
    BY <2>1, <2>2
<1> QED
  BY <1>5, <1>9, <1>10

\* A frame begins: the walk is at the first window, and the topmost window that was
\* clicked is still ahead of it.
LEMMA HandleBeginHolds ==
  ASSUME ListTypeOK, Counted, NEW c, NEW L, InShape(c, L), HandleBegin
  PROVE  ListTypeOK' /\ Counted' /\ InShape(c, L)'
<1> USE DEF HandleBegin, counters
<1>1. /\ Listable(node) /\ Chain(node, c, L) /\ L \in Nat
      /\ \A k \in 0 .. L : c[k] \in Nodes /\ c[k] \in Link /\ c[k] # Null
      /\ \A k \in 0 .. L : node[c[k]].next = IF k = L THEN Null ELSE c[k + 1]
      /\ Listed(node) = Windows(c, L) /\ c[0] = first_node
  BY ListInShape
<1>2. cur' = IF L = 0 THEN Null ELSE c[1]
  <2>1. 0 \in 0 .. L /\ 0 + 1 = 1
    BY <1>1
  <2> QED
    BY <1>1, <2>1
<1>3. hover' \subseteq Nodes /\ exit' \subseteq Nodes
  <2>1. \A k \in 1 .. L : k \in 0 .. L
    BY <1>1
  <2> QED
    BY <1>1, <2>1 DEF Windows
<1>4. aim' # Null => \E t \in 1 .. L : /\ aim' = c[t] /\ c[t] \in hover'
                                       /\ \A k \in 1 .. L : c[k] \in hover' => k <= t
  BY AimedIs
<1>5. ListTypeOK'
  <2>1. cur' \in Link
    <3>1. Null \in Link /\ (L # 0 => 1 \in 0 .. L)
      BY <1>1 DEF Link
    <3> QED
      BY <1>1, <1>2, <3>1
  <2>2. aim' \in Link
    <3>1. Null \in Link /\ \A k \in 1 .. L : k \in 0 .. L
      BY <1>1 DEF Link
    <3> QED
      BY <1>1, <1>4, <3>1
  <2> QED
    BY <1>3, <2>1, <2>2 DEF ListTypeOK
<1>6. Chain(node, c, L)' /\ Open' = Open
  BY <1>1, SameNodes
<1>7. Counted'
  BY <1>6 DEF Counted, Closing
<1>8. Placed(c, L)'
  <2>1. L # 0 => 1 \in 1 .. L
    BY <1>1
  <2>2. \A k \in 1 .. L : node[c[k]].index = k
    BY DEF InShape, Placed
  <2> QED
    BY <1>2, <2>1, <2>2 DEF Placed, Windows, Away
<1>9. ~preempted' => NoneLost(c, L)'
  BY <1>6 DEF InShape, NoneLost, Away, Closing
<1>10. Clicked(c, L)'
  <2> SUFFICES ASSUME aim' # Null
               PROVE  /\ aim' \in DOMAIN node' /\ aim' \in hover'
                      /\ AheadAt(c, L, cur, 0)'
    BY DEF Clicked
  <2>1. PICK t \in 1 .. L : /\ aim' = c[t] /\ c[t] \in hover'
                            /\ \A k \in 1 .. L : c[k] \in hover' => k <= t
    BY <1>4
  <2>2. c[t] \in DOMAIN node
    <3>1. t \in 0 .. L
      BY <1>1
    <3> QED
      BY <1>1, <3>1, ListInShape
  <2>3. 1 \in 1 .. L /\ cur' = c[1] /\ 1 + 0 = 1 /\ t \in 1 .. L
    BY <1>1, <1>2
  <2>4. Ahead(c, L, 1)'
    BY <2>1 DEF Ahead
  <2> QED
    BY <2>1, <2>2, <2>3, <2>4 DEF AheadAt
<1> QED
  BY <1>5, <1>6, <1>7, <1>8, <1>9, <1>10 DEF InShape

\* A frame ends: nothing is ahead of the walk, so the window clicked is on top.
LEMMA HandleEndHolds ==
  ASSUME ListTypeOK, Counted, NEW c, NEW L, InShape(c, L), HandleEnd
  PROVE  ListTypeOK' /\ Counted' /\ InShape(c, L)'
<1> USE DEF HandleEnd, counters, ghosts
<1>1. /\ Chain(node, c, L) /\ L \in Nat
      /\ \A k \in 1 .. L : c[k] # Null
  <2>1. L \in Nat /\ \A k \in 0 .. L : c[k] # Null
    BY ListInShape
  <2> QED
    BY <2>1, ListInShape
<1>2. ListTypeOK'
  <2>1. 0 \in 0 .. MaxWindows
    BY WindowAssumption
  <2> QED
    BY <2>1 DEF ListTypeOK, Link
<1>3. Chain(node, c, L)' /\ Open' = Open
  BY <1>1, SameNodes
<1>4. Counted'
  BY <1>3 DEF Counted, Closing
<1>5. Placed(c, L)'
  BY DEF InShape, Placed, Away
<1>6. ~preempted' => NoneLost(c, L)'
  BY <1>3 DEF InShape, NoneLost, Away, Closing
<1>7. ~preempted' => Clicked(c, L)'
  <2> SUFFICES ASSUME ~preempted, aim # Null, node[aim].window
               PROVE  OnTop(c, L)'
    BY DEF InShape, Clicked
  <2>1. aim \in DOMAIN node /\ (OnTop(c, L) \/ AheadAt(c, L, cur, 0))
    BY DEF InShape, Clicked
  <2>2. ~AheadAt(c, L, cur, 0)
    BY <1>1 DEF AheadAt
  <2> QED
    BY <2>1, <2>2 DEF OnTop
<1> QED
  BY <1>2, <1>3, <1>4, <1>5, <1>6, <1>7 DEF InShape

\* The walk passes a window that was not clicked.
LEMMA VisitOtherHolds ==
  ASSUME ListTypeOK, Counted, NEW c, NEW L, InShape(c, L), VisitOther
  PROVE  ListTypeOK' /\ Counted' /\ InShape(c, L)'
<1> USE DEF VisitOther, counters, walk, pointer, ghosts
<1>1. Chain(node, c, L) /\ L \in Nat
  BY ListInShape
<1>2. ListTypeOK'
  BY DEF ListTypeOK
<1>3. Chain(node, c, L)' /\ Open' = Open
  BY <1>1, SameNodes
<1>4. Counted'
  BY <1>3 DEF Counted, Closing
<1>5. Placed(c, L)'
  BY DEF InShape, Placed, Away, Windows
<1>6. ~preempted' => NoneLost(c, L)'
  BY <1>3 DEF InShape, NoneLost, Away, Closing
<1>7. ~preempted' => Clicked(c, L)'
  <2> SUFFICES ASSUME ~preempted, aim # Null, node[aim].window
               PROVE  /\ aim \in hover
                      /\ OnTop(c, L)' \/ AheadAt(c, L, cur, 1)'
    BY DEF InShape, Clicked
  <2>1. aim \in DOMAIN node /\ aim \in hover /\ (OnTop(c, L) \/ AheadAt(c, L, cur, 0))
    BY DEF InShape, Clicked
  <2>2. CASE OnTop(c, L)
    BY <2>1, <2>2 DEF OnTop
  <2>3. CASE AheadAt(c, L, cur, 0)
    <3>1. PICK k \in 1 .. L : cur = c[k] /\ Ahead(c, L, k + 0)
      BY <2>3 DEF AheadAt
    <3>2. PICK t \in k .. L : c[t] = aim /\ \A i \in 1 .. L : c[i] \in hover => k <= i /\ i <= t
      BY <1>1, <3>1 DEF Ahead
    <3>3. c[k] \notin hover /\ c[t] \in hover
      BY <2>1, <3>1, <3>2
    <3>4. t \in k + 1 .. L
      BY <1>1, <3>3
    <3>5. \A i \in 1 .. L : c[i] \in hover => k + 1 <= i /\ i <= t
      BY <1>1, <3>2, <3>3
    <3>6. Ahead(c, L, k + 1)'
      BY <3>2, <3>4, <3>5 DEF Ahead
    <3> QED
      BY <2>1, <3>1, <3>6 DEF AheadAt
  <2> QED
    BY <2>1, <2>2, <2>3
<1> QED
  BY <1>2, <1>3, <1>4, <1>5, <1>6, <1>7 DEF InShape

\* The walk is at a window that was clicked: the topmost one is raised.
LEMMA VisitHoveredHolds ==
  ASSUME ListTypeOK, Counted, NEW c, NEW L, InShape(c, L), VisitHovered
  PROVE  ListTypeOK' /\ Counted' /\ InShape(c, L)'
<1> USE DEF VisitHovered, pointer, ghosts
<1>1. /\ Chain(node, c, L) /\ L \in Nat /\ Listable(node) /\ MaxWindows \in Nat /\ L <= MaxWindows
      /\ \A k \in 0 .. L : c[k] # Null
      /\ Null \notin hover
      /\ \A i, k \in 0 .. L : c[i] = c[k] => i = k
  <2>1. Null \notin hover
    BY DEF ListTypeOK, Nodes, Null, first_node
  <2> QED
    BY <2>1, ListInShape
<1>2. PICK p \in 1 .. L : cur = c[p] /\ c[p] \in hover
  BY DEF InShape, Placed, Windows
<1>3. PICK t \in 1 .. L : c[t] \in hover /\ \A k \in 1 .. L : c[k] \in hover => k <= t
  BY <1>1, <1>2, TopmostThere
<1>4. Topmost(node, hover) = c[t]
  BY <1>1, <1>3, TopmostIs
<1>5. index' = t /\ focus_index' = t
  <2>1. node[c[t]].index = t
    BY DEF InShape, Placed
  <2>2. c[t] # Null
    BY <1>1
  <2> QED
    BY <1>4, <2>1, <2>2
<1>6. ListTypeOK'
  <2>1. t \in 0 .. MaxWindows
    BY <1>1
  <2> QED
    BY <1>5, <2>1 DEF ListTypeOK
<1>7. Chain(node, c, L)' /\ Open' = Open
  BY <1>1, SameNodes
<1>8. Counted'
  BY <1>7 DEF Counted, Closing
<1>9. Placed(c, L)'
  BY <1>2, <1>5 DEF InShape, Placed, Away, Windows
<1>10. ~preempted' => NoneLost(c, L)'
  BY <1>7 DEF InShape, NoneLost, Away, Closing
<1>11. ~preempted' => Clicked(c, L)'
  <2> SUFFICES ASSUME ~preempted, aim # Null, node[aim].window
               PROVE  aim \in hover /\ c[t] = aim
    BY <1>5 DEF InShape, Clicked
  <2>1. aim \in DOMAIN node /\ aim \in hover /\ (OnTop(c, L) \/ AheadAt(c, L, cur, 0))
    BY DEF InShape, Clicked
  <2>2. CASE OnTop(c, L)
    <3>1. L \in 1 .. L /\ c[L] = aim
      BY <1>1, <2>2 DEF OnTop
    <3>2. L <= t
      BY <1>3, <2>1, <3>1
    <3>3. L = t
      BY <1>1, <3>2
    <3> QED
      BY <2>1, <3>1, <3>3
  <2>3. CASE AheadAt(c, L, cur, 0)
    <3>1. PICK k \in 1 .. L : cur = c[k] /\ Ahead(c, L, k + 0)
      BY <2>3 DEF AheadAt
    <3>2. PICK u \in k .. L : c[u] = aim /\ \A i \in 1 .. L : c[i] \in hover => k <= i /\ i <= u
      BY <1>1, <3>1 DEF Ahead
    <3>3. u \in 1 .. L /\ u <= t /\ t <= u
      BY <1>1, <1>3, <2>1, <3>2
    <3>4. u = t
      BY <3>3
    <3> QED
      BY <2>1, <3>2, <3>4
  <2> QED
    BY <2>1, <2>2, <2>3
<1> QED
  BY <1>6, <1>7, <1>8, <1>9, <1>10, <1>11 DEF InShape

\* The windows of the two lists.
LEMMA WithoutWindows ==
  ASSUME NEW c, NEW L \in Nat, NEW p \in 1 .. L,
         \A i, k \in 0 .. L : c[i] = c[k] => i = k
  PROVE  Windows(Without(c, L, p), L - 1) = Windows(c, L) \ {c[p]}
<1> DEFINE d == Without(c, L, p)
<1>1. \A i \in 1 .. L - 1 : /\ i < p => d[i] = c[i] /\ i \in 1 .. L
                            /\ ~(i < p) => d[i] = c[i + 1] /\ i + 1 \in 1 .. L
  BY DEF Without
<1>2. ASSUME NEW i \in 1 .. L - 1 PROVE d[i] \in Windows(c, L) /\ d[i] # c[p]
  <2> DEFINE k == IF i < p THEN i ELSE i + 1
  <2>1. k \in 1 .. L /\ k # p /\ k \in 0 .. L /\ p \in 0 .. L
    OBVIOUS
  <2>2. d[i] = c[k]
    BY <1>1
  <2> HIDE DEF d, k
  <2> QED
    BY <2>1, <2>2 DEF Windows
<1>3. ASSUME NEW k \in 1 .. L, k # p PROVE c[k] \in Windows(d, L - 1)
  <2> DEFINE i == IF k < p THEN k ELSE k - 1
  <2>1. i \in 1 .. L - 1 /\ (i < p => i = k) /\ (~(i < p) => i + 1 = k)
    BY <1>3
  <2>2. d[i] = c[k]
    BY <1>1, <2>1
  <2> HIDE DEF d, i
  <2> QED
    BY <2>1, <2>2 DEF Windows
<1> HIDE DEF d
<1>4. Windows(d, L - 1) \subseteq Windows(c, L) \ {c[p]}
  BY <1>2 DEF Windows
<1>5. Windows(c, L) \ {c[p]} \subseteq Windows(d, L - 1)
  BY <1>3 DEF Windows
<1> QED
  BY <1>4, <1>5 DEF d

\* The same for the list with a node put behind its place j.
LEMMA BehindWindows ==
  ASSUME NEW c, NEW j \in Nat, NEW a
  PROVE  Windows(Behind(c, j, a), j + 1) = Windows(c, j) \cup {a}
<1> DEFINE d == Behind(c, j, a)
<1>1. d[j + 1] = a /\ \A i \in 1 .. j : d[i] = c[i] /\ i \in 1 .. j + 1
  BY DEF Behind
<1>2. j + 1 \in 1 .. j + 1 /\ \A i \in 1 .. j + 1 : i = j + 1 \/ i \in 1 .. j
  OBVIOUS
<1> HIDE DEF d
<1>3. Windows(d, j + 1) \subseteq Windows(c, j) \cup {a}
  BY <1>1, <1>2 DEF Windows
<1>4. Windows(c, j) \cup {a} \subseteq Windows(d, j + 1)
  BY <1>1, <1>2 DEF Windows
<1> QED
  BY <1>3, <1>4 DEF d

\* What leaves the windows of the nodes alone leaves the open windows alone.
LEMMA SameOpen ==
  ASSUME DOMAIN node' = DOMAIN node, \A b \in DOMAIN node : node'[b].window = node[b].window
  PROVE  Open' = Open
<1> QED
  BY DEF Open

\* move_to_top finds its window, which is the last already or is taken out.
LEMMA MoveFindHolds ==
  ASSUME ListTypeOK, Counted, NEW c, NEW L, InShape(c, L), MoveFind
  PROVE  ListTypeOK' /\ Counted' /\ \E d, M : InShape(d, M)'
<1> USE DEF MoveFind, pointer, ghosts
<1>1. /\ Chain(node, c, L) /\ L \in Nat /\ Listable(node) /\ MaxWindows \in Nat /\ L <= MaxWindows
      /\ \A k \in 0 .. L : c[k] \in DOMAIN node /\ c[k] \in Link /\ c[k] # Null
      /\ \A k \in 1 .. L : node[c[k]].window
      /\ \A k \in 0 .. L : node[c[k]].next = IF k = L THEN Null ELSE c[k + 1]
      /\ \A i, k \in 0 .. L : c[i] = c[k] => i = k
  BY ListInShape
<1>2. index \in 1 .. L /\ cur \in Windows(c, L) /\ \A k \in 1 .. L : node[c[k]].index = k
  BY DEF InShape, Placed
<1>3. Search(node, index) = c[index]
  BY <1>1, <1>2, SearchIs
<1>4. index \in 0 .. L /\ index \in 0 .. MaxWindows
  BY <1>1, <1>2
<1>5. CASE node[c[index]].next = Null
  <2>1. focus_index' = index /\ pc' = "exit" /\ UNCHANGED <<node, moving>>
    BY <1>2, <1>3, <1>5
  <2>2. index = L
    <3>1. index # L => index + 1 \in 0 .. L
      BY <1>1, <1>4
    <3> QED
      BY <1>1, <1>4, <1>5, <3>1
  <2>3. ListTypeOK'
    BY <1>4, <2>1 DEF ListTypeOK
  <2>4. Chain(node, c, L)' /\ Open' = Open
    BY <1>1, <2>1, SameNodes
  <2>5. Counted'
    BY <2>1, <2>4 DEF Counted, Closing
  <2>6. Placed(c, L)'
    BY <1>2, <2>1 DEF Placed, Away
  <2>7. ~preempted' => NoneLost(c, L)'
    BY <2>1, <2>4 DEF InShape, NoneLost, Away, Closing
  <2>8. ~preempted' => Clicked(c, L)'
    <3>1. L # 0
      BY <1>1, <1>2
    <3> QED
      BY <2>1, <2>2, <3>1 DEF InShape, Clicked, OnTop
  <2> QED
    BY <2>3, <2>4, <2>5, <2>6, <2>7, <2>8 DEF InShape
<1>6. CASE node[c[index]].next # Null
  <2>1. PICK i \in 1 .. L : i = index
    BY <1>2
  <2> DEFINE d == Without(c, L, i)
             a == c[i]
  <2>2. node' = Unlinked(node, a) /\ moving' = a /\ pc' = "walk" /\ UNCHANGED focus_index
    BY <1>3, <1>6, <2>1
  <2>3. i # L /\ i \in 1 .. L - 1
    BY <1>1, <1>2, <1>4, <1>6, <2>1
  <2>4. /\ Listable(node') /\ Chain(node', d, L - 1) /\ DOMAIN node' = DOMAIN node
        /\ \A b \in DOMAIN node : /\ node'[b].index = node[b].index
                                  /\ node'[b].window = node[b].window
        /\ node'[a].next = d[i]
        /\ \A k \in 0 .. L - 1 : d[k] # a
    BY <1>1, <2>2, <2>3, UnlinkKeeps
  <2>5. Windows(d, L - 1) = Windows(c, L) \ {a}
    BY <1>1, WithoutWindows
  <2>6. Open' = Open
    BY <2>4, SameOpen
  <2>7. a \in DOMAIN node /\ a \in Link /\ node[a].window /\ a \in Windows(c, L)
    BY <1>1, <1>2, <1>4, <2>1 DEF Windows
  <2>8. UNCHANGED <<window_count, id_count, cur, tail, index, hover, exit, aim, preempted>>
    OBVIOUS
  <2> HIDE DEF d, a, MoveFind
  <2>9. ListTypeOK'
    <3>1. /\ DOMAIN node' = first_node .. id_count
          /\ node' \in [DOMAIN node' -> [next : Link, prev : Link, index : 0 .. MaxWindows,
                                         window : BOOLEAN]]
      BY <2>4, ListableType
    <3> QED
      BY <2>8, <2>2, <2>7, <3>1 DEF ListTypeOK
  <2>10. Counted'
    BY <1>2, <2>8, <2>2, <2>6 DEF Counted, Closing, MoveFind
  <2>11. Placed(d, L - 1)'
    <3>1. cur = a \/ cur \in Windows(d, L - 1)
      BY <1>2, <2>5
    <3>2. node'[a].next \in Windows(d, L - 1)
      BY <2>3, <2>4 DEF Windows
    <3> QED
      BY <2>8, <2>2, <2>4, <2>7, <3>1, <3>2 DEF Placed, Away, Windows
  <2>12. ~preempted' => NoneLost(d, L - 1)'
    <3>1. ~preempted => Open = Windows(c, L) /\ window_count + Closing = Cardinality(Open)
      BY DEF InShape, NoneLost, Away, MoveFind
    <3>2. window_count' + Closing' = window_count + Closing
      BY <2>8, <2>2 DEF Closing, MoveFind
    <3>3. (Windows(d, L - 1) \cup {a}) = Windows(c, L)
      BY <2>5, <2>7
    <3> QED
      BY <2>8, <2>2, <2>6, <3>1, <3>2, <3>3 DEF NoneLost, Away, Windows
  <2>13. ~preempted' => Clicked(d, L - 1)'
    <3> SUFFICES ASSUME ~preempted, aim # Null, node'[aim].window
                 PROVE  aim \in hover /\ moving' = aim
      BY <2>8, <2>2, <2>4 DEF InShape, Clicked
    <3>1. aim \in DOMAIN node => node'[aim].window = node[aim].window
      BY <2>4
    <3> QED
      BY <2>2, <2>4, <2>1, <3>1 DEF InShape, Clicked, a, MoveFind
  <2> QED
    BY <2>4, <2>9, <2>10, <2>11, <2>12, <2>13 DEF InShape
<1> QED
  BY <1>5, <1>6

\* move_to_top follows the links of the window it took out to the end of the list.
LEMMA MoveWalkHolds ==
  ASSUME ListTypeOK, Counted, NEW c, NEW L, InShape(c, L), MoveWalk
  PROVE  ListTypeOK' /\ Counted' /\ InShape(c, L)'
<1> USE DEF MoveWalk, counters, pointer, ghosts
<1>1. /\ Chain(node, c, L) /\ L \in Nat /\ MaxWindows \in Nat /\ L <= MaxWindows
      /\ \A k \in 0 .. L : c[k] \in DOMAIN node /\ c[k] \in Link /\ c[k] # Null
      /\ \A k \in 0 .. L : node[c[k]].next = IF k = L THEN Null ELSE c[k + 1]
  BY ListInShape
<1>2. PICK j \in 1 .. L : node[moving].next = c[j]
  BY DEF InShape, Placed, Windows
<1>3. moving # Null
  BY TypeListable DEF InShape, Placed, Away, Listable, Null
<1>4. tail' = c[L]
  <2> DEFINE w == [i \in 0 .. L - j + 1 |-> IF i = 0 THEN moving ELSE c[j + i - 1]]
             K == L - j + 1
  <2>1. K \in 0 .. MaxWindows /\ K # 0 /\ j + K - 1 = L
    BY <1>1
  <2>2. /\ w[0] = moving
        /\ \A i \in 1 .. K : w[i] = c[j + i - 1] /\ j + i - 1 \in 0 .. L
    BY <1>1
  <2>3. w[K] = c[L]
    BY <2>1, <2>2
  <2> HIDE DEF w
  <2>4. \A i \in 0 .. K : w[i] # Null
    BY <1>1, <1>3, <2>2
  <2>5. ASSUME NEW i \in 0 .. K - 1 PROVE node[w[i]].next = w[i + 1]
    <3>1. i + 1 \in 1 .. K
      BY <1>1
    <3>2. CASE i = 0
      <4>1. w[i + 1] = c[j]
        BY <1>1, <2>1, <2>2, <3>1, <3>2
      <4> QED
        BY <1>2, <2>2, <3>2, <4>1
    <3>3. CASE i # 0
      <4>1. /\ i \in 1 .. K /\ j + i - 1 \in 0 .. L /\ j + i - 1 # L
            /\ (j + i - 1) + 1 = j + (i + 1) - 1
        BY <1>1, <3>3
      <4>2. w[i] = c[j + i - 1] /\ w[i + 1] = c[(j + i - 1) + 1]
        BY <2>2, <3>1, <4>1
      <4> QED
        BY <1>1, <4>1, <4>2
    <3> QED
      BY <3>2, <3>3
  <2>6. node[w[K]].next = Null
    BY <1>1, <2>3
  <2>7. Path(node, w, K)
    BY <2>1, <2>4, <2>5, <2>6 DEF Path
  <2> HIDE DEF K
  <2>8. EndOf(node, w[0]) = w[K]
    BY <2>7, EndOnPath
  <2> QED
    BY <2>2, <2>3, <2>8
<1>5. L \in 0 .. L
  BY <1>1
<1>6. ListTypeOK'
  BY <1>1, <1>4, <1>5 DEF ListTypeOK
<1>7. Chain(node, c, L)' /\ Open' = Open
  BY <1>1, SameNodes
<1>8. Counted'
  BY <1>7 DEF Counted, Closing
<1>9. Placed(c, L)'
  BY <1>4, <1>5 DEF InShape, Placed, Away, Windows
<1>10. ~preempted' => NoneLost(c, L)'
  BY <1>4, <1>7 DEF InShape, NoneLost, Away, Closing
<1>11. ~preempted' => Clicked(c, L)'
  BY DEF InShape, Clicked
<1> QED
  BY <1>6, <1>7, <1>8, <1>9, <1>10, <1>11 DEF InShape

\* move_to_top puts the window behind that end, which is no longer the end if a window
\* was made meanwhile: the list is shorter then, and still a list.
LEMMA MoveRelinkHolds ==
  ASSUME ListTypeOK, Counted, NEW c, NEW L, InShape(c, L), MoveRelink
  PROVE  ListTypeOK' /\ Counted' /\ \E d, M : InShape(d, M)'
<1>1. /\ pc = "relink" /\ pc' = "reindex" /\ node' = Relinked(node, moving, tail)
      /\ UNCHANGED <<window_count, id_count, focus_index, cur, moving, tail, index, hover, exit,
                     aim, preempted>>
  BY DEF MoveRelink, counters, walk, pointer, ghosts
<1>2. /\ Listable(node) /\ Chain(node, c, L) /\ L \in Nat
      /\ \A k \in 0 .. L : c[k] # Null
      /\ \A i, k \in 0 .. L : c[i] = c[k] => i = k
  BY ListInShape
<1>3. /\ moving \in DOMAIN node /\ node[moving].window
      /\ \A k \in 0 .. L : c[k] # moving
      /\ \E j \in 0 .. L : tail = c[j] /\ (cur = moving \/ cur \in Windows(c, j))
  BY <1>1 DEF InShape, Placed, Away
<1>4. PICK j \in 0 .. L : tail = c[j] /\ (cur = moving \/ cur \in Windows(c, j))
  BY <1>3
<1>5. PICK a \in DOMAIN node : a = moving
  BY <1>3
<1> DEFINE d == Behind(c, j, a)
           M == j + 1
<1>6. /\ Listable(node') /\ Chain(node', d, M) /\ DOMAIN node' = DOMAIN node
      /\ \A b \in DOMAIN node : node'[b].index = node[b].index /\ node'[b].window = node[b].window
  BY <1>1, <1>2, <1>3, <1>4, <1>5, RelinkKeeps
<1>7. Windows(d, M) = Windows(c, j) \cup {a} /\ d[M] = a
  <2>1. j \in Nat
    BY <1>2
  <2>2. Windows(d, M) = Windows(c, j) \cup {a}
    BY <2>1, BehindWindows
  <2>3. d[M] = a
    BY <2>1 DEF Behind
  <2> QED
    BY <2>2, <2>3
<1> HIDE DEF d, M
<1>8. Open' = Open
  BY <1>6, SameOpen
<1>9. ListTypeOK'
  <2>1. /\ DOMAIN node' = first_node .. id_count
        /\ node' \in [DOMAIN node' -> [next : Link, prev : Link, index : 0 .. MaxWindows,
                                       window : BOOLEAN]]
    BY <1>6, ListableType
  <2> QED
    BY <1>1, <2>1 DEF ListTypeOK
<1>10. Counted'
  BY <1>1, <1>8 DEF Counted, Closing
<1>11. Placed(d, M)'
  <2>1. cur \in Windows(d, M) /\ moving \in Windows(d, M)
    BY <1>4, <1>5, <1>7
  <2> QED
    BY <1>1, <2>1 DEF Placed, Away, Windows
<1>12. ~preempted' => NoneLost(d, M)'
  <2> SUFFICES ASSUME ~preempted PROVE NoneLost(d, M)'
    BY <1>1
  <2>1. /\ Open = Windows(c, L) \cup {moving} /\ tail = c[L]
        /\ window_count + Closing = Cardinality(Open)
    BY <1>1 DEF InShape, NoneLost, Away
  <2>2. j = L
    <3>1. L \in 0 .. L
      BY <1>2
    <3> QED
      BY <1>2, <1>4, <2>1, <3>1
  <2>3. window_count' + Closing' = Cardinality(Open')
    BY <1>1, <1>8, <2>1 DEF Closing
  <2>4. Open' = Windows(d, M)
    BY <1>5, <1>7, <1>8, <2>1, <2>2
  <2> QED
    BY <1>1, <1>5, <1>7, <2>3, <2>4 DEF NoneLost, Away, Windows
<1>13. ~preempted' => Clicked(d, M)'
  BY <1>1, <1>6 DEF InShape, Clicked
<1>14. InShape(d, M)'
  BY <1>6, <1>11, <1>12, <1>13 DEF InShape
<1> QED
  BY <1>9, <1>10, <1>14

\* The window raised gets the focus by its new index.
LEMMA MoveReindexHolds ==
  ASSUME ListTypeOK, Counted, NEW c, NEW L, InShape(c, L), MoveReindex
  PROVE  ListTypeOK' /\ Counted' /\ InShape(c, L)'
<1>1. /\ pc = "reindex" /\ pc' = "exit" /\ node' = Reindexed(node)
      /\ focus_index' = node'[moving].index
      /\ UNCHANGED <<window_count, id_count, cur, moving, tail, index, hover, exit, aim, preempted>>
  BY DEF MoveReindex, walk, pointer, ghosts
<1>2. Listable(node) /\ Chain(node, c, L) /\ L \in Nat /\ MaxWindows \in Nat /\ L <= MaxWindows
  BY ListInShape
<1>3. /\ Listable(node') /\ Chain(node', c, L) /\ DOMAIN node' = DOMAIN node
      /\ \A k \in 1 .. L : node'[c[k]].index = k
      /\ \A b \in DOMAIN node : node'[b].window = node[b].window
  BY <1>1, <1>2, ReindexedIs
<1>4. PICK q \in 1 .. L : moving = c[q] /\ focus_index' = q
  BY <1>1, <1>3 DEF InShape, Placed, Windows
<1>5. Open' = Open
  BY <1>3, SameOpen
<1>6. ListTypeOK'
  <2>1. /\ DOMAIN node' = first_node .. id_count
        /\ node' \in [DOMAIN node' -> [next : Link, prev : Link, index : 0 .. MaxWindows,
                                       window : BOOLEAN]]
    BY <1>3, ListableType
  <2>2. focus_index' \in 0 .. MaxWindows
    BY <1>2, <1>4
  <2> QED
    BY <1>1, <2>1, <2>2 DEF ListTypeOK
<1>7. Counted'
  BY <1>1, <1>5 DEF Counted, Closing
<1>8. Placed(c, L)'
  BY <1>1, <1>3 DEF InShape, Placed, Away, Windows
<1>9. ~preempted' => NoneLost(c, L)'
  BY <1>1, <1>5 DEF InShape, NoneLost, Away, Closing
<1>10. ~preempted' => Clicked(c, L)'
  <2> SUFFICES ASSUME ~preempted PROVE Clicked(c, L)'
    BY <1>1
  <2>1. moving = c[L] /\ Clicked(c, L)
    BY <1>1 DEF InShape, NoneLost
  <2>2. q = L /\ L # 0
    <3>1. L \in 0 .. L /\ q \in 0 .. L /\ L # 0
      BY <1>2
    <3>2. \A i, k \in 0 .. L : c[i] = c[k] => i = k
      BY ListInShape
    <3> QED
      BY <1>4, <2>1, <3>1, <3>2
  <2> QED
    BY <1>1, <1>3, <1>4, <2>1, <2>2 DEF Clicked, OnTop
<1> QED
  BY <1>3, <1>6, <1>7, <1>8, <1>9, <1>10 DEF InShape

\* The walk goes on behind the window that was drawn.
LEMMA ExitOtherHolds ==
  ASSUME ListTypeOK, Counted, NEW c, NEW L, InShape(c, L), ExitOther
  PROVE  ListTypeOK' /\ Counted' /\ InShape(c, L)'
<1>1. /\ pc = "exit" /\ pc' = "visit" /\ cur' = node[cur].next
      /\ UNCHANGED <<node, window_count, id_count, focus_index, moving, tail, index, hover, exit,
                     aim, preempted>>
  BY DEF ExitOther, counters, pointer, ghosts
<1>2. /\ Chain(node, c, L) /\ L \in Nat
      /\ \A k \in 0 .. L : c[k] \in Link
      /\ \A k \in 0 .. L : node[c[k]].next = IF k = L THEN Null ELSE c[k + 1]
      /\ \A i, k \in 0 .. L : c[i] = c[k] => i = k
  BY ListInShape
<1>3. PICK p \in 1 .. L : cur = c[p]
  BY <1>1 DEF InShape, Placed, Windows
<1>4. /\ cur' = IF p = L THEN Null ELSE c[p + 1]
      /\ p # L => p + 1 \in 1 .. L /\ p + 1 \in 0 .. L
      /\ p \in 0 .. L
  BY <1>1, <1>2, <1>3
<1>5. ListTypeOK'
  <2>1. cur' \in Link
    BY <1>2, <1>4 DEF Link
  <2> QED
    BY <1>1, <2>1 DEF ListTypeOK
<1>6. Chain(node, c, L)' /\ Open' = Open
  BY <1>1, <1>2, SameNodes
<1>7. Counted'
  BY <1>1, <1>6 DEF Counted, Closing
<1>8. Placed(c, L)'
  BY <1>1, <1>4 DEF InShape, Placed, Away, Windows
<1>9. ~preempted' => NoneLost(c, L)'
  BY <1>1, <1>6 DEF InShape, NoneLost, Away, Closing
<1>10. ~preempted' => Clicked(c, L)'
  <2> SUFFICES ASSUME ~preempted, aim # Null, node[aim].window
               PROVE  OnTop(c, L)' \/ AheadAt(c, L, cur, 0)'
    BY <1>1 DEF InShape, Clicked
  <2>1. OnTop(c, L) \/ AheadAt(c, L, cur, 1)
    BY <1>1 DEF InShape, Clicked
  <2>2. CASE OnTop(c, L)
    BY <1>1, <2>2 DEF OnTop
  <2>3. CASE AheadAt(c, L, cur, 1)
    <3>1. PICK k \in 1 .. L : cur = c[k] /\ Ahead(c, L, k + 1)
      BY <2>3 DEF AheadAt
    <3>2. k = p
      <4>1. k \in 0 .. L
        BY <1>2
      <4> QED
        BY <1>2, <1>3, <1>4, <3>1, <4>1
    <3>3. p # L
      BY <1>2, <3>1, <3>2 DEF Ahead
    <3>4. Ahead(c, L, p + 1)'
      BY <1>1, <3>1, <3>2 DEF Ahead
    <3>5. (p + 1) + 0 = p + 1 /\ p + 1 \in 1 .. L /\ cur' = c[p + 1]
      BY <1>4, <3>3
    <3> QED
      BY <3>4, <3>5 DEF AheadAt
  <2> QED
    BY <2>1, <2>2, <2>3
<1> QED
  BY <1>5, <1>6, <1>7, <1>8, <1>9, <1>10 DEF InShape

\* The open windows can be counted.
LEMMA OpenFinite ==
  ASSUME ListTypeOK
  PROVE  IsFiniteSet(Open) /\ Cardinality(Open) \in Nat
<1>1. Open \subseteq 0 .. MaxWindows
  BY TypeListable DEF Open, Listable
<1>2. IsFiniteSet(0 .. MaxWindows)
  BY FS_Interval, WindowAssumption
<1> QED
  BY <1>1, <1>2, FS_Subset, FS_CardinalityType

\* delete_window counts first: there is a window to be counted.
LEMMA ExitClickedHolds ==
  ASSUME ListTypeOK, Counted, NEW c, NEW L, InShape(c, L), ExitClicked
  PROVE  ListTypeOK' /\ Counted' /\ InShape(c, L)'
<1>1. /\ pc = "exit" /\ pc' = "close" /\ cur \in exit /\ focus_index = node[cur].index
      /\ index' = node[cur].index /\ window_count' = window_count - 1
      /\ UNCHANGED <<node, id_count, focus_index, cur, moving, tail, hover, exit, aim, preempted>>
  BY DEF ExitClicked, CountedDown, pointer, ghosts
<1>2. /\ Chain(node, c, L) /\ L \in Nat /\ MaxWindows \in Nat /\ L <= MaxWindows
      /\ \A k \in 1 .. L : node[c[k]].window
      /\ \A k \in 0 .. L : c[k] \in DOMAIN node
      /\ \A i, k \in 0 .. L : c[i] = c[k] => i = k
  BY ListInShape
<1>3. PICK p \in 1 .. L : cur = c[p] /\ index' = p /\ focus_index = p
  BY <1>1 DEF InShape, Placed, Windows
<1>4. p \in 0 .. L /\ p \in 0 .. MaxWindows
  BY <1>2
<1>5. Chain(node, c, L)' /\ Open' = Open
  BY <1>1, <1>2, SameNodes
<1>6. window_count \in Nat /\ window_count >= 1 /\ window_count <= MaxWindows
  <2>1. cur \in Open
    BY <1>2, <1>3, <1>4 DEF Open
  <2>2. IsFiniteSet(Open) /\ Cardinality(Open) \in Nat /\ Cardinality(Open) # 0
    BY <2>1, OpenFinite, FS_EmptySet
  <2>3. window_count + 0 >= Cardinality(Open)
    BY <1>1 DEF Counted, Closing
  <2>4. window_count \in Nat /\ window_count <= MaxWindows
    BY <1>2 DEF ListTypeOK
  <2> QED
    BY <2>2, <2>3, <2>4
<1>7. ListTypeOK'
  <2>1. window_count' \in 0 .. MaxWindows /\ index' \in 0 .. MaxWindows
    BY <1>1, <1>2, <1>3, <1>4, <1>6
  <2> QED
    BY <1>1, <2>1 DEF ListTypeOK
<1>8. window_count' + Closing' = window_count + Closing
  BY <1>1, <1>6 DEF Closing
<1>9. Counted'
  <2>1. window_count' <= id_count'
    <3>1. window_count <= id_count /\ id_count \in Nat
      BY <1>2 DEF Counted, ListTypeOK
    <3> QED
      BY <1>1, <1>6, <3>1
  <2> QED
    BY <1>5, <1>8, <2>1 DEF Counted
<1>10. Placed(c, L)'
  BY <1>1, <1>3 DEF InShape, Placed, Away, Windows
<1>11. ~preempted' => NoneLost(c, L)'
  BY <1>1, <1>5, <1>8 DEF InShape, NoneLost, Away
<1>12. ~preempted' => Clicked(c, L)'
  <2> SUFFICES ASSUME ~preempted, aim # Null, node[aim].window
               PROVE  cur = aim \/ Ahead(c, L, p + 1)'
    BY <1>1, <1>3 DEF InShape, Clicked
  <2>1. OnTop(c, L) \/ AheadAt(c, L, cur, 1)
    BY <1>1 DEF InShape, Clicked
  <2>2. CASE OnTop(c, L)
    BY <1>3, <2>2 DEF OnTop
  <2>3. CASE AheadAt(c, L, cur, 1)
    <3>1. PICK k \in 1 .. L : cur = c[k] /\ Ahead(c, L, k + 1)
      BY <2>3 DEF AheadAt
    <3>2. k = p
      <4>1. k \in 0 .. L
        BY <1>2
      <4> QED
        BY <1>2, <1>3, <1>4, <3>1, <4>1
    <3> QED
      BY <1>1, <3>1, <3>2 DEF Ahead
  <2> QED
    BY <2>1, <2>2, <2>3
<1> QED
  BY <1>5, <1>7, <1>9, <1>10, <1>11, <1>12 DEF InShape

\* delete_window finds the window that the walk is at and takes it out.
LEMMA DeleteUnlinkHolds ==
  ASSUME ListTypeOK, Counted, NEW c, NEW L, InShape(c, L), DeleteUnlink
  PROVE  ListTypeOK' /\ Counted' /\ \E d, M : InShape(d, M)'
<1>1. /\ Listable(node) /\ Chain(node, c, L) /\ L \in Nat /\ MaxWindows \in Nat /\ L <= MaxWindows
      /\ \A k \in 0 .. L : c[k] \in DOMAIN node /\ c[k] \in Link /\ c[k] # Null
      /\ \A k \in 1 .. L : node[c[k]].window
      /\ \A i, k \in 0 .. L : c[i] = c[k] => i = k
  BY ListInShape
<1>2. pc = "close"
  BY DEF DeleteUnlink
<1>3. /\ index \in 1 .. L /\ c[index] = cur
      /\ \A k \in 1 .. L : node[c[k]].index = k
  BY <1>2 DEF InShape, Placed
<1>4. PICK i \in 1 .. L : i = index
  BY <1>3
<1>5. PICK a : a = cur
  OBVIOUS
<1>6. i \in 0 .. L /\ c[i] = a /\ Search(node, index) = a /\ a # Null
  BY <1>1, <1>3, <1>4, <1>5, SearchIs
<1>7. /\ node' = Unlinked(node, a) /\ moving' = a /\ pc' = "drop"
      /\ UNCHANGED <<window_count, id_count, focus_index, cur, tail, index, hover, exit, aim,
                     preempted>>
  BY <1>6 DEF DeleteUnlink, counters, pointer, ghosts
<1> DEFINE d == Without(c, L, i)
           M == L - 1
<1>8. /\ Listable(node') /\ Chain(node', d, M) /\ DOMAIN node' = DOMAIN node
      /\ \A b \in DOMAIN node : node'[b].index = node[b].index /\ node'[b].window = node[b].window
      /\ node'[a].next = IF i = L THEN Null ELSE d[i]
      /\ \A k \in 0 .. M : d[k] # a
  BY <1>1, <1>6, <1>7, UnlinkKeeps
<1>9. Windows(d, M) = Windows(c, L) \ {a}
  BY <1>1, <1>6, WithoutWindows
<1>10. \A k \in 1 .. M : /\ k < i => d[k] = c[k] /\ k \in 1 .. L
                         /\ ~(k < i) => d[k] = c[k + 1] /\ k + 1 \in 1 .. L
  BY <1>1 DEF Without
<1>11. M \in Int /\ M + 1 = L
  BY <1>1
<1> HIDE DEF d, M
<1>12. Open' = Open /\ a \in Windows(c, L)
  BY <1>6, <1>8, SameOpen DEF Windows
<1>13. ListTypeOK'
  <2>1. /\ DOMAIN node' = first_node .. id_count
        /\ node' \in [DOMAIN node' -> [next : Link, prev : Link, index : 0 .. MaxWindows,
                                       window : BOOLEAN]]
    BY <1>8, ListableType
  <2> QED
    BY <1>5, <1>7, <2>1 DEF ListTypeOK
<1>14. window_count' + Closing' = window_count + Closing
  BY <1>2, <1>7 DEF Closing
<1>15. Counted'
  BY <1>7, <1>12, <1>14 DEF Counted
<1>16. Placed(d, M)'
  <2>1. i # L => i \in 1 .. M
    BY <1>1, <1>11
  <2>2. a \in DOMAIN node /\ node[a].window
    BY <1>1, <1>6
  <2> QED
    BY <1>5, <1>7, <1>8, <2>1, <2>2 DEF Placed, Away, Windows
<1>17. ~preempted' => NoneLost(d, M)'
  <2> SUFFICES ASSUME ~preempted PROVE NoneLost(d, M)'
    BY <1>7
  <2>1. Open = Windows(c, L) /\ window_count + Closing = Cardinality(Open)
    BY <1>2 DEF InShape, NoneLost, Away
  <2>2. Windows(d, M) \cup {a} = Windows(c, L)
    BY <1>9, <1>12
  <2> QED
    BY <1>7, <1>12, <1>14, <2>1, <2>2 DEF NoneLost, Away, Windows
<1>18. ~preempted' => Clicked(d, M)'
  <2> SUFFICES ASSUME ~preempted, aim # Null, node'[aim].window
               PROVE  /\ aim \in DOMAIN node /\ aim \in hover
                      /\ a = aim \/ AheadAt(d, M, node[a].next, 0)'
    BY <1>7, <1>8 DEF InShape, Clicked
  <2>1. aim \in DOMAIN node
    BY DEF InShape, Clicked
  <2>2. aim \in hover /\ (a = aim \/ Ahead(c, L, i + 1))
    BY <1>2, <1>4, <1>5, <1>8, <2>1 DEF InShape, Clicked
  <2>3. CASE Ahead(c, L, i + 1)
    <3>1. PICK t \in i + 1 .. L :
            c[t] = aim /\ \A k \in 1 .. L : c[k] \in hover => i + 1 <= k /\ k <= t
      BY <2>3 DEF Ahead
    <3>2. PICK s \in i .. M : s + 1 = t
      <4>1. t - 1 \in i .. M /\ (t - 1) + 1 = t
        BY <1>1, <1>11, <3>1
      <4> QED
        BY <4>1
    <3>3. s \in 1 .. M /\ ~(s < i) /\ i # L /\ i \in 1 .. M
      BY <1>1, <1>11, <3>2
    <3>4. d[s] = aim
      BY <1>10, <3>1, <3>2, <3>3
    <3>5. ASSUME NEW k \in 1 .. M, d[k] \in hover PROVE i <= k /\ k <= s
      <4>1. CASE k < i
        <5>1. i + 1 <= k
          BY <1>10, <3>1, <3>5, <4>1
        <5> QED
          BY <4>1, <5>1
      <4>2. CASE ~(k < i)
        <5>1. k + 1 <= s + 1
          BY <1>10, <3>1, <3>2, <3>5, <4>2
        <5> QED
          BY <3>3, <4>2, <5>1
      <4> QED
        BY <4>1, <4>2
    <3>6. Ahead(d, M, i + 0)'
      BY <1>7, <3>2, <3>4, <3>5 DEF Ahead
    <3>7. node'[a].next = d[i]
      BY <1>8, <3>3
    <3> QED
      BY <2>1, <2>2, <3>3, <3>6, <3>7 DEF AheadAt
  <2> QED
    BY <2>1, <2>2, <2>3
<1>19. InShape(d, M)'
  BY <1>8, <1>16, <1>17, <1>18 DEF InShape
<1> QED
  BY <1>13, <1>15, <1>19

\* The window taken out is gone, and the walk goes on at a window of the list or at its
\* end.
LEMMA DeleteDropHolds ==
  ASSUME ListTypeOK, Counted, NEW c, NEW L, InShape(c, L), DeleteDrop
  PROVE  ListTypeOK' /\ Counted' /\ InShape(c, L)'
<1> DEFINE n == [node EXCEPT ![moving].window = FALSE]
<1>1. /\ pc = "drop" /\ pc' = "visit" /\ node' = Reindexed(n) /\ cur' = node[cur].next
      /\ UNCHANGED <<window_count, id_count, focus_index, moving, tail, index, hover, exit, aim,
                     preempted>>
  BY DEF DeleteDrop, counters, pointer, ghosts
<1>2. /\ Listable(node) /\ Chain(node, c, L) /\ L \in Nat
      /\ \A k \in 0 .. L : c[k] \in DOMAIN node /\ c[k] \in Link
  BY ListInShape
<1>3. /\ moving \in DOMAIN node /\ node[moving].window /\ \A k \in 0 .. L : c[k] # moving
      /\ cur = moving /\ (cur' = Null \/ cur' \in Windows(c, L))
  BY <1>1 DEF InShape, Placed, Away
<1>4. /\ DOMAIN n = DOMAIN node /\ n = [b \in DOMAIN node |-> n[b]]
      /\ n[moving] = [node[moving] EXCEPT !.window = FALSE]
      /\ \A b \in DOMAIN node : b # moving => n[b] = node[b]
  BY <1>2, <1>3 DEF Listable
<1> HIDE DEF n
<1>5. /\ \A b \in DOMAIN node : node[b] \in Fields
      /\ n[moving] \in Fields /\ n[moving].window = FALSE
  <2>1. \A b \in DOMAIN node : node[b] \in Fields
    BY <1>2 DEF Listable
  <2> QED
    BY <1>3, <1>4, <2>1 DEF Fields
<1>6. Listable(n)
  BY <1>2, <1>4, <1>5 DEF Listable
<1>7. Chain(n, c, L)
  <2>1. /\ \A k \in 0 .. L : n[c[k]] = node[c[k]]
        /\ L \in 0 .. L
        /\ \A k \in 1 .. L : k \in 0 .. L
        /\ \A k \in 0 .. L - 1 : k \in 0 .. L /\ k + 1 \in 0 .. L
    BY <1>2, <1>3, <1>4
  <2> QED
    BY <1>2, <1>4, <2>1 DEF Chain
<1>8. /\ Listable(node') /\ Chain(node', c, L) /\ DOMAIN node' = DOMAIN node
      /\ \A k \in 1 .. L : node'[c[k]].index = k
      /\ \A b \in DOMAIN node : node'[b].window = n[b].window
  BY <1>1, <1>4, <1>6, <1>7, ReindexedIs
<1>9. Open' = Open \ {moving} /\ moving \in Open
  BY <1>3, <1>4, <1>5, <1>8 DEF Open
<1>10. Cardinality(Open') = Cardinality(Open) - 1 /\ Cardinality(Open) \in Nat
  BY <1>9, OpenFinite, FS_RemoveElement
<1>11. ListTypeOK'
  <2>1. /\ DOMAIN node' = first_node .. id_count
        /\ node' \in [DOMAIN node' -> [next : Link, prev : Link, index : 0 .. MaxWindows,
                                       window : BOOLEAN]]
    BY <1>8, ListableType
  <2>2. cur' \in Link
    <3>1. \A k \in 1 .. L : k \in 0 .. L
      BY <1>2
    <3> QED
      BY <1>2, <1>3, <3>1 DEF Link, Windows
  <2> QED
    BY <1>1, <2>1, <2>2 DEF ListTypeOK
<1>12. /\ window_count' + Closing' = (window_count + Closing) - 1
       /\ window_count + Closing \in Int
  <2>1. window_count \in Int
    BY DEF ListTypeOK
  <2> QED
    BY <1>1, <2>1 DEF Closing
<1>13. Counted'
  BY <1>1, <1>10, <1>12 DEF Counted
<1>14. Placed(c, L)'
  BY <1>1, <1>3, <1>8 DEF Placed, Away, Windows
<1>15. ~preempted' => NoneLost(c, L)'
  <2> SUFFICES ASSUME ~preempted PROVE NoneLost(c, L)'
    BY <1>1
  <2>1. Open = Windows(c, L) \cup {moving} /\ window_count + Closing = Cardinality(Open)
    BY <1>1 DEF InShape, NoneLost, Away
  <2>2. moving \notin Windows(c, L)
    <3>1. \A k \in 1 .. L : k \in 0 .. L
      BY <1>2
    <3> QED
      BY <1>3, <3>1 DEF Windows
  <2>3. Open' = Windows(c, L)
    BY <1>9, <2>1, <2>2
  <2>4. window_count' + Closing' = Cardinality(Open')
    BY <1>10, <1>12, <2>1
  <2> QED
    BY <1>1, <2>3, <2>4 DEF NoneLost, Away, Windows
<1>16. ~preempted' => Clicked(c, L)'
  <2> SUFFICES ASSUME ~preempted, aim # Null, node'[aim].window
               PROVE  aim \in hover /\ AheadAt(c, L, cur, 0)'
    BY <1>1, <1>8 DEF InShape, Clicked
  <2>1. aim \in DOMAIN node
    BY DEF InShape, Clicked
  <2>2. aim # moving /\ node[aim].window
    BY <1>4, <1>5, <1>8, <2>1
  <2>3. aim \in hover /\ AheadAt(c, L, node[moving].next, 0)
    BY <1>1, <2>2 DEF InShape, Clicked
  <2> QED
    BY <1>1, <1>3, <2>3 DEF AheadAt, Ahead
<1> QED
  BY <1>8, <1>11, <1>13, <1>14, <1>15, <1>16 DEF InShape

\* create_window, at any point of a frame, leaves a list and every place remembered in
\* it.
LEMMA CreateHolds ==
  ASSUME ListTypeOK, Counted, NEW c, NEW L, InShape(c, L), create_window
  PROVE  ListTypeOK' /\ Counted' /\ \E d, M : InShape(d, M)'
<1>1. /\ Listable(node) /\ Chain(node, c, L) /\ L \in Nat /\ MaxWindows \in Nat /\ L <= MaxWindows
      /\ \A k \in 0 .. L : c[k] \in DOMAIN node /\ c[k] # Null /\ node[c[k]] \in Fields
      /\ c[0] = first_node /\ EndOf(node, first_node) = c[L]
  BY ListInShape
<1>2. PICK new : new = id_count + 1
  OBVIOUS
<1>3. /\ id_count \in Nat /\ new \in 1 .. MaxWindows /\ new \notin DOMAIN node
      /\ DOMAIN node = 0 .. id_count /\ id_count < MaxWindows
      /\ DOMAIN node \cup {new} = 0 .. new
  BY <1>1, <1>2 DEF create_window, ListTypeOK, first_node
<1>4. /\ window_count' = window_count + 1 /\ id_count' = new
      /\ preempted' = (preempted \/ pc # "idle") /\ aim' = IF pc = "idle" THEN Null ELSE aim
      /\ UNCHANGED <<focus_index, pc, cur, moving, tail, index>> /\ Appears(new)
  BY <1>2 DEF create_window, walk
<1>5. window_count \in Nat /\ window_count <= id_count
  BY <1>1 DEF ListTypeOK, Counted
<1> DEFINE strange == window_count' > 1 /\ node[c[L]].prev = Null
           lost == [next |-> Null, prev |-> Null, index |-> 1, window |-> FALSE]
<1>6. IF strange
      THEN node' = [a \in DOMAIN node \cup {new} |-> IF a = new THEN lost ELSE node[a]]
      ELSE node' = Reindexed(Grown(node, new, c[L]))
  BY <1>1, <1>2 DEF create_window, Grown, NewNode
<1>7. /\ window_count' \in 0 .. MaxWindows /\ id_count' \in 0 .. MaxWindows
      /\ window_count' <= id_count' /\ aim' \in Link /\ preempted' \in BOOLEAN
      /\ hover' \subseteq Nodes /\ exit' \subseteq Nodes
  <2>1. hover \subseteq Nodes /\ exit \subseteq Nodes /\ new \in Nodes
    BY <1>3 DEF ListTypeOK, Nodes, first_node
  <2>2. hover' \subseteq Nodes /\ exit' \subseteq Nodes
    BY <1>4, <2>1 DEF Appears, pointer
  <2> QED
    BY <1>1, <1>2, <1>3, <1>4, <1>5, <2>2 DEF ListTypeOK, Link
<1>8. Closing' = Closing /\ Closing \in Int /\ (Away' <=> Away)
  BY <1>4 DEF Closing, Away
<1>9. CASE strange
  <2>1. /\ DOMAIN node' = DOMAIN node \cup {new} /\ node'[new] = lost
        /\ \A a \in DOMAIN node : node'[a] = node[a]
        /\ node' = [a \in DOMAIN node \cup {new} |-> node'[a]]
    BY <1>3, <1>6, <1>9
  <2> DEFINE fields == [next : Link, prev : Link, index : 0 .. MaxWindows, window : BOOLEAN]
  <2>2. node' \in [0 .. new -> fields]
    <3>1. lost \in fields
      <4>1. 1 \in 0 .. MaxWindows /\ Null \in Link
        BY <1>1, <1>3 DEF Link
      <4> QED
        BY <4>1
    <3>2. \A a \in DOMAIN node : node[a] \in fields
      BY DEF ListTypeOK
    <3> HIDE DEF fields, lost
    <3> QED
      BY <1>3, <2>1, <3>1, <3>2
  <2>3. ListTypeOK'
    BY <1>3, <1>4, <1>7, <2>1, <2>2 DEF ListTypeOK, first_node
  <2>4. Open' = Open
    BY <1>3, <2>1 DEF Open
  <2>5. Counted'
    <3>1. Cardinality(Open) \in Nat
      BY OpenFinite
    <3> QED
      BY <1>4, <1>5, <1>7, <1>8, <2>4, <3>1 DEF Counted
  <2>6. Chain(node', c, L)
    <3>1. /\ L \in 0 .. L
          /\ \A k \in 1 .. L : k \in 0 .. L
          /\ \A k \in 0 .. L - 1 : k \in 0 .. L /\ k + 1 \in 0 .. L
          /\ \A k \in 0 .. L : node'[c[k]] = node[c[k]] /\ c[k] \in DOMAIN node'
      BY <1>1, <2>1
    <3> QED
      BY <1>1, <2>1, <3>1 DEF Chain
  <2>7. Placed(c, L)'
    <3>1. \A k \in 1 .. L : node'[c[k]] = node[c[k]]
      <4>1. \A k \in 1 .. L : k \in 0 .. L
        BY <1>1
      <4> QED
        BY <1>1, <2>1, <4>1
    <3>2. Away => /\ node'[moving] = node[moving] /\ moving \in DOMAIN node'
                  /\ moving \in DOMAIN node
      BY <2>1 DEF InShape, Placed
    <3> QED
      BY <1>4, <1>8, <3>1, <3>2 DEF InShape, Placed, Windows, Away
  <2>8. preempted'
    <3> SUFFICES ASSUME ~preempted, pc = "idle" PROVE FALSE
      BY <1>4
    <3>1. Open = Windows(c, L) /\ window_count + 0 = Cardinality(Open)
      BY DEF InShape, NoneLost, Away, Closing
    <3>2. L = 0
      <4> SUFFICES ASSUME L # 0 PROVE FALSE
        OBVIOUS
      <4>1. L - 1 \in 0 .. L - 1 /\ (L - 1) + 1 = L /\ L - 1 \in 0 .. L
        BY <1>1
      <4>2. node[c[L]].prev = c[L - 1]
        BY <1>1, <4>1 DEF Chain
      <4> QED
        BY <1>1, <1>9, <4>1, <4>2
    <3>3. Open = {}
      BY <3>1, <3>2 DEF Windows
    <3> QED
      BY <1>4, <1>5, <1>9, <3>1, <3>3, FS_EmptySet
  <2>9. InShape(c, L)'
    BY <2>6, <2>7, <2>8 DEF InShape
  <2> QED
    BY <2>3, <2>5, <2>9
<1>10. CASE ~strange
  <2>1. PICK n : n = Grown(node, new, c[L])
    OBVIOUS
  <2> DEFINE d == Behind(c, L, new)
             M == L + 1
  <2>2. /\ Listable(n) /\ Chain(n, d, M)
        /\ DOMAIN n = DOMAIN node \cup {new} /\ n[new].window
        /\ \A b \in DOMAIN node : /\ n[b].window = node[b].window
                                  /\ b # c[L] => n[b].next = node[b].next
    <3> HIDE DEF strange, lost
    <3>1. Listable(node) /\ Chain(node, c, L) /\ new \in 1 .. MaxWindows /\ new \notin DOMAIN node
      BY <1>1, <1>3
    <3>2. Listable(n) /\ Chain(n, d, M)
      BY <2>1, <3>1, AppendKeeps
    <3>3. DOMAIN n = DOMAIN node \cup {new} /\ n[new].window
      BY <2>1, <3>1, AppendKeeps
    <3>4. \A b \in DOMAIN node : n[b] = IF b = c[L] THEN [node[b] EXCEPT !.next = new] ELSE node[b]
      BY <2>1, <3>1 DEF Grown
    <3>5. L \in 0 .. L /\ node[c[L]] \in Fields
      BY <1>1
    <3>6. [node[c[L]] EXCEPT !.next = new].window = node[c[L]].window
      BY <3>5 DEF Fields
    <3> QED
      BY <3>2, <3>3, <3>4, <3>6
  <2>3. node' = Reindexed(n)
    BY <1>6, <1>10, <2>1
  <2>4. Windows(d, M) = Windows(c, L) \cup {new}
    BY <1>1, BehindWindows
  <2>5. /\ \A k \in 0 .. L : d[k] = c[k] /\ k \in 0 .. M
        /\ \A k \in 0 .. M : k \in 0 .. L \/ d[k] = new
    BY <1>1 DEF Behind
  <2> HIDE DEF d, M
  <2>6. /\ Listable(node') /\ Chain(node', d, M) /\ DOMAIN node' = DOMAIN node \cup {new}
        /\ \A k \in 1 .. M : node'[d[k]].index = k
        /\ node'[new].window
        /\ \A b \in DOMAIN node : /\ node'[b].window = node[b].window
                                  /\ b # c[L] => node'[b].next = node[b].next
    <3> HIDE DEF strange, lost
    <3>1. /\ Listable(node') /\ Chain(node', d, M) /\ DOMAIN node' = DOMAIN n
          /\ \A k \in 1 .. M : node'[d[k]].index = k
      BY <2>2, <2>3, ReindexedIs
    <3>2. \A b \in DOMAIN n : node'[b].window = n[b].window /\ node'[b].next = n[b].next
      BY <2>2, <2>3, ReindexedIs
    <3> QED
      BY <2>2, <3>1, <3>2
  <2>7. ListTypeOK'
    <3>1. /\ DOMAIN node' = 0 .. new
          /\ node' \in [0 .. new -> [next : Link, prev : Link, index : 0 .. MaxWindows,
                                     window : BOOLEAN]]
      BY <1>3, <2>6 DEF Listable, Fields
    <3> QED
      BY <1>4, <1>7, <3>1 DEF ListTypeOK, first_node
  <2>8. Open' = Open \cup {new} /\ new \notin Open
    BY <1>3, <2>6 DEF Open
  <2>9. Cardinality(Open') = Cardinality(Open) + 1 /\ Cardinality(Open) \in Nat
    BY <2>8, OpenFinite, FS_AddElement
  <2>10. Counted'
    BY <1>4, <1>5, <1>7, <1>8, <2>9 DEF Counted
  <2>11. Placed(d, M)'
    <3>1. Windows(c, L) \subseteq Windows(d, M)
      BY <2>4
    <3>2. \A j \in 0 .. L : Windows(d, j) = Windows(c, j)
      <4>1. \A j \in 0 .. L : \A k \in 1 .. j : k \in 0 .. L
        BY <1>1
      <4> QED
        BY <2>5, <4>1 DEF Windows
    <3>3. pc = "visit" => cur = Null \/ cur \in Windows(d, M)
      BY <3>1 DEF InShape, Placed
    <3>4. pc \in {"find", "exit", "close", "reindex"} => cur \in Windows(d, M)
      BY <3>1 DEF InShape, Placed
    <3>5. pc \in {"find", "close"} => index \in 1 .. L /\ index \in 1 .. M /\ index \in 0 .. L
      BY <1>1 DEF InShape, Placed, M
    <3>6. pc = "close" => d[index] = cur
      BY <2>5, <3>5 DEF InShape, Placed
    <3>7. Away => /\ moving \in DOMAIN node /\ moving \in DOMAIN node' /\ node'[moving].window
                  /\ \A k \in 0 .. M : d[k] # moving
                  /\ node'[moving].next = node[moving].next
      <4> SUFFICES ASSUME Away
                   PROVE  /\ moving \in DOMAIN node /\ moving \in DOMAIN node'
                          /\ node'[moving].window
                          /\ \A k \in 0 .. M : d[k] # moving
                          /\ node'[moving].next = node[moving].next
        OBVIOUS
      <4>1. moving \in DOMAIN node /\ node[moving].window /\ \A k \in 0 .. L : c[k] # moving
        BY DEF InShape, Placed
      <4>2. moving # c[L] /\ moving # new
        BY <1>1, <1>3, <4>1
      <4> QED
        BY <2>5, <2>6, <4>1, <4>2
    <3>8. pc = "walk" => /\ cur = moving \/ cur \in Windows(d, M)
                         /\ node'[moving].next \in Windows(d, M)
      BY <3>1, <3>7 DEF InShape, Placed, Away
    <3>9. pc = "relink" => \E j \in 0 .. M : tail = d[j] /\ (cur = moving \/ cur \in Windows(d, j))
      BY <2>5, <3>2 DEF InShape, Placed
    <3>10. pc = "reindex" => moving \in Windows(d, M)
      BY <3>1 DEF InShape, Placed
    <3>11. pc = "drop" => /\ cur = moving
                          /\ node'[moving].next = Null \/ node'[moving].next \in Windows(d, M)
      BY <3>1, <3>7 DEF InShape, Placed, Away
    <3>12. Windows(d, M)' = Windows(d, M) /\ \A j : Windows(d, j)' = Windows(d, j)
      BY DEF Windows
    <3> QED
      BY <1>4, <1>8, <2>6, <3>3, <3>4, <3>5, <3>6, <3>7, <3>8, <3>9, <3>10, <3>11, <3>12
         DEF Placed
  <2>12. ~preempted' => NoneLost(d, M)' /\ Clicked(d, M)'
    <3> SUFFICES ASSUME ~preempted, pc = "idle" PROVE NoneLost(d, M)' /\ Clicked(d, M)'
      BY <1>4
    <3>1. Open = Windows(c, L) /\ window_count + Closing = Cardinality(Open)
      BY DEF InShape, NoneLost, Away
    <3>2. window_count' + Closing' = Cardinality(Open')
      BY <1>4, <1>5, <1>8, <2>9, <3>1
    <3>3. NoneLost(d, M)'
      BY <1>4, <2>4, <2>8, <3>1, <3>2 DEF NoneLost, Away, Windows
    <3>4. Clicked(d, M)'
      BY <1>4 DEF Clicked
    <3> QED
      BY <3>3, <3>4
  <2>13. InShape(d, M)'
    BY <2>6, <2>11, <2>12 DEF InShape
  <2> QED
    BY <2>7, <2>10, <2>13
<1> QED
  BY <1>9, <1>10

-----------------------------------------------------------------------------
(* What the invariant of WindowList gives. *)

\* The list starts empty.
LEMMA InitHolds == ListInit => WInv
<1> SUFFICES ASSUME ListInit PROVE WInv
  OBVIOUS
<1> USE DEF ListInit, first_node
<1>1. MaxWindows \in Nat \ {0} /\ 0 \in Nodes /\ Null \in Link
  BY WindowAssumption DEF Nodes, Link
<1> DEFINE head == [next |-> Null, prev |-> Null, index |-> 0, window |-> FALSE]
<1>2. /\ node \in [DOMAIN node -> Fields] /\ DOMAIN node = 0 .. 0
  BY <1>1 DEF Fields
<1>3. ListTypeOK
  BY <1>1, <1>2 DEF ListTypeOK, Fields
<1>4. Open = {}
  BY DEF Open
<1>5. Counted
  BY <1>4, FS_EmptySet DEF Counted, Closing
<1>6. PICK c : c = [k \in 0 .. 0 |-> 0]
  OBVIOUS
<1>7. Chain(node, c, 0)
  BY <1>1, <1>2, <1>6 DEF Chain
<1>8. Placed(c, 0) /\ Clicked(c, 0)
  BY DEF Placed, Clicked, Away
<1>9. NoneLost(c, 0)
  BY <1>4, FS_EmptySet DEF NoneLost, Away, Closing, Windows
<1> QED
  BY <1>3, <1>5, <1>7, <1>8, <1>9 DEF WInv, InShape

\* Every step keeps the invariant.
LEMMA StepHolds == WInv /\ [ListNext]_listVars => WInv'
<1> SUFFICES ASSUME WInv, [ListNext]_listVars PROVE WInv'
  OBVIOUS
<1>1. ListTypeOK /\ Counted
  BY DEF WInv
<1>2. PICK c, L : InShape(c, L)
  BY DEF WInv
<1>3. CASE UNCHANGED listVars
  <2>1. UNCHANGED <<node, window_count, id_count, focus_index, pc, cur, moving, tail, index,
                    hover, exit, aim, preempted>>
    BY <1>3 DEF listVars, counters, walk, pointer, ghosts
  <2>2. Open' = Open /\ Closing' = Closing
    BY <2>1 DEF Open, Closing
  <2>3. ListTypeOK' /\ Counted'
    BY <1>1, <2>1, <2>2 DEF ListTypeOK, Counted
  <2>4. Chain(node, c, L)' /\ Placed(c, L)'
    BY <1>2, <2>1 DEF InShape, Chain, Placed, Windows, Away
  <2>5. ~preempted' => NoneLost(c, L)'
    BY <1>2, <2>1, <2>2 DEF InShape, NoneLost, Windows, Away
  <2>6. ~preempted' => Clicked(c, L)'
    BY <1>2, <2>1 DEF InShape, Clicked, OnTop, AheadAt, Ahead
  <2> QED
    BY <2>3, <2>4, <2>5, <2>6 DEF WInv, InShape
<1>4. CASE create_window
  BY <1>1, <1>2, <1>4, CreateHolds DEF WInv
<1>5. CASE HandleBegin
  BY <1>1, <1>2, <1>5, HandleBeginHolds DEF WInv
<1>6. CASE HandleEnd
  BY <1>1, <1>2, <1>6, HandleEndHolds DEF WInv
<1>7. CASE VisitHovered
  BY <1>1, <1>2, <1>7, VisitHoveredHolds DEF WInv
<1>8. CASE VisitOther
  BY <1>1, <1>2, <1>8, VisitOtherHolds DEF WInv
<1>9. CASE MoveFind
  BY <1>1, <1>2, <1>9, MoveFindHolds DEF WInv
<1>10. CASE MoveWalk
  BY <1>1, <1>2, <1>10, MoveWalkHolds DEF WInv
<1>11. CASE MoveRelink
  BY <1>1, <1>2, <1>11, MoveRelinkHolds DEF WInv
<1>12. CASE MoveReindex
  BY <1>1, <1>2, <1>12, MoveReindexHolds DEF WInv
<1>13. CASE ExitClicked
  BY <1>1, <1>2, <1>13, ExitClickedHolds DEF WInv
<1>14. CASE ExitOther
  BY <1>1, <1>2, <1>14, ExitOtherHolds DEF WInv
<1>15. CASE DeleteUnlink
  BY <1>1, <1>2, <1>15, DeleteUnlinkHolds DEF WInv
<1>16. CASE DeleteDrop
  BY <1>1, <1>2, <1>16, DeleteDropHolds DEF WInv
<1> QED
  BY <1>3, <1>4, <1>5, <1>6, <1>7, <1>8, <1>9, <1>10, <1>11, <1>12, <1>13, <1>14, <1>15, <1>16
     DEF ListNext, Main

\* The list is whole in every state, and the main loop where it may be.
THEOREM ListInvariance == ListSpec => []WInv
<1> QED
  BY InitHolds, StepHolds, PTL DEF ListSpec

\* What the invariant says of the list between two frames.
LEMMA Whole ==
  ASSUME ListTypeOK, pc = "idle", ~preempted, NEW c, NEW L, InShape(c, L)
  PROVE  /\ Listed(node) = Open /\ Length(node) = Cardinality(Open) /\ Length(node) = L
         /\ window_count = Length(node)
         /\ \A k \in 1 .. L : node[c[k]].index = k /\ Step(node, first_node, k) = c[k]
<1>1. /\ Listable(node) /\ Chain(node, c, L) /\ L \in Nat /\ L <= MaxWindows
      /\ MaxWindows \in Nat
  BY ListInShape
<1>2. Listed(node) = Windows(c, L) /\ Length(node) = L
  BY <1>1, ListedIs DEF Windows
<1>3. Open = Windows(c, L) /\ window_count + Closing = Cardinality(Open)
  BY DEF InShape, NoneLost, Away
<1>4. window_count = Cardinality(Open)
  <2>1. window_count \in Int /\ Closing = 0
    BY DEF ListTypeOK, Closing
  <2> QED
    BY <1>3, <2>1
<1>5. Cardinality(Open) = L
  <2>1. \A k \in 1 .. L : k \in 0 .. L
    BY <1>1
  <2> DEFINE f == [k \in 1 .. L |-> c[k]]
  <2>2. f \in Bijection(1 .. L, Windows(c, L))
    BY <1>1, <2>1 DEF Bijection, Injection, Surjection, IsInjective, Windows, Chain
  <2>3. IsFiniteSet(1 .. L) /\ Cardinality(1 .. L) = L
    BY <1>1, FS_Interval
  <2> HIDE DEF f
  <2>4. Cardinality(Windows(c, L)) = Cardinality(1 .. L)
    BY <2>2, <2>3, FS_Bijection DEF ExistsBijection
  <2> QED
    BY <1>3, <2>3, <2>4
<1>6. \A k \in 1 .. L : node[c[k]].index = k
  BY DEF InShape, Placed
<1>7. \A k \in 1 .. L : Step(node, first_node, k) = c[k]
  <2>1. \A k \in 1 .. L : k \in 1 .. MaxWindows
    BY <1>1
  <2> QED
    BY <1>1, <2>1, StepIs
<1> QED
  BY <1>2, <1>3, <1>4, <1>5, <1>6, <1>7

\* Between two frames no open window is lost, and the list can be walked both ways.
THEOREM WindowsKept == ListSpec => []ListKeepsWindows
<1>1. WInv => ListKeepsWindows
  <2> SUFFICES ASSUME WInv PROVE ListKeepsWindows
    OBVIOUS
  <2>1. ListTypeOK
    BY DEF WInv
  <2> SUFFICES ASSUME pc = "idle", ~preempted
               PROVE  /\ Listed(node) = Open /\ Length(node) = Cardinality(Open)
                      /\ \A a \in Listed(node) : node[node[a].prev].next = a
    BY <2>1 DEF ListKeepsWindows
  <2>2. PICK c, L : InShape(c, L)
    BY DEF WInv
  <2>3. Listed(node) = Open /\ Length(node) = Cardinality(Open)
    BY <2>1, <2>2, Whole
  <2>4. ASSUME NEW a \in Listed(node) PROVE node[node[a].prev].next = a
    <3>1. Listed(node) = Windows(c, L) /\ Chain(node, c, L) /\ L \in Nat
      BY <2>1, <2>2, ListInShape
    <3>2. PICK k \in 1 .. L : a = c[k]
      BY <2>4, <3>1 DEF Windows
    <3>3. k - 1 \in 0 .. L - 1 /\ (k - 1) + 1 = k
      BY <3>1
    <3>4. node[c[k - 1]].next = c[k] /\ node[c[k]].prev = c[k - 1]
      BY <3>1, <3>3 DEF Chain
    <3> QED
      BY <3>2, <3>4
  <2> QED
    BY <2>3, <2>4
<1> QED
  BY <1>1, ListInvariance, PTL

\* Between two frames window_count is the length of the list and each index the place
\* in it.
THEOREM IndexesRight == ListSpec => []IndexIsPlace
<1>1. WInv => IndexIsPlace
  <2> SUFFICES ASSUME WInv, pc = "idle", ~preempted
               PROVE  /\ window_count = Length(node)
                      /\ \A k \in 1 .. Length(node) : node[Step(node, first_node, k)].index = k
    BY DEF IndexIsPlace
  <2>1. ListTypeOK
    BY DEF WInv
  <2>2. PICK c, L : InShape(c, L)
    BY DEF WInv
  <2> QED
    BY <2>1, <2>2, Whole
<1> QED
  BY <1>1, ListInvariance, PTL

\* The topmost window that is clicked gets on top, with the focus, or is closed.
THEOREM ClickRaises == ListSpec => []ClickReachesTopmost
<1>1. WInv => ClickReachesTopmost
  <2> SUFFICES ASSUME WInv, pc = "idle", ~preempted, aim # Null, node[aim].window
               PROVE  EndOf(node, first_node) = aim /\ focus_index = node[aim].index
    BY DEF ClickReachesTopmost
  <2>1. ListTypeOK
    BY DEF WInv
  <2>2. PICK c, L : InShape(c, L)
    BY DEF WInv
  <2>3. L # 0 /\ c[L] = aim /\ focus_index = L
    BY <2>2 DEF InShape, Clicked, OnTop
  <2>4. EndOf(node, first_node) = c[L] /\ L \in 1 .. L
    BY <2>1, <2>2, <2>3, ListInShape
  <2>5. node[c[L]].index = L
    BY <2>2, <2>4 DEF InShape, Placed
  <2> QED
    BY <2>3, <2>4, <2>5
<1> QED
  BY <1>1, ListInvariance, PTL

\* handle draws no window that is gone, also when windows are made in the middle of a
\* frame.
THEOREM OpenWindowsDrawn == ListSpec => []DrawsOpenWindows
<1>1. WInv => DrawsOpenWindows
  <2> SUFFICES ASSUME WInv, pc \in {"visit", "exit"}, cur # Null PROVE node[cur].window
    BY DEF DrawsOpenWindows
  <2>1. ListTypeOK
    BY DEF WInv
  <2>2. PICK c, L : InShape(c, L)
    BY DEF WInv
  <2>3. PICK p \in 1 .. L : cur = c[p]
    BY <2>2 DEF InShape, Placed, Windows
  <2> QED
    BY <2>1, <2>2, <2>3, ListInShape
<1> QED
  BY <1>1, ListInvariance, PTL

-----------------------------------------------------------------------------
(* Blocks: the copies and fills. *)

\* The largest of the numbers up to m.
LEMMA MaxTop ==
  ASSUME NEW m \in Nat, NEW S \in SUBSET (1 .. m), m \in S
  PROVE  Max(S) = m
<1>1. \A x \in S : (\A y \in S : x >= y) <=> x = m
  <2> SUFFICES ASSUME NEW x \in S PROVE (\A y \in S : x >= y) <=> x = m
    OBVIOUS
  <2>1. x \in 1 .. m /\ \A y \in S : y \in 1 .. m
    OBVIOUS
  <2> QED
    BY <2>1
<1> QED
  BY <1>1 DEF Max

\* A loop of memcopy, turn by turn.
LEMMA Turns ==
  ASSUME NEW mem, NEW d, NEW s, NEW n, NEW k \in Nat
  PROVE  \E A : /\ A[0] = mem
                /\ \A j \in 1 .. k : A[j] = Moved(A[j - 1], d + (j - 1) * n, s + (j - 1) * n, n)
                /\ Loop(mem, d, s, n, k) = A[k]
<1> DEFINE seq == [i \in 1 .. k |-> i]
           Turn(f, S) == Moved(f[S \ {Max(S)}], d + (seq[Max(S)] - 1) * n,
                               s + (seq[Max(S)] - 1) * n, n)
           Solves(f, m) == f = [S \in SUBSET (1 .. m) |-> IF S = {} THEN mem ELSE Turn(f, S)]
           Unsolved == {m \in Nat : m <= k /\ \A f : ~Solves(f, m)}
<1>1. Unsolved = {}
  <2> SUFFICES ASSUME Unsolved # {} PROVE FALSE
    OBVIOUS
  <2>1. PICK m \in Unsolved : \A j \in Unsolved : m <= j
    <3>1. Unsolved \in SUBSET Nat
      OBVIOUS
    <3> HIDE DEF Unsolved
    <3> QED
      BY <3>1, LeastNumber
  <2>2. m \in Nat /\ m <= k /\ \A f : ~Solves(f, m)
    OBVIOUS
  <2>3. CASE m = 0
    <3> DEFINE f == [S \in SUBSET (1 .. 0) |-> mem]
    <3>1. \A S \in SUBSET (1 .. 0) : S = {}
      OBVIOUS
    <3>2. Solves(f, 0)
      <4> HIDE DEF Turn
      <4> QED
        BY <3>1
    <3> QED
      BY <2>2, <2>3, <3>2
  <2>4. CASE m # 0
    <3>1. m - 1 \in Nat /\ m - 1 \notin Unsolved /\ m - 1 <= k
      <4>1. m - 1 \in Nat /\ ~(m <= m - 1) /\ m - 1 <= k
        BY <2>2, <2>4
      <4> HIDE DEF Unsolved
      <4> QED
        BY <2>1, <4>1
    <3>2. PICK f : Solves(f, m - 1)
      BY <3>1
    <3> DEFINE g == [S \in SUBSET (1 .. m) |->
                       IF m \in S THEN Turn(f, S) ELSE f[S]]
    <3>3. ASSUME NEW S \in SUBSET (1 .. m)
          PROVE  g[S] = IF S = {} THEN mem ELSE Turn(g, S)
      <4>1. CASE m \in S
        <5>1. Max(S) = m
          BY <2>2, <4>1, MaxTop
        <5>2. S \ {m} \in SUBSET (1 .. m) /\ m \notin S \ {m} /\ S # {}
          BY <4>1
        <5>3. g[S \ {Max(S)}] = f[S \ {Max(S)}]
          BY <5>1, <5>2
        <5> QED
          BY <4>1, <5>2, <5>3
      <4>2. CASE m \notin S
        <5>1. S \in SUBSET (1 .. m - 1)
          BY <2>2, <4>2
        <5>2. f[S] = IF S = {} THEN mem ELSE Turn(f, S)
          <6> HIDE DEF Turn
          <6> QED
            BY <3>2, <5>1
        <5>3. S \ {Max(S)} \in SUBSET (1 .. m) /\ m \notin S \ {Max(S)}
          BY <4>2
        <5>4. g[S] = f[S] /\ g[S \ {Max(S)}] = f[S \ {Max(S)}]
          BY <4>2, <5>3
        <5> QED
          BY <5>2, <5>4
      <4> QED
        BY <4>1, <4>2
    <3>4. Solves(g, m)
      <4> DEFINE h == [S \in SUBSET (1 .. m) |-> IF S = {} THEN mem ELSE Turn(g, S)]
      <4>1. \A S \in SUBSET (1 .. m) : g[S] = h[S]
        <5> HIDE DEF Turn, g
        <5> QED
          BY <3>3
      <4>2. g = h
        <5> HIDE DEF Turn
        <5>1. g = [S \in SUBSET (1 .. m) |-> g[S]] /\ h = [S \in SUBSET (1 .. m) |-> h[S]]
          OBVIOUS
        <5> HIDE DEF g, h
        <5> QED
          BY <4>1, <5>1
      <4> QED
        BY <4>2
    <3> HIDE DEF Solves
    <3> QED
      BY <2>2, <3>4
  <2> QED
    BY <2>3, <2>4
<1>2. \E f : Solves(f, k)
  <2>1. k \notin Unsolved
    <3> HIDE DEF Unsolved
    <3> QED
      BY <1>1
  <2> HIDE DEF Solves
  <2> QED
    BY <2>1
<1> DEFINE It == CHOOSE f : Solves(f, k)
<1>3. Solves(It, k)
  <2> HIDE DEF Solves
  <2> QED
    BY <1>2
<1>4. Loop(mem, d, s, n, k) = It[1 .. k]
  <2>1. DOMAIN seq = 1 .. k
    OBVIOUS
  <2> DEFINE At == CHOOSE f : f = [S \in SUBSET DOMAIN seq |-> IF S = {} THEN mem ELSE Turn(f, S)]
  <2>2. Loop(mem, d, s, n, k) = At[DOMAIN seq]
    BY DEF Loop, FoldLeft, MapThenFoldSet
  <2>3. At = It
    <3> HIDE DEF seq, Turn
    <3> QED
      BY <2>1
  <2> HIDE DEF At, It
  <2> QED
    BY <2>1, <2>2, <2>3
<1> HIDE DEF It
<1>5. \A S \in SUBSET (1 .. k) : It[S] = IF S = {} THEN mem ELSE Turn(It, S)
  <2> HIDE DEF Turn
  <2> QED
    BY <1>3
<1> DEFINE A == [j \in 0 .. k |-> It[1 .. j]]
<1>6. A[0] = mem /\ A[k] = It[1 .. k]
  <2>1. 1 .. 0 = {} /\ 1 .. 0 \in SUBSET (1 .. k) /\ 0 \in 0 .. k /\ k \in 0 .. k
    OBVIOUS
  <2> HIDE DEF Turn
  <2> QED
    BY <1>5, <2>1
<1>7. ASSUME NEW j \in 1 .. k
      PROVE  A[j] = Moved(A[j - 1], d + (j - 1) * n, s + (j - 1) * n, n)
  <2>1. /\ 1 .. j \in SUBSET (1 .. k) /\ j \in Nat /\ j \in 1 .. j /\ j \in 0 .. k
        /\ j - 1 \in 0 .. k /\ (1 .. j) \ {j} = 1 .. j - 1
    OBVIOUS
  <2>2. Max(1 .. j) = j
    BY <2>1, MaxTop
  <2>3. It[1 .. j] = Turn(It, 1 .. j)
    <3> HIDE DEF Turn
    <3>1. 1 .. j # {}
      BY <2>1
    <3> QED
      BY <1>5, <2>1, <3>1
  <2>4. seq[j] = j
    OBVIOUS
  <2>5. Turn(It, 1 .. j) = Moved(It[1 .. j - 1], d + (j - 1) * n, s + (j - 1) * n, n)
    BY <2>1, <2>2, <2>4, Zenon
  <2> QED
    BY <2>1, <2>3, <2>5
<1> HIDE DEF A
<1> QED
  BY <1>4, <1>6, <1>7
\* A memory of the addresses D, whose bytes are in B.
IsMemory(mem, D, B) == D \subseteq Int /\ mem \in [D -> B]

\* n bytes at s, for a target d that is not inside them above the first.
Source(D, s, d, n) ==
    /\ s \in Int /\ d \in Int /\ n \in Nat
    /\ s .. s + n - 1 \subseteq D
    /\ d <= s \/ s + n <= d

\* The bytes of k units of n.
Units(k, n) == k * n

\* The first bytes of a source are a source, and so are those behind them.
LEMMA SourceParts ==
  ASSUME NEW D, NEW s, NEW d, NEW n \in Nat, NEW p \in Nat, Source(D, s, d, p + n)
  PROVE  /\ Source(D, s, d, p)
         /\ Source(D, s + p, d + p, n)
  BY DEF Source

\* One unit of a loop is a copy of n bytes.
LEMMA OneUnit ==
  ASSUME NEW mem, NEW D, NEW B, IsMemory(mem, D, B), NEW d, NEW s, NEW n, Source(D, s, d, n)
  PROVE  Moved(mem, d, s, n) = Copied(mem, d, s, n)
<1>1. ASSUME NEW a \in DOMAIN mem
      PROVE  (a \in d .. d + n - 1 <=> a - d \in 0 .. n - 1) /\ a - d + s = s + (a - d)
  <2>1. a \in Int /\ d \in Int /\ s \in Int /\ n \in Nat
    BY DEF IsMemory, Source
  <2> QED
    BY <2>1
<1> QED
  BY <1>1 DEF Moved, Copied

\* A copy changes neither the addresses nor what a byte is.
LEMMA CopyKeeps ==
  ASSUME NEW mem, NEW D, NEW B, IsMemory(mem, D, B), NEW d, NEW s, NEW n, Source(D, s, d, n)
  PROVE  IsMemory(Copied(mem, d, s, n), D, B)
<1>1. ASSUME NEW a \in D, a - d \in 0 .. n - 1
      PROVE  s + (a - d) \in D
  <2>1. a \in Int /\ d \in Int /\ s \in Int /\ n \in Nat
    BY DEF IsMemory, Source
  <2>2. s + (a - d) \in s .. s + n - 1
    BY <1>1, <2>1
  <2> QED
    BY <2>2 DEF Source
<1> QED
  BY <1>1 DEF IsMemory, Copied

\* Two copies, the second going on where the first stopped, are one copy.
LEMMA TwoCopies ==
  ASSUME NEW mem, NEW D, NEW B, IsMemory(mem, D, B), NEW d, NEW s,
         NEW p \in Nat, NEW n \in Nat, Source(D, s, d, p + n)
  PROVE  Copied(Copied(mem, d, s, p), d + p, s + p, n) = Copied(mem, d, s, p + n)
<1> DEFINE C == Copied(mem, d, s, p)
<1>1. d \in Int /\ s \in Int /\ D \subseteq Int /\ DOMAIN mem = D
  BY DEF IsMemory, Source
<1>2. DOMAIN C = D /\ \A a \in D : C[a] = IF a - d \in 0 .. p - 1 THEN mem[s + (a - d)] ELSE mem[a]
  BY <1>1 DEF Copied
<1>3. ASSUME NEW a \in D
      PROVE  (IF a - (d + p) \in 0 .. n - 1 THEN C[s + p + (a - (d + p))] ELSE C[a])
               = IF a - d \in 0 .. p + n - 1 THEN mem[s + (a - d)] ELSE mem[a]
  <2>1. a \in Int
    BY <1>1
  <2>2. PICK b \in Int : b = s + (a - d) /\ s + p + (a - (d + p)) = b
    BY <1>1, <2>1
  <2>3. CASE a - (d + p) \in 0 .. n - 1
    <3>1. b \in D /\ b - d \notin 0 .. p - 1 /\ a - d \in 0 .. p + n - 1
      BY <1>1, <2>1, <2>2, <2>3 DEF Source
    <3>2. C[b] = mem[b]
      <4> HIDE DEF C
      <4> QED
        BY <1>2, <3>1
    <3> HIDE DEF C
    <3> QED
      BY <2>2, <2>3, <3>1, <3>2
  <2>4. CASE a - (d + p) \notin 0 .. n - 1
    <3>1. a - d \in 0 .. p + n - 1 <=> a - d \in 0 .. p - 1
      BY <1>1, <2>1, <2>4
    <3> HIDE DEF C
    <3> QED
      BY <1>2, <2>4, <3>1
  <2> QED
    BY <2>3, <2>4
<1> HIDE DEF C
<1>4. Copied(C, d + p, s + p, n) = Copied(mem, d, s, p + n)
  BY <1>1, <1>2, <1>3 DEF Copied
<1> QED
  BY <1>4 DEF C

\* A loop of k units of n bytes copies k * n bytes.
LEMMA LoopCopies ==
  ASSUME NEW mem, NEW D, NEW B, IsMemory(mem, D, B), NEW d, NEW s,
         NEW n \in Nat, NEW k \in Nat, Source(D, s, d, Units(k, n))
  PROVE  Loop(mem, d, s, n, k) = Copied(mem, d, s, Units(k, n))
<1>1. PICK A : /\ A[0] = mem
               /\ \A j \in 1 .. k : A[j] = Moved(A[j - 1], d + (j - 1) * n, s + (j - 1) * n, n)
               /\ Loop(mem, d, s, n, k) = A[k]
  BY Turns
<1> DEFINE Wrong == {j \in Nat : j <= k /\ A[j] # Copied(mem, d, s, Units(j, n))}
<1>2. Wrong = {}
  <2> SUFFICES ASSUME Wrong # {} PROVE FALSE
    OBVIOUS
  <2>1. PICK j \in Wrong : \A i \in Wrong : j <= i
    <3>1. Wrong \in SUBSET Nat
      OBVIOUS
    <3> HIDE DEF Wrong
    <3> QED
      BY <3>1, LeastNumber
  <2>2. j \in Nat /\ j <= k /\ A[j] # Copied(mem, d, s, Units(j, n))
    OBVIOUS
  <2>3. CASE j = 0
    <3>1. Copied(mem, d, s, 0) = [a \in D |-> mem[a]]
      <4>1. ASSUME NEW a \in D PROVE a - d \notin 0 .. 0 - 1
        OBVIOUS
      <4> QED
        BY <4>1 DEF Copied, IsMemory
    <3>2. mem = [a \in D |-> mem[a]]
      BY DEF IsMemory
    <3>3. A[0] = Copied(mem, d, s, 0)
      BY <1>1, <3>1, <3>2
    <3>4. Units(0, n) = 0
      BY DEF Units
    <3> QED
      BY <2>2, <2>3, <3>3, <3>4
  <2>4. CASE j # 0
    <3>1. j - 1 \in Nat /\ j - 1 <= k /\ ~(j <= j - 1) /\ j \in 1 .. k
      BY <2>2, <2>4
    <3>2. j - 1 \notin Wrong
      <4> HIDE DEF Wrong
      <4> QED
        BY <2>1, <3>1
    <3>3. PICK p \in Nat : p = (j - 1) * n
      BY <3>1
    <3>4. A[j - 1] = Copied(mem, d, s, p)
      BY <3>1, <3>2, <3>3 DEF Units
    <3>5. PICK r \in Nat : k = j + r
      <4>1. k - j \in Nat /\ k = j + (k - j)
        BY <2>2
      <4> QED
        BY <4>1
    <3>6. PICK q \in Nat : q = r * n
      BY <3>5
    <3>7. Units(j, n) = p + n /\ Units(k, n) = (p + n) + q
      BY <2>2, <3>3, <3>5, <3>6 DEF Units
    <3> HIDE DEF Wrong
    <3>8. Source(D, s, d, p + n)
      <4>1. PICK e \in Nat : e = p + n
        OBVIOUS
      <4>2. Source(D, s, d, e + q)
        BY <3>7, <4>1
      <4>3. Source(D, s, d, e)
        BY <4>2, SourceParts
      <4> QED
        BY <4>1, <4>3
    <3>9. Source(D, s, d, p) /\ Source(D, s + p, d + p, n)
      BY <3>8, SourceParts
    <3>10. PICK C : C = Copied(mem, d, s, p) /\ IsMemory(C, D, B)
      BY <3>9, CopyKeeps
    <3>11. A[j] = Moved(C, d + p, s + p, n)
      BY <1>1, <3>1, <3>3, <3>4, <3>10
    <3>12. Moved(C, d + p, s + p, n) = Copied(C, d + p, s + p, n)
      BY <3>9, <3>10, OneUnit
    <3>13. Copied(C, d + p, s + p, n) = Copied(mem, d, s, p + n)
      BY <3>8, <3>10, TwoCopies
    <3> QED
      BY <2>2, <3>7, <3>11, <3>12, <3>13
  <2> QED
    BY <2>3, <2>4
<1>3. k \notin Wrong
  <2> HIDE DEF Wrong
  <2> QED
    BY <1>2
<1> QED
  BY <1>1, <1>3

\* A loop that goes on where a copy stopped copies the rest.
LEMMA LoopGoesOn ==
  ASSUME NEW mem, NEW D, NEW B, IsMemory(mem, D, B), NEW d, NEW s, NEW n \in Nat, NEW k \in Nat,
         NEW p \in Nat, Source(D, s, d, p + Units(k, n))
  PROVE  Loop(Copied(mem, d, s, p), d + p, s + p, n, k) = Copied(mem, d, s, p + Units(k, n))
<1>1. PICK q \in Nat : q = Units(k, n)
  BY DEF Units
<1>2. Source(D, s, d, p) /\ Source(D, s + p, d + p, q)
  BY <1>1, SourceParts
<1>3. PICK C : C = Copied(mem, d, s, p) /\ IsMemory(C, D, B)
  BY <1>2, CopyKeeps
<1>4. Loop(C, d + p, s + p, n, k) = Copied(C, d + p, s + p, q)
  BY <1>1, <1>2, <1>3, LoopCopies
<1>5. Copied(C, d + p, s + p, q) = Copied(mem, d, s, p + q)
  BY <1>1, <1>3, TwoCopies
<1> QED
  BY <1>1, <1>3, <1>4, <1>5

\* memcopy moves exactly the n bytes, for every memory, every length and every
\* target that does not lie inside the source above its first byte.
THEOREM CopyExact ==
  ASSUME NEW Addresses \in SUBSET Int, NEW Bytes, NEW mem \in [Addresses -> Bytes],
         NEW d \in Int, NEW s \in Int, NEW n \in Nat,
         s .. s + n - 1 \subseteq Addresses,
         d <= s \/ s + n <= d
  PROVE  memcopy(mem, d, s, n) = Copied(mem, d, s, n)
<1>1. PICK x \in Nat, y \in Nat, z \in Nat : x = n \div 16 /\ y = (n % 16) \div 8 /\ z = n % 8
  OBVIOUS
<1>2. PICK wide \in Nat, long \in Nat : wide = 16 * x /\ long = wide + 8 * y
  OBVIOUS
<1>3. memcopy(mem, d, s, n)
        = Loop(Loop(Loop(mem, d, s, 16, x), d + wide, s + wide, 8, y), d + long, s + long, 1, z)
  BY <1>1, <1>2 DEF memcopy
<1>4. n = long + z
  BY <1>1, <1>2
<1>5. wide = Units(x, 16) /\ long = wide + Units(y, 8) /\ n = long + Units(z, 1)
  BY <1>2, <1>4 DEF Units
<1>6. IsMemory(mem, Addresses, Bytes) /\ Source(Addresses, s, d, n)
  BY DEF IsMemory, Source
<1>7. Source(Addresses, s, d, long)
  BY <1>4, <1>6, SourceParts
<1>8. Source(Addresses, s, d, wide)
  <2>1. Units(y, 8) \in Nat
    BY DEF Units
  <2> QED
    BY <1>5, <1>7, <2>1, SourceParts
<1>9. Loop(mem, d, s, 16, x) = Copied(mem, d, s, wide)
  BY <1>5, <1>6, <1>8, LoopCopies
<1>10. Loop(Copied(mem, d, s, wide), d + wide, s + wide, 8, y) = Copied(mem, d, s, long)
  BY <1>5, <1>6, <1>7, LoopGoesOn
<1>11. Loop(Copied(mem, d, s, long), d + long, s + long, 1, z) = Copied(mem, d, s, n)
  BY <1>5, <1>6, LoopGoesOn
<1> QED
  BY <1>3, <1>9, <1>10, <1>11

\* memset repeats the 32-bit word from its start over exactly the n bytes, for
\* every memory and every length.
THEOREM FillExact ==
  ASSUME NEW Addresses \in SUBSET Int, NEW Bytes, NEW mem \in [Addresses -> Bytes],
         NEW start \in Int, NEW word, NEW n \in Nat
  PROVE  memset(mem, start, word, n) = Filled(mem, start, word, n)
<1> DEFINE x == n \div 8
           z == n % 8
           qwords == 8 * x
<1>1. x \in Nat /\ z \in 0 .. 7 /\ n = 8 * x + z
  OBVIOUS
<1>2. memset(mem, start, word, n)
        = [a \in DOMAIN mem |->
             IF a \in start .. start + qwords - 1 THEN word[((a - start) % 8) % 4]
             ELSE IF a \in start + qwords .. start + n - 1 THEN word[(a - start - qwords) % 4]
             ELSE mem[a]]
  BY DEF memset
<1> HIDE DEF x, z
<1>3. ASSUME NEW a \in DOMAIN mem
      PROVE  (IF a \in start .. start + qwords - 1 THEN word[((a - start) % 8) % 4]
              ELSE IF a \in start + qwords .. start + n - 1 THEN word[(a - start - qwords) % 4]
              ELSE mem[a])
               = IF a - start \in 0 .. n - 1 THEN word[(a - start) % 4] ELSE mem[a]
  <2>1. a \in Int
    OBVIOUS
  <2>2. ((a - start) % 8) % 4 = (a - start) % 4
    BY <2>1
  <2>3. (a - start - qwords) % 4 = (a - start) % 4
    BY <1>1, <2>1
  <2>4. /\ a - start \in 0 .. n - 1
             <=> a \in start .. start + qwords - 1 \/ a \in start + qwords .. start + n - 1
        /\ qwords \in Nat
    BY <1>1, <2>1
  <2> QED
    BY <2>2, <2>3, <2>4
<1> HIDE DEF qwords
<1> QED
  BY <1>2, <1>3 DEF Filled

\* The copies and fills that draw a window are exact, wherever it was dragged to.
THEOREM BlocksHold == Spec => []BlocksExact
<1>1. IInv => BlocksExact
  <2> SUFFICES ASSUME IInv, open PROVE BlocksExact
    BY DEF BlocksExact
  <2>1. position.x \in Int
    BY DEF IInv, OnScreen
  <2> DEFINE d == (position.x + 1) % 32
             start == position.x % 32
             word == [i \in 0 .. 3 |-> 100 + i]
  <2>2. d \in 0 .. 31 /\ start \in 0 .. 31
    BY <2>1
  <2>3. Memory \in [0 .. 79 -> 0 .. 79] /\ 0 .. 79 \in SUBSET Int
    BY DEF Memory
  <2> HIDE DEF d, start, word
  <2>4. ASSUME NEW n \in Lengths, NEW s \in {32, 43}
        PROVE  memcopy(Memory, d, s, n) = Copied(Memory, d, s, n)
    <3>1. n \in 0 .. 33 /\ n \in Nat /\ s \in Int /\ d \in Int /\ d <= s
      BY <2>2 DEF Lengths
    <3>2. s .. s + n - 1 \subseteq 0 .. 79
      BY <3>1
    <3> QED
      BY <2>3, <3>1, <3>2, CopyExact
  <2>5. ASSUME NEW n \in 0 .. 34
        PROVE  memset(Memory, start, word, n) = Filled(Memory, start, word, n)
    BY <2>2, <2>3, FillExact
  <2> QED
    BY <2>4, <2>5 DEF BlocksExact, d, start, word
<1> QED
  BY <1>1, Invariance, PTL

-----------------------------------------------------------------------------
(* Numbers: what to_string writes, and what strtoi reads of it. *)

\* The values that the loops of to_string go through are defined by their recursion.
LEMMA DividedDefined ==
  ASSUME NEW v \in Nat
  PROVE  Divided(v) = [k \in 0 .. v |-> IF k = 0 THEN v ELSE Divided(v)[k - 1] \div 10]
<1> DEFINE IsDivided(f, n) == f = [k \in 0 .. n |-> IF k = 0 THEN v ELSE f[k - 1] \div 10]
           Solved == {n \in Nat : \E f : IsDivided(f, n)}
<1>1. 0 \in Solved
  <2> DEFINE f == [k \in 0 .. 0 |-> v]
  <2>1. \A k \in 0 .. 0 : k = 0
    OBVIOUS
  <2>2. IsDivided(f, 0)
    BY <2>1
  <2> HIDE DEF IsDivided
  <2> QED
    BY <2>2
<1>2. ASSUME NEW n \in Solved PROVE n + 1 \in Solved
  <2>1. n \in Nat
    OBVIOUS
  <2>2. PICK f : IsDivided(f, n)
    OBVIOUS
  <2> DEFINE g == [k \in 0 .. n + 1 |-> IF k = n + 1 THEN f[n] \div 10 ELSE f[k]]
  <2>3. ASSUME NEW k \in 0 .. n + 1
        PROVE  g[k] = IF k = 0 THEN v ELSE g[k - 1] \div 10
    <3>1. CASE k = n + 1
      <4>1. g[k] = f[n] \div 10 /\ k # 0 /\ k - 1 = n /\ n \in 0 .. n + 1 /\ n # n + 1
        BY <2>1, <3>1
      <4>2. g[n] = f[n]
        BY <4>1
      <4> QED
        BY <4>1, <4>2
    <3>2. CASE k # n + 1
      <4>1. k \in 0 .. n /\ g[k] = f[k]
        BY <2>1, <3>2
      <4>2. f[k] = IF k = 0 THEN v ELSE f[k - 1] \div 10
        BY <2>2, <4>1
      <4>3. k # 0 => k - 1 \in 0 .. n + 1 /\ k - 1 # n + 1
        BY <2>1, <4>1
      <4>4. k # 0 => g[k - 1] = f[k - 1]
        BY <4>3
      <4> QED
        BY <4>1, <4>2, <4>4
    <3> QED
      BY <3>1, <3>2
  <2>4. IsDivided(g, n + 1)
    <3> DEFINE h == [k \in 0 .. n + 1 |-> IF k = 0 THEN v ELSE g[k - 1] \div 10]
    <3>1. \A k \in 0 .. n + 1 : g[k] = h[k]
      <4> HIDE DEF g
      <4> QED
        BY <2>3
    <3>2. g = [k \in 0 .. n + 1 |-> g[k]] /\ h = [k \in 0 .. n + 1 |-> h[k]]
      OBVIOUS
    <3>3. g = h
      <4> HIDE DEF g, h
      <4> QED
        BY <3>1, <3>2
    <3> HIDE DEF g
    <3> QED
      BY <3>3
  <2> HIDE DEF IsDivided
  <2> QED
    BY <2>1, <2>4
<1>3. \E f : IsDivided(f, v)
  <2>1. v \in Solved
    <3>1. Solved \in SUBSET Nat
      OBVIOUS
    <3> HIDE DEF Solved
    <3> QED
      BY <1>1, <1>2, <3>1, AllNumbers
  <2> HIDE DEF IsDivided
  <2> QED
    BY <2>1
<1> QED
  BY <1>3 DEF Divided

\* They go down, and each is the one before but for its last digit.
LEMMA Quotients ==
  ASSUME NEW v \in Nat
  PROVE  /\ Divided(v)[0] = v
         /\ \A k \in 0 .. v : Divided(v)[k] \in Nat /\ Divided(v)[k] <= v - k
         /\ \A k \in 1 .. v : Divided(v)[k] = Divided(v)[k - 1] \div 10
<1> DEFINE q == Divided(v)
<1>1. q = [k \in 0 .. v |-> IF k = 0 THEN v ELSE q[k - 1] \div 10]
  BY DividedDefined
<1> HIDE DEF q
<1>2. \A k \in 0 .. v : q[k] = IF k = 0 THEN v ELSE q[k - 1] \div 10
  BY <1>1
<1>3. q[0] = v
  BY <1>2
<1>4. \A k \in 1 .. v : q[k] = q[k - 1] \div 10
  BY <1>2
<1> DEFINE Fine == {k \in Nat : k <= v => q[k] \in Nat /\ q[k] <= v - k}
<1>5. 0 \in Fine
  BY <1>3
<1>6. ASSUME NEW k \in Fine PROVE k + 1 \in Fine
  <2> SUFFICES ASSUME k + 1 <= v PROVE q[k + 1] \in Nat /\ q[k + 1] <= v - (k + 1)
    OBVIOUS
  <2>1. k \in Nat /\ k + 1 \in 1 .. v /\ (k + 1) - 1 = k /\ q[k] \in Nat /\ q[k] <= v - k
    OBVIOUS
  <2>2. q[k + 1] = q[k] \div 10
    BY <1>4, <2>1
  <2> QED
    BY <2>1, <2>2
<1>7. \A k \in Nat : k \in Fine
  <2>1. Fine \in SUBSET Nat
    OBVIOUS
  <2> HIDE DEF Fine
  <2> QED
    BY <1>5, <1>6, <2>1, AllNumbers
<1>8. \A k \in 0 .. v : q[k] \in Nat /\ q[k] <= v - k
  BY <1>7
<1> QED
  BY <1>3, <1>4, <1>8 DEF q

\* Tens is where they stop being divided: nothing is left behind the first digit.
LEMMA TensIs ==
  ASSUME NEW v \in Nat
  PROVE  /\ Tens(v) \in 0 .. v /\ Divided(v)[Tens(v)] \in 0 .. 9
         /\ \A j \in 0 .. Tens(v) - 1 : Divided(v)[j] \div 10 > 0
<1> DEFINE q == Divided(v)
           Ends(k) == q[k] \div 10 = 0 /\ \A j \in 0 .. k - 1 : q[j] \div 10 > 0
           Done == {k \in 0 .. v : q[k] \div 10 = 0}
<1>1. /\ q[0] = v
      /\ \A k \in 0 .. v : q[k] \in Nat /\ q[k] <= v - k
      /\ \A k \in 1 .. v : q[k] = q[k - 1] \div 10
  BY Quotients
<1> HIDE DEF q
<1>2. v \in Done
  BY <1>1
<1>3. PICK m \in Done : \A k \in Done : m <= k
  <2>1. Done \in SUBSET Nat /\ Done # {}
    BY <1>2
  <2> HIDE DEF Done
  <2> QED
    BY <2>1, LeastNumber
<1>4. Ends(m) /\ m \in 0 .. v
  <2>1. ASSUME NEW j \in 0 .. m - 1 PROVE q[j] \div 10 > 0
    <3>1. j \in 0 .. v /\ j \notin Done /\ q[j] \in Nat
      BY <1>1, <1>3
    <3> QED
      BY <3>1
  <2> QED
    BY <1>3, <2>1
<1> DEFINE t == Tens(v)
<1>5. t \in 0 .. v /\ Ends(t)
  <2>1. t = CHOOSE k \in 0 .. v : Ends(k)
    BY DEF Tens, q
  <2> HIDE DEF t, Ends
  <2> QED
    BY <1>4, <2>1
<1> HIDE DEF t
<1>6. t \in 0 .. v /\ q[t] \in 0 .. 9
  <2>1. q[t] \in Nat /\ q[t] \div 10 = 0
    BY <1>1, <1>5
  <2> QED
    BY <1>5, <2>1
<1> QED
  BY <1>5, <1>6 DEF q, t

\* The digits of v from the first on, as a reader of the buffer sees them.
DigitsOf(v) == [i \in 1 .. Tens(v) + 1 |-> Zero + (Divided(v)[Tens(v) + 1 - i] % 10)]

\* Whatever the buffer held before, if it has room its text is the number.
LEMMA TextOfNumber ==
  ASSUME NEW v \in Nat, NEW buffer, NEW n \in Nat,
         DOMAIN buffer = 0 .. n, Tens(v) + 1 <= n, n <= 255
  PROVE  TextIn(Written(buffer, 0, v)) = DigitsOf(v)
<1> DEFINE t == Tens(v)
           q == Divided(v)
           w == Written(buffer, 0, v)
<1>1. /\ t \in Nat /\ t + 1 <= n /\ t <= v
      /\ \A k \in 0 .. v : q[k] \in Nat
  <2>1. Tens(v) \in 0 .. v
    BY TensIs
  <2>2. \A k \in 0 .. v : q[k] \in Nat
    BY Quotients
  <2> HIDE DEF q
  <2> QED
    BY <2>1, <2>2
<1>2. ASSUME NEW i \in 0 .. n
      PROVE  /\ i = t + 1 => w[i] = 0
             /\ i \in 0 .. t => w[i] = Zero + (q[t - i] % 10)
  <2>1. i \in DOMAIN buffer /\ Tens(v) \in Nat
    BY <1>1
  <2>4. (0 + Tens(v)) % 256 = Tens(v)
    <3>1. PICK m \in Nat : m = Tens(v)
      BY <1>1
    <3>2. 0 + m = m /\ m >= 0 /\ m < 256
      BY <1>1, <3>1
    <3>3. m % 256 = m
      BY <3>2
    <3> QED
      BY <3>1, <3>2, <3>3
  <2>2. CASE i = t + 1
    BY <2>1, <2>2, <2>4 DEF Written
  <2>3. CASE i \in 0 .. t
    BY <2>1, <2>3, <2>4 DEF Written
  <2> QED
    BY <2>1, <2>2, <2>3
<1>3. DOMAIN w = 0 .. n
  BY DEF Written
<1> HIDE DEF t, q, w
<1>4. w[t + 1] = 0 /\ t + 1 \in 0 .. n
  <2>1. t + 1 \in 0 .. n
    BY <1>1
  <2> QED
    BY <1>2, <2>1
<1>5. ASSUME NEW i \in 0 .. t PROVE w[i] = Zero + (q[t - i] % 10) /\ w[i] # 0
  <2>1. i \in 0 .. n /\ i # t + 1 /\ t - i \in 0 .. v
    BY <1>1
  <2>2. w[i] = Zero + (q[t - i] % 10)
    BY <1>2, <2>1
  <2>3. q[t - i] \in Nat
    BY <1>1, <2>1
  <2> QED
    BY <2>2, <2>3 DEF Zero
<1> DEFINE IsEnd(i) == w[i] = 0 /\ \A j \in 0 .. i - 1 : w[j] # 0
           end == CHOOSE i \in DOMAIN w : IsEnd(i)
<1>6. end = t + 1
  <2>1. IsEnd(t + 1)
    <3>1. \A j \in 0 .. (t + 1) - 1 : j \in 0 .. t
      BY <1>1
    <3> QED
      BY <1>3, <1>4, <1>5, <3>1
  <2>2. ASSUME NEW i \in 0 .. n, IsEnd(i) PROVE i = t + 1
    <3>1. i \notin 0 .. t
      BY <1>5, <2>2
    <3>2. t + 1 \notin 0 .. i - 1
      BY <1>3, <1>4, <2>2
    <3> QED
      BY <1>1, <3>1, <3>2
  <2> HIDE DEF IsEnd
  <2> QED
    BY <1>3, <1>4, <2>1, <2>2
<1>7. TextIn(w) = [i \in 1 .. end |-> w[i - 1]]
  BY DEF TextIn
<1> HIDE DEF end
<1>8. ASSUME NEW i \in 1 .. t + 1 PROVE w[i - 1] = Zero + (q[t + 1 - i] % 10)
  <2>1. i - 1 \in 0 .. t /\ t - (i - 1) = t + 1 - i
    BY <1>1
  <2> QED
    BY <1>5, <2>1
<1>9. [i \in 1 .. t + 1 |-> w[i - 1]] = [i \in 1 .. t + 1 |-> Zero + (q[t + 1 - i] % 10)]
  BY <1>8
<1>10. TextIn(w) = [i \in 1 .. t + 1 |-> Zero + (q[t + 1 - i] % 10)]
  BY <1>6, <1>7, <1>9
<1> QED
  BY <1>10 DEF DigitsOf, t, q, w

\* What strtoi has of a word without a sign.
Nothing == [sum |-> 0, stop |-> FALSE]
Read(word) == FoldLeft(LAMBDA r, c : Added(word[1], r, c), Nothing, word)

\* The loop of strtoi, character by character.
LEMMA ReadTurns ==
  ASSUME NEW k \in Nat, NEW word, DOMAIN word = 1 .. k
  PROVE  \E A : /\ A[0] = Nothing
                /\ \A j \in 1 .. k : A[j] = Added(word[1], A[j - 1], word[j])
                /\ Read(word) = A[k]
<1> DEFINE Turn(f, S) == Added(word[1], f[S \ {Max(S)}], word[Max(S)])
           Solves(f, m) == f = [S \in SUBSET (1 .. m) |-> IF S = {} THEN Nothing ELSE Turn(f, S)]
           Unsolved == {m \in Nat : m <= k /\ \A f : ~Solves(f, m)}
<1>1. Unsolved = {}
  <2> SUFFICES ASSUME Unsolved # {} PROVE FALSE
    OBVIOUS
  <2>1. PICK m \in Unsolved : \A j \in Unsolved : m <= j
    <3>1. Unsolved \in SUBSET Nat
      OBVIOUS
    <3> HIDE DEF Unsolved
    <3> QED
      BY <3>1, LeastNumber
  <2>2. m \in Nat /\ m <= k /\ \A f : ~Solves(f, m)
    OBVIOUS
  <2>3. CASE m = 0
    <3> DEFINE f == [S \in SUBSET (1 .. 0) |-> Nothing]
    <3>1. \A S \in SUBSET (1 .. 0) : S = {}
      OBVIOUS
    <3>2. Solves(f, 0)
      <4> HIDE DEF Turn
      <4> QED
        BY <3>1
    <3> QED
      BY <2>2, <2>3, <3>2
  <2>4. CASE m # 0
    <3>1. m - 1 \in Nat /\ m - 1 \notin Unsolved /\ m - 1 <= k
      <4>1. m - 1 \in Nat /\ ~(m <= m - 1) /\ m - 1 <= k
        BY <2>2, <2>4
      <4> HIDE DEF Unsolved
      <4> QED
        BY <2>1, <4>1
    <3>2. PICK f : Solves(f, m - 1)
      BY <3>1
    <3> DEFINE g == [S \in SUBSET (1 .. m) |->
                       IF m \in S THEN Turn(f, S) ELSE f[S]]
    <3>3. ASSUME NEW S \in SUBSET (1 .. m)
          PROVE  g[S] = IF S = {} THEN Nothing ELSE Turn(g, S)
      <4>1. CASE m \in S
        <5>1. Max(S) = m
          BY <2>2, <4>1, MaxTop
        <5>2. S \ {m} \in SUBSET (1 .. m) /\ m \notin S \ {m} /\ S # {}
          BY <4>1
        <5>3. g[S \ {Max(S)}] = f[S \ {Max(S)}]
          BY <5>1, <5>2
        <5> QED
          BY <4>1, <5>2, <5>3
      <4>2. CASE m \notin S
        <5>1. S \in SUBSET (1 .. m - 1)
          BY <2>2, <4>2
        <5>2. f[S] = IF S = {} THEN Nothing ELSE Turn(f, S)
          <6> HIDE DEF Turn
          <6> QED
            BY <3>2, <5>1
        <5>3. S \ {Max(S)} \in SUBSET (1 .. m) /\ m \notin S \ {Max(S)}
          BY <4>2
        <5>4. g[S] = f[S] /\ g[S \ {Max(S)}] = f[S \ {Max(S)}]
          BY <4>2, <5>3
        <5> QED
          BY <5>2, <5>4
      <4> QED
        BY <4>1, <4>2
    <3>4. Solves(g, m)
      <4> DEFINE h == [S \in SUBSET (1 .. m) |-> IF S = {} THEN Nothing ELSE Turn(g, S)]
      <4>1. \A S \in SUBSET (1 .. m) : g[S] = h[S]
        <5> HIDE DEF Turn, g
        <5> QED
          BY <3>3
      <4>2. g = h
        <5> HIDE DEF Turn
        <5>1. g = [S \in SUBSET (1 .. m) |-> g[S]] /\ h = [S \in SUBSET (1 .. m) |-> h[S]]
          OBVIOUS
        <5> HIDE DEF g, h
        <5> QED
          BY <4>1, <5>1
      <4> QED
        BY <4>2
    <3> HIDE DEF Solves
    <3> QED
      BY <2>2, <3>4
  <2> QED
    BY <2>3, <2>4
<1>2. \E f : Solves(f, k)
  <2>1. k \notin Unsolved
    <3> HIDE DEF Unsolved
    <3> QED
      BY <1>1
  <2> HIDE DEF Solves
  <2> QED
    BY <2>1
<1> DEFINE It == CHOOSE f : Solves(f, k)
<1>3. Solves(It, k)
  <2> HIDE DEF Solves
  <2> QED
    BY <1>2
<1>4. Read(word) = It[1 .. k]
  <2>1. DOMAIN word = 1 .. k
    OBVIOUS
  <2> DEFINE At == CHOOSE f : f = [S \in SUBSET DOMAIN word |-> IF S = {} THEN Nothing ELSE Turn(f, S)]
  <2>2. Read(word) = At[DOMAIN word]
    BY DEF Read, FoldLeft, MapThenFoldSet
  <2>3. At = It
    <3> HIDE DEF Turn
    <3> QED
      BY <2>1
  <2> HIDE DEF At, It
  <2> QED
    BY <2>1, <2>2, <2>3
<1> HIDE DEF It
<1>5. \A S \in SUBSET (1 .. k) : It[S] = IF S = {} THEN Nothing ELSE Turn(It, S)
  <2> HIDE DEF Turn
  <2> QED
    BY <1>3
<1> DEFINE A == [j \in 0 .. k |-> It[1 .. j]]
<1>6. A[0] = Nothing /\ A[k] = It[1 .. k]
  <2>1. 1 .. 0 = {} /\ 1 .. 0 \in SUBSET (1 .. k) /\ 0 \in 0 .. k /\ k \in 0 .. k
    OBVIOUS
  <2> HIDE DEF Turn
  <2> QED
    BY <1>5, <2>1
<1>7. ASSUME NEW j \in 1 .. k
      PROVE  A[j] = Added(word[1], A[j - 1], word[j])
  <2>1. /\ 1 .. j \in SUBSET (1 .. k) /\ j \in Nat /\ j \in 1 .. j /\ j \in 0 .. k
        /\ j - 1 \in 0 .. k /\ (1 .. j) \ {j} = 1 .. j - 1
    OBVIOUS
  <2>2. Max(1 .. j) = j
    BY <2>1, MaxTop
  <2>3. It[1 .. j] = Turn(It, 1 .. j)
    <3> HIDE DEF Turn
    <3>1. 1 .. j # {}
      BY <2>1
    <3> QED
      BY <1>5, <2>1, <3>1
  <2>5. Turn(It, 1 .. j) = Added(word[1], It[1 .. j - 1], word[j])
    BY <2>1, <2>2, Zenon
  <2> QED
    BY <2>1, <2>3, <2>5
<1> HIDE DEF A
<1> QED
  BY <1>4, <1>6, <1>7

\* A digit that keeps the number an int.
LEMMA AddedIs ==
  ASSUME NEW sign, NEW x \in Int, NEW c \in Zero .. Zero + 9, NEW y, y = 10 * x - (c - Zero),
         y >= -IntMax - 1, -y <= IntMax
  PROVE  Added(sign, [sum |-> x, stop |-> FALSE], c) = [sum |-> y, stop |-> FALSE]
<1> DEFINE r == [sum |-> x, stop |-> FALSE]
<1>1. r.sum = x /\ r.stop = FALSE
  OBVIOUS
<1>2. y \in Int /\ IntMax \in Nat
  BY WindowAssumption DEF Zero
<1>3. ~ (y < -IntMax - 1) /\ ~ (-y > IntMax)
  BY <1>2
<1>4. Added(sign, r, c) = IF r.stop \/ c \notin Zero .. Zero + 9
                         THEN [r EXCEPT !.stop = TRUE]
                         ELSE IF y < -IntMax - 1 \/ (sign # Minus /\ -y > IntMax)
                              THEN [sum |-> 0, stop |-> TRUE] ELSE [r EXCEPT !.sum = y]
  <2>1. 10 * r.sum - (c - Zero) = y
    BY <1>1
  <2> HIDE DEF r
  <2> QED
    BY <2>1, Zenon DEF Added
<1>5. Added(sign, r, c) = [r EXCEPT !.sum = y]
  <2> HIDE DEF r
  <2> QED
    BY <1>1, <1>3, <1>4
<1> QED
  BY <1>5

\* A number that is an int is read as it was written.
LEMMA NumberRead ==
  ASSUME NEW v \in 0 .. IntMax
  PROVE  strtoi(DigitsOf(v)) = v
<1> DEFINE t == Tens(v)
           q == Divided(v)
           word == DigitsOf(v)
<1>1. IntMax \in Nat /\ v \in Nat
  BY WindowAssumption
<1>2. /\ t \in Nat /\ t <= v /\ q[t] \in 0 .. 9
      /\ q[0] = v
      /\ \A k \in 0 .. v : q[k] \in Nat /\ q[k] <= v - k
      /\ \A k \in 1 .. v : q[k] = q[k - 1] \div 10
  BY <1>1, TensIs, Quotients
<1>3. word = [i \in 1 .. t + 1 |-> Zero + (q[t + 1 - i] % 10)]
  BY DEF DigitsOf
<1> HIDE DEF t, q, word
<1>4. DOMAIN word = 1 .. t + 1 /\ t + 1 \in Nat
  BY <1>2, <1>3
<1>5. ASSUME NEW i \in 1 .. t + 1
      PROVE  /\ t + 1 - i \in 0 .. v
             /\ word[i] = Zero + (q[t + 1 - i] % 10) /\ word[i] \in Zero .. Zero + 9
  <2>1. t + 1 - i \in 0 .. v
    BY <1>2
  <2>2. q[t + 1 - i] \in Nat
    BY <1>2, <2>1
  <2>3. word[i] = Zero + (q[t + 1 - i] % 10)
    BY <1>3
  <2> QED
    BY <2>1, <2>2, <2>3 DEF Zero
<1>6. word # <<>> /\ word[1] \notin {Minus, Plus} /\ word[1] # Minus
  <2>1. 1 \in 1 .. t + 1
    BY <1>2
  <2>2. word[1] \in Zero .. Zero + 9
    BY <1>5, <2>1
  <2> QED
    BY <1>4, <2>1, <2>2 DEF Zero, Minus, Plus
<1>7. strtoi(word) = -Read(word).sum
  BY <1>6 DEF strtoi, Read, Nothing
<1>8. PICK A : /\ A[0] = Nothing
               /\ \A j \in 1 .. t + 1 : A[j] = Added(word[1], A[j - 1], word[j])
               /\ Read(word) = A[t + 1]
  BY <1>4, ReadTurns
\* After j characters the sum is what the j first digits stand for.
<1> DEFINE Left(j) == IF j = 0 THEN 0 ELSE -q[t + 1 - j]
           Fine == {j \in Nat : j <= t + 1 => A[j] = [sum |-> Left(j), stop |-> FALSE]}
<1>9. 0 \in Fine
  <2>1. Left(0) = 0
    OBVIOUS
  <2> HIDE DEF Left
  <2>2. A[0] = [sum |-> Left(0), stop |-> FALSE]
    BY <1>8, <2>1 DEF Nothing
  <2> QED
    BY <2>2
<1>10. ASSUME NEW j \in Fine PROVE j + 1 \in Fine
  <2> SUFFICES ASSUME j + 1 <= t + 1 PROVE A[j + 1] = [sum |-> Left(j + 1), stop |-> FALSE]
    OBVIOUS
  <2>1. /\ j \in Nat /\ j + 1 \in 1 .. t + 1 /\ (j + 1) - 1 = j /\ j + 1 # 0
        /\ t + 1 - (j + 1) = t - j /\ t - j \in 0 .. v
        /\ A[j] = [sum |-> Left(j), stop |-> FALSE]
    BY <1>2
  <2> DEFINE d == q[t - j]
  <2>2. d \in Nat /\ d <= IntMax /\ Left(j + 1) = -d
    BY <1>1, <1>2, <2>1
  <2>3. Left(j) \in Int /\ 10 * Left(j) - (d % 10) = -d
    <3>1. CASE j = 0
      <4>1. d \in 0 .. 9
        BY <1>2, <3>1
      <4> QED
        BY <3>1, <4>1
    <3>2. CASE j # 0
      <4>1. t + 1 - j \in 1 .. v /\ (t + 1 - j) - 1 = t - j
        BY <1>2, <2>1, <3>2
      <4>2. Left(j) = -(d \div 10)
        BY <1>2, <3>2, <4>1
      <4> QED
        BY <2>2, <4>2
    <3> QED
      BY <3>1, <3>2
  <2>4. word[j + 1] = Zero + (d % 10) /\ word[j + 1] \in Zero .. Zero + 9
    BY <1>5, <2>1
  <2>5. A[j + 1] = Added(word[1], A[j], word[j + 1])
    BY <1>8, <2>1
  <2> HIDE DEF Left, d
  <2> DEFINE x == Left(j)
             c == word[j + 1]
  <2>6. x \in Int /\ c \in Zero .. Zero + 9 /\ 10 * x - (c - Zero) = -d
    BY <2>2, <2>3, <2>4 DEF Zero
  <2>7. -d >= -IntMax - 1 /\ -(-d) <= IntMax
    BY <1>1, <2>2
  <2> HIDE DEF x, c
  <2>8. Added(word[1], [sum |-> x, stop |-> FALSE], c) = [sum |-> -d, stop |-> FALSE]
    BY <2>6, <2>7, AddedIs
  <2> QED
    BY <2>1, <2>2, <2>5, <2>8 DEF x, c
<1>11. \A j \in Nat : j \in Fine
  <2>1. Fine \in SUBSET Nat
    OBVIOUS
  <2> HIDE DEF Fine
  <2> QED
    BY <1>9, <1>10, <2>1, AllNumbers
<1>12. A[t + 1] = [sum |-> -v, stop |-> FALSE]
  <2>1. t + 1 # 0 /\ t + 1 - (t + 1) = 0 /\ t + 1 <= t + 1
    BY <1>2
  <2>2. Left(t + 1) = -v
    BY <1>2, <2>1
  <2> HIDE DEF Left
  <2> QED
    BY <1>4, <1>11, <2>1, <2>2
<1>13. Read(word).sum = -v
  BY <1>8, <1>12
<1> QED
  BY <1>1, <1>7, <1>13 DEF word

\* to_string and strtoi agree: a number that is an int and has room in the buffer is read
\* back, whatever the buffer held before, if size starts from 0.  The code does not see
\* to that; the theorem says that nothing else is missing for a printed id to be
\* understood.
THEOREM NumbersReadBack ==
  ASSUME NEW v \in 0 .. IntMax, NEW buffer, NEW n \in Byte,
         DOMAIN buffer = 0 .. n, Tens(v) + 1 <= n
  PROVE  strtoi(TextIn(Written(buffer, 0, v))) = v
<1>1. v \in Nat /\ n \in Nat /\ n <= 255
  BY WindowAssumption DEF Byte
<1>2. TextIn(Written(buffer, 0, v)) = DigitsOf(v)
  BY <1>1, TextOfNumber
<1> QED
  BY <1>2, NumberRead

=============================================================================
