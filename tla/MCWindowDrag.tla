---------------------------- MODULE MCWindowDrag ----------------------------
(***************************************************************************)
(* A window as make_window opens it, 502 by 526 pixels at (50, 50), on a   *)
(* screen that leaves it some room, and the copies that draw it.           *)
(***************************************************************************)
EXTENDS WindowDrag, Blocks

\* Rows without a gap, and with one.
MCStrides == {620, 640}

MCSize == [x |-> 500, y |-> 500]
MCStart == [x |-> 50, y |-> 50]

\* On the bar, on the button, right of the window, below the bar, at the edges.
MCMouseXs == {0, 60, 110, 510, 619}
MCMouseYs == {0, 60, 110, 599}

Memory == [a \in 0 .. 79 |-> a]
Lengths == {0, 1, 7, 8, 9, 15, 16, 17, 23, 24, 25, 31, 33}

\* memcopy, which draws the window's rows from where it was dragged to, moves
\* exactly the n bytes, whatever the number leaves for its three loops, to any
\* place below the source, whether the two ranges overlap or not; its callers
\* never copy upwards over the source.  memset, which paints the rectangles,
\* repeats the 32-bit word from where it starts over exactly the n bytes, also
\* when they are no multiple of it.
BlocksExact ==
    open =>
        /\ \A n \in Lengths, s \in {32, 43} :
              LET d == (position.x + 1) % 32
              IN  memcopy(Memory, d, s, n) = Copied(Memory, d, s, n)
        /\ \A n \in 0 .. 34 :
              LET word == [i \in 0 .. 3 |-> 100 + i]
                  start == position.x % 32
              IN  memset(Memory, start, word, n) = Filled(Memory, start, word, n)
=============================================================================
