----------------------------- MODULE WindowList -----------------------------
(***************************************************************************)
(* The doubly linked list of WindowManager.  The main loop walks it once a *)
(* frame (handle) and, on a click, raises a window to the end of the list  *)
(* (move_to_top) or takes one out (delete_window).  The command "window"   *)
(* appends one (create_window); commands run inside the keyboard           *)
(* interrupt, so a whole create_window may come between two steps of the   *)
(* main loop.                                                              *)
(*                                                                         *)
(* Nodes are numbered in the order of their creation, which is also the id *)
(* of their window, counted from IdBase; they are never freed.  A window   *)
(* is reduced to its index, and where it lies on the screen to two sets,   *)
(* chosen once a frame: the windows under the pointer and those whose      *)
(* close button is; a window made in the middle of a frame may be in them. *)
(* Frames without a fresh click only move and draw windows; they are the   *)
(* frames in which both sets are empty.                                    *)
(***************************************************************************)
EXTENDS Integers, FiniteSets, Numbers

CONSTANTS
    MaxWindows,     \* bound on the number of create_window calls
    IdBase          \* how many windows were made and closed before

ASSUME WindowAssumption == MaxWindows \in Nat \ {0} /\ IdBase \in Nat /\ IntMax \in Nat \ {0}

Null == -1
first_node == 0         \* the list head, which has no window
Nodes == first_node .. MaxWindows
Link == Nodes \cup {Null}

VARIABLES
    node,           \* the nodes that exist: next, prev, index of the window,
                    \* and window: whether the pointer to it is not NULL
    window_count, id_count, focus_index,
    pc,             \* where the main loop is in handle, or "idle"
    cur,            \* window_index of handle
    moving, tail,   \* new_last_window and the end of the list in move_to_top
    index,          \* the argument of move_to_top or delete_window
    hover,          \* the windows whose area the pointer is in
    exit,           \* the windows whose close button it is on
    aim,            \* ghost: the topmost window that was clicked, or Null
    preempted       \* ghost: a window was made in the middle of a frame

counters == <<window_count, id_count, focus_index>>
walk == <<cur, moving, tail, index>>
pointer == <<hover, exit>>
ghosts == <<aim, preempted>>
listVars == <<node, counters, pc, walk, pointer, ghosts>>

ListTypeOK ==
    /\ DOMAIN node = first_node .. id_count
    /\ node \in [DOMAIN node -> [next : Link, prev : Link, index : 0 .. MaxWindows,
                                 window : BOOLEAN]]
    /\ window_count \in 0 .. MaxWindows /\ id_count \in 0 .. MaxWindows
    /\ focus_index \in 0 .. MaxWindows /\ index \in 0 .. MaxWindows
    /\ pc \in {"idle", "visit", "find", "walk", "relink", "reindex", "exit", "close", "drop"}
    /\ cur \in Link /\ moving \in Link /\ tail \in Link /\ aim \in Link
    /\ hover \subseteq Nodes /\ exit \subseteq Nodes
    /\ preempted \in BOOLEAN

-----------------------------------------------------------------------------
(* Walks along next. *)

Next1(n, a) == IF a = Null THEN Null ELSE n[a].next

\* The node k steps from a, or Null behind the end.
Step(n, a, k) ==
    LET At[i \in 0 .. MaxWindows + 1] == IF i = 0 THEN a ELSE Next1(n, At[i - 1])
    IN  At[k]

\* How many nodes are linked behind the head: the number of windows listed.
Length(n) ==
    Cardinality({k \in 1 .. MaxWindows : Step(n, first_node, k) # Null})

Listed(n) == {Step(n, first_node, k) : k \in 1 .. MaxWindows} \ {Null}

\* Where a walk from a ends, or Null if it does not.
EndOf(n, a) ==
    LET ends == {k \in 0 .. MaxWindows : Step(n, a, k) # Null /\ Step(n, a, k + 1) = Null}
    IN  IF ends = {} THEN Null ELSE Step(n, a, CHOOSE k \in ends : TRUE)

\* The node the search loops of move_to_top and delete_window stop at: the
\* first behind the head whose window has index i, or Null.
Search(n, i) ==
    LET hits == {k \in 1 .. MaxWindows :
                    Step(n, first_node, k) # Null /\ n[Step(n, first_node, k)].index = i}
    IN  IF hits = {} THEN Null
        ELSE Step(n, first_node, CHOOSE k \in hits : \A j \in hits : k <= j)

\* The id of the window of node a.
Id(a) == IdBase + a

\* get_from_id.
FromId(n, id) ==
    LET hits == {a \in Listed(n) : Id(a) = id}
    IN  IF id < 1 \/ hits = {} THEN Null ELSE CHOOSE a \in hits : TRUE

\* mutant: the walk starts behind the head and the indexes with it
ReindexedFromOne(n) ==
    [a \in DOMAIN n |->
        IF \E k \in 1 .. MaxWindows : Step(n, first_node, k) = a
        THEN [n[a] EXCEPT !.index = (CHOOSE k \in 1 .. MaxWindows : Step(n, first_node, k) = a) - 1]
        ELSE n[a]]

\* reset_indices: the place of each window in the list.  The window of the head
\* is NULL and is written to all the same; page 0 is mapped, and nothing of the
\* model lies there.
Reindexed(n) ==
    [a \in DOMAIN n |->
        IF \E k \in 1 .. MaxWindows : Step(n, first_node, k) = a
        THEN [n[a] EXCEPT !.index = CHOOSE k \in 1 .. MaxWindows : Step(n, first_node, k) = a]
        ELSE n[a]]

-----------------------------------------------------------------------------
ListInit ==
    /\ node = [a \in {first_node} |->
                  [next |-> Null, prev |-> Null, index |-> 0, window |-> FALSE]]
    /\ window_count = 0 /\ id_count = 0 /\ focus_index = 0
    /\ pc = "idle" /\ cur = Null /\ moving = Null /\ tail = Null /\ index = 0
    /\ hover = {} /\ exit = {}
    /\ aim = Null /\ preempted = FALSE

\* Window a opens in the middle of a frame under the pointer, under its close button
\* too, or elsewhere; between frames that is left to the next frame.
Appears(a) ==
    IF pc = "idle" THEN UNCHANGED pointer
    ELSE hover' \in {hover, hover \cup {a}} /\ exit' \in {exit, exit \cup {a}}

\* create_window.  While there are windows it appends.  For the first (and the
\* first after all were closed) it writes the new node once more through its own
\* prev, which nothing has set (line 45): where that goes is left out.  When the
\* list is empty although window_count says otherwise, it returns NULL.
create_window ==
    /\ id_count < MaxWindows /\ EndOf(node, first_node) # Null
    /\ window_count' = window_count + 1 /\ id_count' = id_count + 1
    /\ LET new == id_count + 1
           last == EndOf(node, first_node)
           fresh == [next |-> Null, prev |-> last, index |-> 1, window |-> TRUE]
           grown == [a \in DOMAIN node \cup {new} |->
                        IF a = new THEN fresh
                        ELSE IF a = last THEN [node[a] EXCEPT !.next = new] ELSE node[a]]
       IN  IF window_count' > 1 /\ node[last].prev = Null
           THEN /\ node' = [a \in DOMAIN node \cup {new} |->
                               IF a = new THEN [fresh EXCEPT !.window = FALSE, !.prev = Null]
                               ELSE node[a]]
           ELSE node' = Reindexed(grown)
    /\ preempted' = (preempted \/ pc # "idle")
    /\ aim' = IF pc = "idle" THEN Null ELSE aim
    /\ Appears(id_count')
    /\ UNCHANGED <<focus_index, pc, walk>>

-----------------------------------------------------------------------------
(* handle, one window after the other. *)

\* mutant: the first of the windows under the pointer
TopmostFirst(n, S) ==
    LET hits == {k \in 1 .. MaxWindows : Step(n, first_node, k) \in S}
    IN  IF hits = {} THEN Null
        ELSE Step(n, first_node, CHOOSE k \in hits : \A j \in hits : j >= k)

\* The last window of the list that is in S, or Null.
Topmost(n, S) ==
    LET hits == {k \in 1 .. MaxWindows : Step(n, first_node, k) \in S}
    IN  IF hits = {} THEN Null
        ELSE Step(n, first_node, CHOOSE k \in hits : \A j \in hits : j <= k)

\* The topmost window under the pointer, told by the numbers of the list: the
\* reference Topmost is held against.
Aimed(S) ==
    IF S \cap Listed(node) = {} THEN Null
    ELSE CHOOSE a \in S \cap Listed(node) :
            \A b \in S \cap Listed(node) : node[b].index <= node[a].index

HandleBegin ==
    /\ pc = "idle" /\ pc' = "visit"
    /\ cur' = node[first_node].next
    /\ hover' \in SUBSET Listed(node) /\ exit' \in SUBSET Listed(node)
    /\ aim' = Aimed(hover')
    /\ UNCHANGED <<node, counters, moving, tail, index, preempted>>

HandleEnd ==
    /\ pc = "visit" /\ cur = Null /\ pc' = "idle"
    /\ hover' = {} /\ exit' = {} /\ moving' = Null /\ tail' = Null /\ index' = 0
    /\ UNCHANGED <<node, counters, cur, ghosts>>

\* A click on the window: the topmost window there gets the focus and is raised.
VisitHovered ==
    /\ pc = "visit" /\ cur # Null /\ cur \in hover
    /\ LET top == Topmost(node, hover)
       IN  /\ focus_index' = IF top = Null THEN focus_index ELSE node[top].index
           /\ index' = focus_index'
    /\ pc' = "find"
    /\ UNCHANGED <<node, window_count, id_count, cur, moving, tail, pointer, ghosts>>

VisitOther ==
    /\ pc = "visit" /\ cur # Null /\ cur \notin hover
    /\ pc' = "exit"
    /\ UNCHANGED <<node, counters, walk, pointer, ghosts>>

\* mutant: the node behind a keeps its prev
UnlinkedOneWay(n, a) ==
    [b \in DOMAIN n |->
        IF b = n[a].prev THEN [n[b] EXCEPT !.next = n[a].next] ELSE n[b]]

\* Takes node a out of the list; a keeps its own links.
Unlinked(n, a) ==
    [b \in DOMAIN n |->
        IF b = n[a].prev THEN [n[b] EXCEPT !.next = n[a].next]
        ELSE IF b = n[a].next THEN [n[b] EXCEPT !.prev = n[a].prev] ELSE n[b]]

\* Puts node a behind last.
Relinked(n, a, last) ==
    [n EXCEPT ![a].next = Null, ![a].prev = last, ![last].next = a]

\* move_to_top: find the window, and leave if it is the last already.
MoveFind ==
    /\ pc = "find"
    /\ LET m == Search(node, index)
       IN  /\ m # Null
           /\ \/ /\ node[m].next = Null
                 /\ focus_index' = node[m].index /\ pc' = "exit"
                 /\ UNCHANGED <<node, moving>>
              \/ /\ node[m].next # Null
                 /\ node' = Unlinked(node, m) /\ moving' = m /\ pc' = "walk"
                 /\ UNCHANGED focus_index
    /\ UNCHANGED <<window_count, id_count, cur, tail, index, pointer, ghosts>>

MoveWalk ==
    /\ pc = "walk" /\ EndOf(node, moving) # Null
    /\ pc' = "relink"
    /\ tail' = EndOf(node, moving)
    /\ UNCHANGED <<node, counters, cur, moving, index, pointer, ghosts>>

MoveRelink ==
    /\ pc = "relink" /\ pc' = "reindex"
    /\ node' = Relinked(node, moving, tail)
    /\ UNCHANGED <<counters, walk, pointer, ghosts>>

MoveReindex ==
    /\ pc = "reindex" /\ pc' = "exit"
    /\ node' = Reindexed(node)
    /\ focus_index' = node'[moving].index
    /\ UNCHANGED <<window_count, id_count, walk, pointer, ghosts>>

CountedDown(c) == c - 1

\* A click on the close button of the window with the focus calls
\* delete_window, which counts first and searches then.
ExitClicked ==
    /\ pc = "exit" /\ cur \in exit /\ focus_index = node[cur].index
    /\ index' = node[cur].index
    /\ window_count' = CountedDown(window_count)
    /\ pc' = "close"
    /\ UNCHANGED <<node, id_count, focus_index, cur, moving, tail, pointer, ghosts>>

\* mutant: the walk is not moved on
ExitOtherStays ==
    /\ pc = "exit" /\ ~(cur \in exit /\ focus_index = node[cur].index)
    /\ pc' = "visit"
    /\ UNCHANGED <<node, counters, walk, pointer, ghosts>>

\* The window is drawn, and the walk goes on.
ExitOther ==
    /\ pc = "exit" /\ ~(cur \in exit /\ focus_index = node[cur].index)
    /\ pc' = "visit" /\ cur' = node[cur].next
    /\ UNCHANGED <<node, counters, moving, tail, index, pointer, ghosts>>

DeleteUnlink ==
    /\ pc = "close"
    /\ LET d == Search(node, index)
       IN  \/ /\ d = Null
              /\ pc' = "visit" /\ cur' = node[cur].next
              /\ UNCHANGED <<node, moving>>
           \/ /\ d # Null
              /\ node' = Unlinked(node, d) /\ moving' = d /\ pc' = "drop"
              /\ UNCHANGED cur
    /\ UNCHANGED <<counters, tail, index, pointer, ghosts>>

\* mutant: the walk is not moved on past the window that was closed
DeleteDropStays ==
    /\ pc = "drop" /\ pc' = "visit"
    /\ node' = Reindexed([node EXCEPT ![moving].window = FALSE])
    /\ UNCHANGED <<counters, walk, pointer, ghosts>>

\* The window is freed and the indexes are set anew; handle goes on behind the
\* node that was taken out.
DeleteDrop ==
    /\ pc = "drop" /\ pc' = "visit"
    /\ node' = Reindexed([node EXCEPT ![moving].window = FALSE])
    /\ cur' = node[cur].next
    /\ UNCHANGED <<counters, moving, tail, index, pointer, ghosts>>

Main ==
    \/ HandleBegin \/ HandleEnd \/ VisitHovered \/ VisitOther
    \/ MoveFind \/ MoveWalk \/ MoveRelink \/ MoveReindex
    \/ ExitClicked \/ ExitOther \/ DeleteUnlink \/ DeleteDrop

ListNext == create_window \/ Main

\* The main loop goes on between interrupts.
ListSpec == ListInit /\ [][ListNext]_listVars /\ WF_listVars(Main)

-----------------------------------------------------------------------------
\* The windows that were made and not closed.
Open == {a \in DOMAIN node : node[a].window}

\* Between two frames every open window is in the list, once, and the list can
\* be walked both ways: raising and closing windows in any order, also at either
\* end of the list, loses none.  A window made in the middle of a frame may be
\* lost; this and the next two claim nothing after one.
ListKeepsWindows ==
    /\ ListTypeOK
    /\ pc = "idle" /\ ~preempted =>
          /\ Listed(node) = Open
          /\ Length(node) = Cardinality(Open)
          /\ \A a \in Listed(node) : node[node[a].prev].next = a

\* Between two frames window_count is the length of the list and each index the
\* place in it: has_focus, which is set where index = window_count, is on the
\* top window and no other.
IndexIsPlace ==
    pc = "idle" /\ ~preempted =>
        /\ window_count = Length(node)
        /\ \A k \in 1 .. Length(node) : node[Step(node, first_node, k)].index = k

\* "so you dont focus on a window below" (window_manager.cpp:74): after a click
\* the topmost window under the pointer is on top and has the focus, or it was
\* closed, whatever windows were raised or closed on the way.
ClickReachesTopmost ==
    pc = "idle" /\ ~preempted /\ aim # Null /\ node[aim].window =>
        /\ EndOf(node, first_node) = aim
        /\ focus_index = node[aim].index

\* Every frame comes to an end: raising and closing windows under the walk of
\* handle never makes it run in a ring or stand still, even when windows are
\* made in between.
FrameEnds == pc = "visit" ~> pc = "idle"

\* handle draws no window that is gone, even when windows are made while another
\* is being raised or closed.
DrawsOpenWindows == pc \in {"visit", "exit"} /\ cur # Null => node[cur].window

\* uint_output, of 128 bytes, when it holds the text of the last window's id.
OldText == Written([i \in 0 .. 127 |-> 0], 0, Id(MaxWindows))

\* "unique id for every window" (window.hpp:22), which make_window prints behind
\* " ID: " (shell.cpp:55) for "windowcolor <id>" (command_manager.cpp:87): typed back,
\* the id reaches its window, unless that very window is being raised or closed.  The
\* code does not ensure this: what to_string writes depends on a byte of the stack.
PrintedIdReachesWindow ==
    ~preempted =>
        \A a \in Open \ (IF pc \in {"walk", "relink", "drop"} THEN {moving} ELSE {}) :
            \A size \in Byte :
                FromId(node, strtoi(TextIn(Written(OldText, size, Id(a))))) = a
=============================================================================
