----------------------------- MODULE FramePool -----------------------------
(***************************************************************************)
(* What a page frame allocator promises its clients, without bitmap,       *)
(* cursor or counters: every frame is free, withdrawn for good, or in one  *)
(* block held by one client; a request is answered by a contiguous block   *)
(* of free frames or refused; a block comes back whole.  A client that was *)
(* refused may take the answer, NULL, for the block from frame 0 on and    *)
(* give that back; of the frames it names nothing is promised any more.    *)
(***************************************************************************)
EXTENDS Integers

CONSTANTS Frames, Lengths

VARIABLES
    free, held, withdrawn,
    refused,    \* the lengths refused to clients that may yet give back NULL
    lost        \* the frames given back that way

poolVars == <<free, held, withdrawn, refused, lost>>

Init == free = Frames /\ held = {} /\ withdrawn = {} /\ refused = {} /\ lost = {}

\* A client is handed the frames first .. last, all of them free (or lost).
Allocate(first, last) ==
    /\ first <= last
    /\ first .. last \subseteq free \cup lost
    /\ free' = free \ (first .. last)
    /\ held' = held \cup {first .. last}
    /\ UNCHANGED <<withdrawn, refused, lost>>

Refuse(n) ==
    /\ refused' = refused \cup {n}
    /\ UNCHANGED <<free, held, withdrawn, lost>>

\* A lost block may have a second holder, who keeps it.
GiveBack(b) ==
    /\ free' = free \cup (b \ lost)
    /\ \/ held' = held \ {b}
       \/ b # {} /\ b \subseteq lost /\ UNCHANGED held
    /\ UNCHANGED <<withdrawn, refused, lost>>

GiveBackNull(n) ==
    /\ lost' = lost \cup (Frames \cap (0 .. n - 1))
    /\ free' = free \ lost' /\ withdrawn' = withdrawn \ lost'
    /\ refused' \in {refused, refused \ {n}}
    /\ UNCHANGED held

\* Frames the machine needs for itself (firmware, kernel image, framebuffer).
Withdraw ==
    /\ free' \in SUBSET free
    /\ withdrawn' = withdrawn \cup (free \ free')
    /\ UNCHANGED <<held, refused, lost>>

Next ==
    \/ \E first, last \in free \cup lost : Allocate(first, last)
    \/ \E n \in Lengths : Refuse(n)
    \/ \E b \in held : GiveBack(b)
    \/ \E n \in refused : GiveBackNull(n)
    \/ Withdraw

Spec == Init /\ [][Next]_poolVars
=============================================================================
