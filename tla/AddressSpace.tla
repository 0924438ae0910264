---------------------------- MODULE AddressSpace ----------------------------
(***************************************************************************)
(* What PageTableManager::map_memory promises as long as it gets a frame   *)
(* for every table it needs: the virtual page it is called with becomes    *)
(* backed by the physical page it is called with, and no other virtual     *)
(* page changes.  After the first table that got no frame nothing is       *)
(* promised.                                                               *)
(***************************************************************************)
CONSTANTS
    VirtualPages,
    PhysicalPages,
    NotPresent      \* what an unmapped virtual page is backed by

VARIABLES
    backing,        \* the physical page behind each virtual page
    intact          \* every table got its frame

Init ==
    /\ backing = [v \in VirtualPages |-> NotPresent]
    /\ intact = TRUE

Map(v, p) ==
    /\ intact /\ intact' = intact
    /\ backing' = [backing EXCEPT ![v] = p]

OutOfFrames == intact' = FALSE

Next == OutOfFrames \/ \E v \in VirtualPages, p \in PhysicalPages : Map(v, p)

Spec == Init /\ [][Next]_<<backing, intact>>
=============================================================================
