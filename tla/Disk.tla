-------------------------------- MODULE Disk --------------------------------
(***************************************************************************)
(* What a disk port promises its callers, without registers, engine or     *)
(* command table: a call moves sectors between the caller's buffer and the *)
(* disk one by one, nothing moves when no call is open, and a call that    *)
(* answers true has moved them all.  One that answers false may have moved *)
(* any of them.                                                            *)
(***************************************************************************)
EXTENDS Integers

CONSTANTS
    Sectors,    \* the disk is numbered 0 .. Sectors - 1
    MaxCount,   \* the longest call, in sectors
    Data        \* what a sector may hold

NoCall == [write |-> FALSE, first |-> 0, count |-> 0]

Calls ==
    {c \in [write : BOOLEAN, first : 0 .. Sectors - 1, count : 1 .. MaxCount] :
        c.first + c.count <= Sectors}

VARIABLES
    stored,     \* what the disk holds
    buffer,     \* the caller's buffer
    call,       \* the open call, or NoCall
    answer      \* of the last call that returned

diskVars == <<stored, buffer, call, answer>>

\* Sector i of the call is the same in the buffer and on the disk.
Agrees(c, i) == buffer[i] = stored[c.first + i]

Init ==
    /\ stored \in [0 .. Sectors - 1 -> Data] /\ buffer \in [0 .. MaxCount - 1 -> Data]
    /\ call = NoCall /\ answer = FALSE

Begin(c) ==
    /\ call = NoCall
    /\ call' = c
    /\ buffer' \in [0 .. MaxCount - 1 -> Data]
    /\ UNCHANGED <<stored, answer>>

MoveSector(i) ==
    /\ i \in 0 .. call.count - 1
    /\ \/ call.write /\ stored' = [stored EXCEPT ![call.first + i] = buffer[i]] /\ UNCHANGED buffer
       \/ ~call.write /\ buffer' = [buffer EXCEPT ![i] = stored[call.first + i]] /\ UNCHANGED stored
    /\ UNCHANGED <<call, answer>>

Return(result) ==
    /\ call # NoCall
    /\ result => \A i \in 0 .. call.count - 1 : Agrees(call, i)
    /\ call' = NoCall
    /\ answer' = result
    /\ UNCHANGED <<stored, buffer>>

Next ==
    \/ \E c \in Calls : Begin(c)
    \/ \E i \in 0 .. MaxCount - 1 : MoveSector(i)
    \/ \E result \in BOOLEAN : Return(result)

Spec == Init /\ [][Next]_diskVars
=============================================================================
