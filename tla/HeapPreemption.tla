--------------------------- MODULE HeapPreemption ---------------------------
(***************************************************************************)
(* The heap under the kernel's two flows of control.  The main flow        *)
(* allocates (init_shell, the disk drivers) and frees (delete_window, five *)
(* calls of free) with interrupts on; the keyboard interrupt runs a whole  *)
(* shell command, and "window" calls malloc (create_window).  Interrupt    *)
(* gates keep the handler itself undisturbed, so it is one step.  malloc   *)
(* in the main flow finds a block and then splits it, free is the sequence *)
(* of its list operations, and the handler may run between any two of      *)
(* these.  (Inside the split it does no other harm: before the block is    *)
(* marked used it may take the block, afterwards it touches none of the    *)
(* fields that are still to be written.)                                   *)
(***************************************************************************)
EXTENDS Heap

VARIABLES
    pc,     \* where the main flow is in malloc or free, or "idle"
    cur,    \* best_mem_block of that malloc, current_node of that free
    clash   \* ghost: malloc returned memory that a client holds

pvars == <<vars, pc, cur, clash>>

PInit == Init /\ pc = "idle" /\ cur = Null /\ clash = FALSE

\* The payload of s bytes that malloc would return in block b meets memory a
\* client holds.
Meets(b, s) ==
    \E p \in DOMAIN live : p < b + Hdr + s /\ b + Hdr < p + live[p]

\* malloc in the main flow, up to find_best_mem_block; the heap has room.
MainMalloc ==
    /\ pc = "idle"
    /\ MallocCall
    /\ UNCHANGED <<pc, cur, clash>>

MainFind ==
    /\ ~wild /\ pc = "idle" /\ want # Null
    /\ \E b \in DOMAIN node : BestFit(node, want, b) /\ cur' = b
    /\ pc' = "found"
    /\ UNCHANGED <<vars, clash>>

\* The block that was found is free: it is split and returned.
MainSplit ==
    /\ pc = "found" /\ ~node[cur].used
    /\ node' = Split(node, cur, want)
    /\ live' = HandOut(cur + Hdr, want)
    /\ clash' = (clash \/ Meets(cur, want))
    /\ used_memory_total' = used_memory_total + want + Hdr
    /\ want' = Null /\ pc' = "idle" /\ cur' = Null
    /\ UNCHANGED <<heap_end, frames, wild>>

\* The handler has taken it meanwhile, and malloc does not look again: it writes
\* its headers over the other client's memory and returns it.  The model ends.
MainSplitTaken ==
    /\ pc = "found" /\ node[cur].used
    /\ live' = HandOut(cur + Hdr, want)
    /\ clash' = TRUE /\ wild' = TRUE
    /\ used_memory_total' = used_memory_total + want + Hdr
    /\ want' = Null /\ pc' = "idle" /\ cur' = Null
    /\ UNCHANGED <<node, heap_end, frames>>

\* malloc in the keyboard interrupt; requests that do not fit are left out.
IrqMalloc ==
    /\ ~wild
    /\ \E size \in Requests : \E b \in DOMAIN node :
          LET s == RoundUp(size, Granule)
          IN  /\ used_memory_total + s + Hdr <= MaxUsedTotal
              /\ BestFit(node, s, b)
              /\ node' = Split(node, b, s)
              /\ live' = HandOut(b + Hdr, s)
              /\ clash' = (clash \/ Meets(b, s))
              /\ used_memory_total' = used_memory_total + s + Hdr
    /\ UNCHANGED <<heap_end, frames, want, wild, pc, cur>>

\* free up to "used_memory_total -= current_node->size": the caller gave the
\* memory up.  Blocks that a race has already dropped from the list are not
\* freed here: their headers are stale bytes.
FreeBegin ==
    /\ ~wild /\ pc = "idle" /\ want = Null
    /\ \E p \in DOMAIN live :
          /\ p - Hdr \in DOMAIN node
          /\ cur' = p - Hdr
          /\ live' = [q \in DOMAIN live \ {p} |-> live[q]]
          /\ used_memory_total' = used_memory_total - FreedSize(node, p - Hdr)
    /\ pc' = "mark"
    /\ UNCHANGED <<node, heap_end, frames, want, wild, clash>>

FreeMark ==
    /\ pc = "mark" /\ pc' = "next"
    /\ node' = MarkFree(node, cur)
    /\ UNCHANGED <<heap_end, used_memory_total, frames, want, live, wild, cur, clash>>

FreeMergeNext ==
    /\ pc = "next" /\ pc' = "prev"
    /\ node' = MergeNext(node, cur)
    /\ UNCHANGED <<heap_end, used_memory_total, frames, want, live, wild, cur, clash>>

FreeMergePrev ==
    /\ pc = "prev" /\ pc' = "idle"
    /\ node' = MergePrev(node, cur)
    /\ cur' = Null
    /\ UNCHANGED <<heap_end, used_memory_total, frames, want, live, wild, clash>>

\* What the main flow does.
Main ==
    \/ MainMalloc \/ MainFind \/ MainSplit \/ MainSplitTaken
    \/ FreeBegin \/ FreeMark \/ FreeMergeNext \/ FreeMergePrev

PNext == Main \/ IrqMalloc

PSpec == PInit /\ [][PNext]_pvars

(* Behaviours of PSpec in which the handler keeps out of some of the calls.  *)

\* The main flow is between finding its block and returning it.
Allocating == pc = "found"

\* It has marked its block free and not merged it yet.
Merging == pc \in {"next", "prev"}

\* The handler comes into no malloc of the main flow, or into no merge, or neither.
NoneInMallocs == PInit /\ [][Main \/ (~Allocating /\ IrqMalloc)]_pvars
NoneInMerges == PInit /\ [][Main \/ (~Merging /\ IrqMalloc)]_pvars
NoneInEither == PInit /\ [][Main \/ (~Allocating /\ ~Merging /\ IrqMalloc)]_pvars

-----------------------------------------------------------------------------
\* "return ptr to new memory" (mem.cpp:168): what malloc returns overlaps no
\* memory a client holds.
MallocReturnsNewMemory == ~clash
=============================================================================
