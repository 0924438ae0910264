----------------------------- MODULE PageTables -----------------------------
(***************************************************************************)
(* PageTableManager::map_memory: four levels of tables, each in a page     *)
(* frame the page allocator hands out when a walk first needs it.          *)
(*                                                                         *)
(* Frames are page numbers; a virtual page is the tuple of its four        *)
(* indexes, which is what PageMapIndexer makes of an address.  The kernel  *)
(* reaches a table through the identity map, at its physical address.  An  *)
(* entry is the frame number it holds or NotPresent; the other flag bit    *)
(* that is set, read_write, is the same in every entry.                    *)
(***************************************************************************)
EXTENDS Integers, FiniteSets

CONSTANTS
    Slots,          \* the indexes of a table, 0 .. 511 in the code
    VirtualPages,   \* the virtual pages the kernel maps
    Frames,         \* the frames request_page has to give
    Devices,        \* pages that are mapped without being requested: all of
                    \* memory from page 0 on (the identity map: frames and the
                    \* PML4 as well), the framebuffer, PCI configuration space,
                    \* AHCI registers
    Root            \* the frame of the PML4

NotPresent == -1
Null == 0           \* NULL, and page 0

PhysicalPages == {Null} \cup Frames \cup Devices

\* The PML4 and page 0 may be mapped; request_page gives neither of them.
ASSUME PageTablesAssumption ==
    /\ Frames \subseteq Nat \ {Null} /\ IsFiniteSet(Frames)
    /\ Devices \subseteq Nat
    /\ Root \in Nat \ {Null} /\ Root \notin Frames
    /\ VirtualPages \subseteq Slots \X Slots \X Slots \X Slots

VARIABLES
    memory,     \* what frames hold, read as tables: frame -> slot -> entry
    free,       \* frames request_page has left
    level,      \* which table the walk of map_memory has reached, 4 to 1, or 0
    table,      \* its frame
    target,     \* virtual_memory and physical_memory of the call under way
    owned,      \* ghost: frames clients requested for their own pages
    failed      \* ghost: a request for a table was answered with NULL

vars == <<memory, free, level, table, target, owned, failed>>

Entry == {NotPresent, Root} \cup PhysicalPages
Table == [Slots -> Entry]
Tables == {Null, Root} \cup Frames

NoTarget == <<>>

TypeOK ==
    /\ memory \in [Tables -> Table]
    /\ free \subseteq Frames /\ owned \subseteq Frames
    /\ level \in 0 .. 4 /\ table \in Tables
    /\ level = 0 => target = NoTarget
    /\ level # 0 => target \in VirtualPages \X PhysicalPages
    /\ failed \in BOOLEAN

\* memset(table, 0, 0x1000): no entry is present.
Cleared == [i \in Slots |-> NotPresent]

\* The slot of virtual page v in a table of level l, from PDP_i down to P_i.
SlotOf(v, l) == v[5 - l]

\* mutant: request_page forgets to lock the page
LockedNot(f) == free

\* What is left free when request_page has locked frame f.
Locked(f) == free \ {f}

\* The first frame that is free, as request_page finds it.
FirstFree(f) == f \in free /\ \A g \in free : f <= g

-----------------------------------------------------------------------------
\* Before prepare_memory maps anything: the PML4 was requested and cleared, and
\* the other frames hold whatever was there.
Init ==
    /\ \E e \in {NotPresent, Root} :
          memory = [f \in Tables |-> IF f = Root THEN Cleared ELSE [i \in Slots |-> e]]
    /\ free = Frames
    /\ level = 0 /\ table = Root /\ target = NoTarget
    /\ owned = {} /\ failed = FALSE

\* A call of map_memory.  What calls do after one that found no frame for a
\* table is not modelled: their walks go through page 0 to anywhere.
Begin(v, p) ==
    /\ level = 0 /\ ~failed
    /\ level' = 4 /\ table' = Root /\ target' = <<v, p>>

\* map_memory of a page that was not requested for it.
MapDevice ==
    /\ \E v \in VirtualPages, p \in Devices : Begin(v, p)
    /\ UNCHANGED <<memory, free, owned, failed>>

\* map_memory of a page requested for it, by init_heap or expand_heap.
MapRequested ==
    /\ \E v \in VirtualPages, f \in free :
          /\ FirstFree(f) /\ Begin(v, f)
          /\ free' = Locked(f) /\ owned' = owned \cup {f}
    /\ UNCHANGED <<memory, failed>>

\* init_heap maps what request_page answers without looking at it: when no frame is
\* left its page is backed by page 0.  expand_heap tests the answer, and returns.
\* The kernel calls init_heap before it expands the heap; here it may come later.
MapRefused ==
    /\ free = {} /\ \E v \in VirtualPages : Begin(v, Null)
    /\ UNCHANGED <<memory, free, owned, failed>>

\* mutant: a new table is linked as it is
LinkTableDirty(f, s) == memory' = [memory EXCEPT ![table][s] = f]

\* Clear the new table in frame f, then enter it in the table above.
LinkTable(f, s) ==
    memory' = [[memory EXCEPT ![f] = Cleared] EXCEPT ![table][s] = f]

Present(e) == e # NotPresent

\* One level of the walk: follow the entry if it is present; otherwise request
\* a frame for the next table.  The answer NULL is not looked at: page 0 is
\* cleared and becomes the table.
Descend ==
    /\ level > 1
    /\ LET s == SlotOf(target[1], level)
       IN  \/ /\ Present(memory[table][s])
              /\ table' = memory[table][s]
              /\ UNCHANGED <<memory, free, failed>>
           \/ /\ ~Present(memory[table][s])
              /\ \E f \in free :
                    /\ FirstFree(f)
                    /\ free' = Locked(f) /\ LinkTable(f, s) /\ table' = f
              /\ UNCHANGED failed
           \/ /\ ~Present(memory[table][s]) /\ free = {}
              /\ LinkTable(Null, s) /\ table' = Null /\ failed' = TRUE
              /\ UNCHANGED free
    /\ level' = level - 1
    /\ UNCHANGED <<target, owned>>

\* The last level: the entry of the page itself.
Enter ==
    /\ level = 1
    /\ memory' = [memory EXCEPT ![table][SlotOf(target[1], 1)] = target[2]]
    /\ level' = 0 /\ table' = Root /\ target' = NoTarget
    /\ UNCHANGED <<free, owned, failed>>

Next == MapDevice \/ MapRequested \/ MapRefused \/ Descend \/ Enter

Spec == Init /\ [][Next]_vars

-----------------------------------------------------------------------------
(* What the processor makes of the tables. *)

Follow(t, s) == IF t \in Tables THEN memory[t][s] ELSE NotPresent

Translate(v) == Follow(Follow(Follow(Follow(Root, v[1]), v[2]), v[3]), v[4])

\* The tables of each level, from the last, 1, to the root, 4: what the entries of
\* the level above name.
Named(ts) == {memory[t][s] : t \in ts, s \in Slots} \ {NotPresent}

PDPs == Named({Root})
PDs == Named(PDPs)
PTs == Named(PDs)

TablesAt == <<PTs, PDs, PDPs, {Root}>>

InUse == {Root} \cup PDPs \cup PDs \cup PTs

\* The tables form a tree of four levels: no frame is the table of two entries
\* or of two levels, so a write through one path shows on no other.
TablesFormTree ==
    /\ TypeOK
    /\ ~failed =>
          /\ \A k, l \in 1 .. 4 : k # l => TablesAt[k] \cap TablesAt[l] = {}
          /\ \A l \in 2 .. 4 : \A t, u \in TablesAt[l] : \A r, s \in Slots :
                memory[t][r] = memory[u][s] /\ memory[t][r] # NotPresent => t = u /\ r = s

\* A frame is free, a table or a client's page, never two of them: page tables
\* that grow inside map_memory take no frame from under the heap.
FramesHaveOneUse ==
    ~failed => /\ InUse \cap owned = {} /\ InUse \cap free = {}
               /\ owned \cap free = {}
               /\ Frames = free \cup owned \cup (InUse \ {Root})

\* map_memory changes the translation of its own page and of no other.
Space == INSTANCE AddressSpace WITH
            backing <- [v \in VirtualPages |-> Translate(v)],
            intact <- ~failed

ImplementsAddressSpace == Space!Spec
=============================================================================
