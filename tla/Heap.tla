-------------------------------- MODULE Heap --------------------------------
(***************************************************************************)
(* The kernel's dynamic memory, memory/mem.cpp: a doubly linked list of    *)
(* blocks, each a 24-byte header followed by its payload.  malloc takes    *)
(* the best fitting free block and always splits it; free merges a block   *)
(* with its free neighbours; expand_heap maps new pages at the end of the  *)
(* heap when nothing fits.                                                 *)
(*                                                                         *)
(* Addresses are byte offsets from heap_start.  The sizes in play are far  *)
(* below 2^32, so the 32-bit size field never wraps.                       *)
(***************************************************************************)
EXTENDS Integers, FiniteSets

CONSTANTS
    HeapLength,     \* bytes init_heap maps, 75 MiB in kernel.cpp
    PageSize,       \* 4096 in the code
    Frames,         \* page frames request_page can still provide
    Requests,       \* sizes clients ask malloc for
    MaxUsedTotal    \* bound on used_memory_total, which drifts upwards

Hdr == 24           \* sizeof(dynamic_mem_node_t)
Granule == 16       \* malloc rounds sizes up to a multiple of 0x10
Null == -1          \* NULL is not an offset in the heap

ASSUME HeapAssumption ==
    /\ PageSize \in Nat /\ PageSize > Hdr /\ PageSize % Granule = 0
    /\ HeapLength \in Nat /\ HeapLength > Hdr /\ HeapLength % PageSize = 0
    /\ Frames \in Nat
    /\ Requests \subseteq Nat \ {0}
    /\ MaxUsedTotal \in Nat

RoundUp(n, unit) == ((n + unit - 1) \div unit) * unit

VARIABLES
    node,               \* the headers in the list: address -> [size, used, next, prev]
    heap_end,           \* first address past the mapped heap
    used_memory_total,
    frames,             \* page frames still free
    want,               \* rounded size of the malloc under way, or Null
    live,               \* ghost: pointers clients hold -> bytes they were promised there
    wild                \* ghost: a pointer that is none was followed

vars == <<node, heap_end, used_memory_total, frames, want, live, wild>>

EndOf(h, a) == a + Hdr + h[a].size

\* The list never continues past a node whose next is NULL.
ListEnd == CHOOSE e \in {EndOf(node, a) : a \in {b \in DOMAIN node : node[b].next = Null}} : TRUE

-----------------------------------------------------------------------------
Fits(h, s) == {a \in DOMAIN h : ~h[a].used /\ h[a].size >= s + Hdr}

\* mutant: find_best_mem_block does not look at used
BestFitAnyBlock(h, s, b) ==
    b \in DOMAIN h /\ h[b].size >= s + Hdr

\* find_best_mem_block: the smallest block that fits; of equally small ones the
\* last of the list (the comparison is <=).  The list is in address order.
BestFit(h, s, b) ==
    /\ b \in Fits(h, s)
    /\ \A c \in Fits(h, s) :
          h[b].size < h[c].size \/ (h[b].size = h[c].size /\ c <= b)

\* mutant: the node after the split block keeps its old prev
SplitKeepsPrev(h, b, s) ==
    LET rest == b + Hdr + s
    IN  [a \in DOMAIN h \cup {rest} |->
            CASE a = b    -> [size |-> s, used |-> TRUE, next |-> rest, prev |-> h[b].prev]
              [] a = rest -> [size |-> h[b].size - s - Hdr, used |-> FALSE,
                              next |-> h[b].next, prev |-> b]
              [] OTHER    -> h[a]]

\* The list after malloc took s bytes of block b: the new header is placed
\* behind the payload and keeps what is left, possibly nothing.
Split(h, b, s) ==
    LET rest == b + Hdr + s
    IN  [a \in DOMAIN h \cup {rest} |->
            CASE a = b    -> [size |-> s, used |-> TRUE, next |-> rest, prev |-> h[b].prev]
              [] a = rest -> [size |-> h[b].size - s - Hdr, used |-> FALSE,
                              next |-> h[b].next, prev |-> b]
              [] a = h[b].next /\ a # rest /\ a # b -> [h[a] EXCEPT !.prev = rest]
              [] OTHER    -> h[a]]

\* merge_next_node_into_current has something to merge.
NextIsFree(h, c) == h[c].next # Null /\ ~h[h[c].next].used
PrevIsFree(h, c) == h[c].prev # Null /\ ~h[h[c].prev].used

\* When the merged node was the last, the second, unguarded
\* "current_node->next->prev = current_node" (line 104) writes through NULL, to
\* page 0, which is mapped and which the model has no data in.
MergeNext(h, c) ==
    IF ~NextIsFree(h, c) THEN h
    ELSE LET n == h[c].next
         IN  [a \in DOMAIN h \ {n} |->
                CASE a = c -> [h[c] EXCEPT !.size = @ + h[n].size + Hdr, !.next = h[n].next]
                  [] a = h[n].next /\ a # c -> [h[a] EXCEPT !.prev = c]
                  [] OTHER -> h[a]]

\* mutant: free does not merge with the block below
MergePrevNever(h, c) == h

MergePrev(h, c) ==
    IF ~PrevIsFree(h, c) THEN h
    ELSE LET p == h[c].prev
         IN  [a \in DOMAIN h \ {c} |->
                CASE a = p -> [h[p] EXCEPT !.size = @ + h[c].size + Hdr, !.next = h[c].next]
                  [] a = h[c].next /\ a # p -> [h[a] EXCEPT !.prev = p]
                  [] OTHER -> h[a]]

MarkFree(h, c) == [h EXCEPT ![c].used = FALSE]

-----------------------------------------------------------------------------
Init ==
    /\ node = [a \in {0} |-> [size |-> HeapLength - Hdr, used |-> FALSE,
                              next |-> Null, prev |-> Null]]
    /\ heap_end = HeapLength
    /\ used_memory_total = 0
    /\ frames = Frames
    /\ want = Null
    /\ live = [p \in {} |-> 0]
    /\ wild = FALSE

\* A client is given s bytes at p, on top of what clients hold there already:
\* a pointer that is handed out twice shows as more bytes than its block has.
HandOut(p, s) ==
    [q \in DOMAIN live \cup {p} |->
        (IF q \in DOMAIN live THEN live[q] ELSE 0) + (IF q = p THEN s ELSE 0)]

\* A client calls malloc.
MallocCall ==
    /\ ~wild /\ want = Null
    /\ \E size \in Requests :
          /\ used_memory_total + RoundUp(size, Granule) + Hdr <= MaxUsedTotal
          /\ want' = RoundUp(size, Granule)
    /\ UNCHANGED <<node, heap_end, used_memory_total, frames, live, wild>>

\* A block fits: split it and return the payload's address.
MallocReturn ==
    /\ ~wild /\ want # Null
    /\ \E b \in DOMAIN node :
          /\ BestFit(node, want, b)
          /\ node' = Split(node, b, want)
          /\ live' = HandOut(b + Hdr, want)
    /\ used_memory_total' = used_memory_total + want + Hdr
    /\ want' = Null
    /\ UNCHANGED <<heap_end, frames, wild>>

\* What free takes off used_memory_total: the payload, not the header malloc
\* added to it.
FreedSize(h, c) == h[c].size

\* free(p) of a pointer malloc returned.  (free(NULL) does nothing.)
Free(p) ==
    LET c == p - Hdr
        marked == MarkFree(node, c)
    IN  /\ ~wild /\ want = Null
        /\ used_memory_total' = used_memory_total - FreedSize(node, c)
        /\ node' = MergePrev(MergeNext(marked, c), c)
        /\ live' = [q \in DOMAIN live \ {p} |-> live[q]]
        /\ UNCHANGED <<heap_end, frames, want, wild>>

-----------------------------------------------------------------------------
\* The block that ends the list.
LastBlock == CHOOSE a \in DOMAIN node : node[a].next = Null

\* expand_heap reads the next field of the header it supposes 24 bytes before
\* the end of the heap.  It finds the real end of the list when the last block
\* is empty (its header is there) or holds 8 bytes (the field read is then the
\* prev field of the last header, and the walk comes back to it).  Otherwise
\* it reads payload bytes: they may be zero, which ends the walk at once; a
\* stale pointer into the list, from a header that was there; or anything.
Outcomes ==
    IF ListEnd = heap_end /\ node[LastBlock].size \in {0, 8}
    THEN {"linked"}
    ELSE {"lost", "wild"} \cup (IF ListEnd = heap_end THEN {"linked"} ELSE {})

\* What expand_heap maps: size in whole pages.
Expansion(size) == RoundUp(size, PageSize)

\* mutant: the new block counts its header twice
AppendShort(length) ==
    [a \in DOMAIN node \cup {heap_end} |->
        CASE a = heap_end -> [size |-> length - 2 * Hdr, used |-> FALSE,
                              next |-> Null, prev |-> LastBlock]
          [] a = LastBlock -> [node[a] EXCEPT !.next = heap_end]
          [] OTHER -> node[a]]

\* The list with a new free block of length bytes at its end.
Append(length) ==
    [a \in DOMAIN node \cup {heap_end} |->
        CASE a = heap_end -> [size |-> length - Hdr, used |-> FALSE,
                              next |-> Null, prev |-> LastBlock]
          [] a = LastBlock -> [node[a] EXCEPT !.next = heap_end]
          [] OTHER -> node[a]]

\* expand_heap when nothing fits and the frames suffice; malloc then starts
\* over with the same size.
ExpandHeap ==
    LET length == Expansion(want)
    IN  /\ ~wild /\ want # Null /\ Fits(node, want) = {}
        /\ frames >= length \div PageSize
        /\ frames' = frames - length \div PageSize
        /\ heap_end' = heap_end + length
        /\ \E outcome \in Outcomes :
              /\ wild' = (outcome = "wild")
              /\ node' = IF outcome = "linked" THEN Append(length) ELSE node
        /\ UNCHANGED <<used_memory_total, want, live>>

\* request_page returned NULL half way: heap_end is put back, the frames that
\* were already mapped are not.
ExpandHeapFails ==
    /\ ~wild /\ want # Null /\ Fits(node, want) = {}
    /\ frames < Expansion(want) \div PageSize
    /\ frames' = 0
    /\ UNCHANGED <<node, heap_end, used_memory_total, want, live, wild>>

Next ==
    \/ MallocCall
    \/ MallocReturn
    \/ \E p \in DOMAIN live : Free(p)
    \/ ExpandHeap
    \/ ExpandHeapFails

Spec == Init /\ [][Next]_vars

-----------------------------------------------------------------------------
Node == [size : Nat, used : BOOLEAN, next : Nat \cup {Null}, prev : Nat \cup {Null}]

TypeOK ==
    /\ DOMAIN node \subseteq Nat
    /\ \A a \in DOMAIN node : node[a] \in Node
    /\ heap_end \in Nat /\ used_memory_total \in Int /\ frames \in Nat
    /\ want \in Nat \cup {Null}
    /\ DOMAIN live \subseteq Nat /\ \A p \in DOMAIN live : live[p] \in Nat
    /\ wild \in BOOLEAN

\* Splitting, merging in both directions and appending keep the list exact:
\* each block ends where the next header starts, next and prev are inverse,
\* only one block ends the list, and blocks do not overlap.
ListWellFormed ==
    /\ TypeOK
    /\ 0 \in DOMAIN node
    /\ \A a \in DOMAIN node :
          /\ node[a].next # Null =>
                /\ node[a].next = EndOf(node, a)
                /\ node[a].next \in DOMAIN node
                /\ node[node[a].next].prev = a
          /\ node[a].prev # Null =>
                /\ node[a].prev \in DOMAIN node
                /\ node[node[a].prev].next = a
          /\ node[a].prev = Null <=> a = 0
          /\ EndOf(node, a) <= heap_end
    /\ \A a, b \in DOMAIN node :
          /\ a < b => EndOf(node, a) <= b
          /\ node[a].next = Null /\ node[b].next = Null => a = b

\* Memory in a client's hands is a used block of the list, and no byte of it
\* belongs to another client or to a header, whatever was freed and merged
\* around it: "return ptr to new memory" (mem.cpp:168).
AllocationsDisjoint ==
    /\ \A p, q \in DOMAIN live : p < q => p + live[p] + Hdr <= q
    /\ \A p \in DOMAIN live :
          /\ p - Hdr \in DOMAIN node
          /\ node[p - Hdr].used
          /\ node[p - Hdr].size >= live[p]

\* free merges "directly ahead" and "directly below" (mem.cpp:203, 206): two
\* free blocks are never neighbours, so a heap without clients is one block, as
\* long as it has not grown.
NoAdjacentFree ==
    heap_end = HeapLength =>
        /\ \A a \in DOMAIN node :
              node[a].next # Null => node[a].used \/ node[node[a].next].used
        /\ DOMAIN live = {} => DOMAIN node = {0} /\ node[0].size = HeapLength - Hdr

\* An expansion that was linked serves the malloc that made it: called again, it
\* finds room, if the rounding to pages left room for the two headers.  When it
\* did not, malloc goes on expanding until no frame is left.
ExpansionServes ==
    [][heap_end' # heap_end /\ heap_end \in DOMAIN node' /\ Expansion(want) >= want + 2 * Hdr
       => \E b \in DOMAIN node' : BestFit(node', want, b)]_vars
=============================================================================
