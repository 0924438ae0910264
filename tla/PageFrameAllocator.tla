------------------------- MODULE PageFrameAllocator -------------------------
(***************************************************************************)
(* The physical page allocator of the kernel, PageFrameAllocator in        *)
(* memory/page_frame_allocator.cpp over the bit array of memory/bitmap.cpp,*)
(* with the calls kernel.cpp makes to prepare it.                          *)
(*                                                                         *)
(* Pages are page numbers (address / 4096).  A set of page numbers stands  *)
(* for a range handed to one of the *_pages loops: a loop visits every     *)
(* page of its range once, so its effect is that of the set.  The three    *)
(* uint64_t counters only ever change by multiples of 4096, so they are    *)
(* counted in pages, and as unbounded integers: the register holds the     *)
(* residue modulo 2^64 of the integer (free_memory does go below zero).    *)
(***************************************************************************)
EXTENDS Integers, FiniteSets

CONSTANTS
    Descriptors,    \* the EFI memory map: records [conventional, base, pages]
    LowPages,       \* pages kept for BIOS and UEFI, 0x100 in the code
    PageSize,       \* bytes in a page, 4096 in the code
    KernelImage,    \* pages from _KernelStart to _KernelEnd
    Framebuffer,    \* pages of the framebuffer
    BlockLengths    \* the lengths asked of request_pages (128 in fat32.cpp)

PagesOf(d) == d.base .. d.base + d.pages - 1

\* What firmware hands over: finitely many ranges that do not overlap, and a
\* kernel image and framebuffer at page numbers.
ASSUME DescriptorsAssumption ==
    /\ IsFiniteSet(Descriptors)
    /\ \A d \in Descriptors :
          d.conventional \in BOOLEAN /\ d.base \in Nat /\ d.pages \in Nat
    /\ \A d, e \in Descriptors : d # e => PagesOf(d) \cap PagesOf(e) = {}

ASSUME ParametersAssumption ==
    /\ LowPages \in Nat \ {0}
    /\ PageSize \in Nat \ {0}
    /\ KernelImage \subseteq Nat
    /\ Framebuffer \subseteq Nat
    /\ BlockLengths \subseteq Nat \ {0}

-----------------------------------------------------------------------------
\* Type 7, EfiConventionalMemory: the pages the kernel may use.
Conventional == UNION {PagesOf(d) : d \in {e \in Descriptors : e.conventional}}

\* get_memory_size adds up num_pages of every descriptor; the ranges are
\* disjoint, so the sum is the number of pages described.  Holes do not count.
MemoryPages == Cardinality(UNION {PagesOf(d) : d \in Descriptors})

\* page_bitmap.size, in bytes, and the indexes Bitmap::get and Bitmap::set
\* accept.  There are more of them than the MemoryPages + 1 that are reserved
\* first: the bits above MemoryPages are never reserved.
BitmapBytes == MemoryPages \div 8 + 1
BitCount == 8 * BitmapBytes
Index == 0 .. BitCount - 1

\* The pages lock_pages takes for the bitmap itself.
BufferPages(base) == base .. base + BitmapBytes \div PageSize

\* Candidates for largest_free_mem_seg.  Among equally large segments the code
\* takes the first of the table, whose order the set Descriptors leaves open.
LargestSegments ==
    {d \in Descriptors :
        /\ d.conventional /\ d.pages > 0
        /\ \A e \in Descriptors : e.conventional => e.pages <= d.pages}

Null == 0       \* NULL, the address of page 0
NoCall == -1    \* no request since the last free

BufferBases == IF LargestSegments = {} THEN {Null}
                                       ELSE {d.base : d \in LargestSegments}

-----------------------------------------------------------------------------
VARIABLES
    phase,      \* how far prepare_memory of kernel.cpp has come
    pfa,        \* the allocator: bitmap (the pages whose bit is 1), buffer,
                \* free, reserved and used (the counters), cursor
    blocks,     \* ghost: the sets of pages clients hold, one per request
    asked,      \* ghost: how many pages the last request asked for
    returned,   \* ghost: what it returned, or NoCall
    refused,    \* ghost: the lengths of refused requests whose NULL a client may
                \* yet give back as if it were a block
    lost        \* ghost: the pages that were given back that way

history == <<blocks, asked, returned, refused, lost>>
vars == <<phase, pfa, history>>

Held == UNION blocks
FreeBits == Index \ pfa.bitmap

\* Pages that no request may return once the kernel is in place.
Protected ==
    Index \cap ( (0 .. LowPages - 1) \cup ((0 .. MemoryPages) \ Conventional)
                 \cup BufferPages(pfa.buffer) \cup KernelImage )

Allocator == [bitmap : SUBSET Index, buffer : Nat, free : Int,
              reserved : Int, used : Int, cursor : 0 .. BitCount]

TypeOK ==
    /\ phase \in {"start", "mapped", "kernel", "running"}
    /\ pfa \in Allocator
    /\ blocks \subseteq SUBSET Index
    /\ asked \in {1} \cup BlockLengths
    /\ returned \in Index \cup {NoCall}
    /\ refused \subseteq {1} \cup BlockLengths
    /\ lost \subseteq Index

-----------------------------------------------------------------------------
(***************************************************************************)
(* The loops over single pages, as functions of the allocator's state.     *)
(* A page whose bit already has the wanted value, or that is outside the   *)
(* bitmap, changes nothing: Bitmap::get answers false for it and           *)
(* Bitmap::set refuses it.                                                 *)
(***************************************************************************)
Reserve(a, S) ==
    LET new == (S \cap Index) \ a.bitmap
    IN  [a EXCEPT !.bitmap = @ \cup new,
                  !.free = @ - Cardinality(new),
                  !.reserved = @ + Cardinality(new)]

\* unreserve_page also lowers the cursor; it is called only while the cursor
\* is 0, before the first request, so the cursor stays.
Unreserve(a, S) ==
    LET gone == S \cap a.bitmap
    IN  [a EXCEPT !.bitmap = @ \ gone,
                  !.free = @ + Cardinality(gone),
                  !.reserved = @ - Cardinality(gone)]

\* mutant: lock_page without the test for a bit that is already set
LockCountsTwice(a, S) ==
    [a EXCEPT !.bitmap = @ \cup (S \cap Index),
              !.free = @ - Cardinality(S \cap Index),
              !.used = @ + Cardinality(S \cap Index)]

\* mutant: lock_page that adjusts the counters but leaves the bit alone
LockKeepsBit(a, S) ==
    LET new == (S \cap Index) \ a.bitmap
    IN  [a EXCEPT !.free = @ - Cardinality(new),
                  !.used = @ + Cardinality(new)]

Lock(a, S) ==
    LET new == (S \cap Index) \ a.bitmap
    IN  [a EXCEPT !.bitmap = @ \cup new,
                  !.free = @ - Cardinality(new),
                  !.used = @ + Cardinality(new)]

\* mutant: free_page that gives the page back to reserved_memory
ReleaseFromReserved(a, S) ==
    LET gone == S \cap a.bitmap
    IN  [a EXCEPT !.bitmap = @ \ gone,
                  !.free = @ + Cardinality(gone),
                  !.reserved = @ - Cardinality(gone)]

Release(a, S) ==
    LET gone == S \cap a.bitmap
    IN  [a EXCEPT !.bitmap = @ \ gone,
                  !.free = @ + Cardinality(gone),
                  !.used = @ - Cardinality(gone)]

\* mutant: the index is left behind the page that was looked at
MoveCursorTooFar(a, c) == [a EXCEPT !.cursor = c + 1]

\* page_bitmap_index, the index the next request starts from.
MoveCursor(a, c) == [a EXCEPT !.cursor = c]

-----------------------------------------------------------------------------
\* init_bitmap and the first assignments: every bit 0, counters at zero but
\* for free_memory.
Fresh(base) ==
    [bitmap |-> {}, buffer |-> base, free |-> MemoryPages,
     reserved |-> 0, used |-> 0, cursor |-> 0]

\* mutant: the bitmap is not given its own space
MappedAllocatorUnlocked(base) ==
    Reserve(Unreserve(Reserve(Fresh(base), 0 .. MemoryPages), Conventional),
            0 .. LowPages - 1)

\* The allocator read_efi_memory_map leaves, with its bitmap at base.
MappedAllocator(base) ==
    Lock(Reserve(Unreserve(Reserve(Fresh(base), 0 .. MemoryPages),
                           Conventional),
                 0 .. LowPages - 1),
         BufferPages(base))

Init ==
    /\ phase = "start"
    /\ pfa = [bitmap |-> {}, buffer |-> Null, free |-> 0,
              reserved |-> 0, used |-> 0, cursor |-> 0]
    /\ blocks = {}
    /\ asked = 1
    /\ returned = NoCall
    /\ refused = {}
    /\ lost = {}

ReadEfiMemoryMap ==
    /\ phase = "start"
    /\ phase' = "mapped"
    /\ \E base \in BufferBases : pfa' = MappedAllocator(base)
    /\ UNCHANGED history

LockKernel ==
    /\ phase = "mapped"
    /\ phase' = "kernel"
    /\ pfa' = Lock(pfa, KernelImage)
    /\ UNCHANGED history

\* After the page tables of the identity map were requested.
LockFramebuffer ==
    /\ phase = "kernel"
    /\ phase' = "running"
    /\ pfa' = Lock(pfa, Framebuffer)
    /\ UNCHANGED history

-----------------------------------------------------------------------------
\* mutant: request_page takes the page under the cursor without looking
CursorPage(p) == p \in Index /\ p = pfa.cursor

\* p is where the loop of request_page stops: the first clear bit at or above
\* the cursor.
FirstFree(p) ==
    /\ p \in FreeBits
    /\ p >= pfa.cursor
    /\ \A q \in pfa.cursor .. p - 1 : q \in pfa.bitmap

RequestPage ==
    /\ phase \in {"kernel", "running"}
    /\ \E p \in Index :
          /\ FirstFree(p)
          /\ pfa' = MoveCursor(Lock(pfa, {p}), p)
          /\ blocks' = blocks \cup {{p}}
          /\ returned' = p
    /\ asked' = 1
    /\ UNCHANGED <<phase, refused, lost>>

\* The loop ran to the end of the bitmap: "ran out of physical mem".  The answer
\* NULL is the address of page 0; only clients of the running kernel free.
RequestPageFails ==
    /\ phase \in {"kernel", "running"}
    /\ \A p \in Index : ~FirstFree(p)
    /\ pfa' = MoveCursor(pfa, BitCount)
    /\ asked' = 1
    /\ returned' = Null
    /\ refused' = IF phase = "running" THEN refused \cup {1} ELSE refused
    /\ UNCHANGED <<phase, blocks, lost>>

\* The n pages from s are clear and none of them is below the cursor.
RunFrom(s, n) == s >= pfa.cursor /\ s .. s + n - 1 \subseteq FreeBits

\* request_pages moves the cursor itself: it stays on the last page of the
\* run, and the clear bits of shorter runs before it are left behind.
RequestPages(n) ==
    /\ phase = "running"
    /\ \E s \in Index :
          /\ RunFrom(s, n)
          /\ \A r \in pfa.cursor .. s - 1 : ~RunFrom(r, n)
          /\ pfa' = MoveCursor(Lock(pfa, s .. s + n - 1), s + n - 1)
          /\ blocks' = blocks \cup {s .. s + n - 1}
          /\ returned' = s
    /\ asked' = n
    /\ UNCHANGED <<phase, refused, lost>>

RequestPagesFails(n) ==
    /\ phase = "running"
    /\ \A s \in Index : ~RunFrom(s, n)
    /\ pfa' = MoveCursor(pfa, BitCount)
    /\ asked' = n
    /\ returned' = Null
    /\ refused' = refused \cup {n}
    /\ UNCHANGED <<phase, blocks, lost>>

\* mutant: free_page leaves the cursor where it is
CursorStays(c, b) == c = pfa.cursor

\* The cursor after clearing the bits of S: the lowest of them, if one is below
\* the cursor.
CursorAfter(c, S) ==
    LET lower == {p \in S : p < pfa.cursor}
    IN  IF lower = {} THEN c = pfa.cursor
                      ELSE c \in lower /\ \A p \in lower : c <= p

\* free_page and free_pages: a page whose bit is clear already is left alone.
Free(S) ==
    \E c \in 0 .. BitCount :
        CursorAfter(c, S \cap pfa.bitmap) /\ pfa' = MoveCursor(Release(pfa, S), c)

\* A client gives back what it was handed.  A block of lost pages may be in the
\* hands of another client as well, who keeps it.
FreePages(b) ==
    /\ phase = "running"
    /\ Free(b)
    /\ \/ blocks' = blocks \ {b}
       \/ b \subseteq lost /\ UNCHANGED blocks
    /\ returned' = NoCall
    /\ UNCHANGED <<phase, asked, refused, lost>>

\* The n pages from NULL on.
NullBlock(n) == 0 .. n - 1

\* The FAT32 object tests no answer for NULL: it gives back the block of a request
\* that was refused, the lowest pages of memory.  A second client may have been
\* refused the same length.
FreeRefused(n) ==
    /\ phase = "running"
    /\ Free(NullBlock(n))
    /\ lost' = lost \cup (NullBlock(n) \cap Index)
    /\ refused' \in {refused, refused \ {n}}
    /\ returned' = NoCall
    /\ UNCHANGED <<phase, blocks, asked>>

Next ==
    \/ ReadEfiMemoryMap
    \/ LockKernel
    \/ LockFramebuffer
    \/ RequestPage
    \/ RequestPageFails
    \/ \E n \in BlockLengths : RequestPages(n) \/ RequestPagesFails(n)
    \/ \E b \in blocks : FreePages(b)
    \/ \E n \in refused : FreeRefused(n)

Spec == Init /\ [][Next]_vars

-----------------------------------------------------------------------------
\* Every bit that is set is counted once, as reserved or as used, and is
\* missing from free_memory: lock_page, reserve_page and their inverses test
\* the bit before they touch a counter, whatever ranges overlap.
Accounting ==
    phase # "start" =>
        /\ pfa.used + pfa.reserved = Cardinality(pfa.bitmap)
        /\ pfa.free + Cardinality(pfa.bitmap) = MemoryPages

\* No page is in the hands of two clients, and a page a client holds has its
\* bit set, so that no later request finds it: but for the lowest pages, which
\* clients that were refused have given back without holding them.
NoDoubleAllocation ==
    /\ \A b, c \in blocks : b # c => b \cap c \subseteq lost
    /\ Held \subseteq pfa.bitmap \cup lost

\* Once the kernel image is locked, no request returns a page of low memory,
\* of the bitmap's own buffer, of the kernel image, or a page up to
\* MemoryPages that firmware did not declare usable, but for those that a client
\* which was refused has given back.
ProtectedNeverHandedOut ==
    Held \cap Protected \subseteq lost

\* "reserves 0 - 0x100000 for bios/uefi stuff" (page_frame_allocator.cpp:46): no
\* client is handed a page of low memory.  What read_fat_entry does when its
\* buffer is refused refutes it.
LowMemoryReserved == Held \cap (0 .. LowPages - 1) = {}

\* Counters follow ownership: while the kernel runs, reserved_memory never
\* changes, and used_memory changes by exactly the pages that clients gain or
\* give back, whatever mix of request_pages and free_pages was made, until a
\* client gives back what it was refused: used_memory counts that down as well.
CountersFollowOwnership ==
    [][ phase = "running" =>
          /\ pfa'.reserved = pfa.reserved
          /\ lost' = {} => pfa'.used - pfa.used = Cardinality(Held') - Cardinality(Held) ]_vars

\* "ran out of physical mem" (page_frame_allocator.cpp:79) and "No sufficient
\* contiguous pages found" (line 101): a request was refused only when no run
\* of free pages of the length asked for existed.
NullMeansExhausted ==
    returned = Null => \A s \in Index : ~(s .. s + asked - 1 \subseteq FreeBits)

-----------------------------------------------------------------------------
\* The allocator implements the frame pool: bits that are clear are the free
\* frames, and a bit that is set without a holder is withdrawn.  So no
\* sequence of requests, failures and frees loses a frame or hands one out
\* twice, but for the frames clients gave back without holding them.
Pool == INSTANCE FramePool WITH
            Frames <- Index,
            Lengths <- {1} \cup BlockLengths,
            free <- FreeBits \ lost,
            held <- blocks,
            withdrawn <- pfa.bitmap \ (Held \cup lost)

ImplementsFramePool == Pool!Spec

=============================================================================
