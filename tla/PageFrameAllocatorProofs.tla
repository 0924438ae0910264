----------------------- MODULE PageFrameAllocatorProofs -----------------------
(***************************************************************************)
(* Proofs about PageFrameAllocator, for every memory map, kernel image,    *)
(* framebuffer and set of block lengths the assumptions admit.             *)
(***************************************************************************)
EXTENDS MCPageFrameAllocator, FiniteSetTheorems, TLAPS

USE DEF Null, NoCall

\* The memory map describes finitely many pages.
LEMMA MemoryPagesType == MemoryPages \in Nat
<1> DEFINE f == [d \in Descriptors |-> PagesOf(d)]
           R == {PagesOf(d) : d \in Descriptors}
<1>1. f \in Surjection(Descriptors, R)
  BY DEF Surjection
<1>2. IsFiniteSet(R)
  BY <1>1, FS_Surjection, DescriptorsAssumption
<1>3. ASSUME NEW d \in Descriptors PROVE IsFiniteSet(PagesOf(d))
  <2>1. d.base \in Int /\ d.base + d.pages - 1 \in Int
    BY DescriptorsAssumption
  <2> QED
    BY <2>1, FS_Interval DEF PagesOf
<1>4. IsFiniteSet(UNION R)
  BY <1>2, <1>3, FS_UNION
<1> QED
  BY <1>4, FS_CardinalityType DEF MemoryPages

\* Consequently the bitmap has finitely many bits, and more than MemoryPages.
LEMMA BitCountType ==
    /\ BitCount \in Nat
    /\ BitCount > MemoryPages
    /\ BitmapBytes \in Nat \ {0}
<1>1. MemoryPages \div 8 \in Nat /\ 8 * (MemoryPages \div 8 + 1) > MemoryPages
  BY MemoryPagesType, SMT
<1> QED
  BY <1>1, MemoryPagesType DEF BitCount, BitmapBytes

\* The bitmap has finitely many bits, numbered by natural numbers.
LEMMA IndexFinite == IsFiniteSet(Index) /\ Index \subseteq Nat
  BY BitCountType, FS_Interval DEF Index

\* A part of the bitmap is finite and has a cardinality.
LEMMA BitmapFinite ==
  ASSUME NEW S \in SUBSET Index
  PROVE  IsFiniteSet(S) /\ Cardinality(S) \in Nat
  BY IndexFinite, FS_Subset, FS_CardinalityType

-----------------------------------------------------------------------------
\* The counters of a agree with its bitmap.
Balanced(a) ==
    /\ a.used + a.reserved = Cardinality(a.bitmap)
    /\ a.free + Cardinality(a.bitmap) = MemoryPages

\* Cardinality of a bitmap after setting clear bits and clearing set bits.
LEMMA SetBits ==
  ASSUME NEW B \in SUBSET Index, NEW S
  PROVE  LET new == (S \cap Index) \ B
         IN  /\ Cardinality(new) \in Nat
             /\ Cardinality(B \cup new) = Cardinality(B) + Cardinality(new)
<1> DEFINE new == (S \cap Index) \ B
<1>1. IsFiniteSet(B) /\ IsFiniteSet(new) /\ Cardinality(new) \in Nat
      /\ Cardinality(B) \in Nat
  BY BitmapFinite
<1>2. B \cap new = {}
  OBVIOUS
<1>3. Cardinality(B \cup new) = Cardinality(B) + Cardinality(new) - Cardinality(B \cap new)
  BY <1>1, FS_Union
<1> QED
  BY <1>1, <1>2, <1>3, FS_EmptySet

\* The same for a part whose bits are cleared.
LEMMA ClearBits ==
  ASSUME NEW B \in SUBSET Index, NEW S
  PROVE  LET gone == S \cap B
         IN  /\ Cardinality(gone) \in Nat
             /\ Cardinality(B) \in Nat
             /\ Cardinality(B \ gone) = Cardinality(B) - Cardinality(gone)
<1> DEFINE gone == S \cap B
<1>1. IsFiniteSet(B) /\ Cardinality(gone) \in Nat /\ Cardinality(B) \in Nat
  BY BitmapFinite
<1>2. B \cap gone = gone
  OBVIOUS
<1>3. Cardinality(B \ gone) = Cardinality(B) - Cardinality(B \cap gone)
  BY <1>1, FS_Difference
<1> QED
  BY <1>1, <1>2, <1>3

-----------------------------------------------------------------------------
\* The fields of an allocator and their types.
LEMMA AllocatorFields ==
  ASSUME NEW a \in Allocator
  PROVE  /\ a.bitmap \in SUBSET Index /\ Cardinality(a.bitmap) \in Nat
         /\ a.free \in Int /\ a.used \in Int /\ a.reserved \in Int
         /\ a.cursor \in 0 .. BitCount /\ a.buffer \in Nat
<1>1. a.bitmap \in SUBSET Index
  BY DEF Allocator
<1> QED
  BY <1>1, BitmapFinite DEF Allocator

\* What the four loops do to an allocator: the bits they set or clear, the
\* fields they keep, and that they keep the counters balanced.
LEMMA LockLoop ==
  ASSUME NEW a \in Allocator, NEW S
  PROVE  /\ Lock(a, S) \in Allocator
         /\ Lock(a, S).bitmap = a.bitmap \cup (S \cap Index)
         /\ Lock(a, S).cursor = a.cursor
         /\ Lock(a, S).buffer = a.buffer
         /\ Lock(a, S).reserved = a.reserved
         /\ Lock(a, S).used = a.used + Cardinality((S \cap Index) \ a.bitmap)
         /\ Balanced(a) => Balanced(Lock(a, S))
<1> DEFINE new == (S \cap Index) \ a.bitmap
           n == Cardinality(new)
           B == a.bitmap \cup new
           x == a.free - n
           y == a.used + n
           r == Lock(a, S)
<1>1. n \in Nat /\ Cardinality(B) = Cardinality(a.bitmap) + n
  BY AllocatorFields, SetBits
<1>2. B \in SUBSET Index /\ B = a.bitmap \cup (S \cap Index)
  BY AllocatorFields
<1>3. x \in Int /\ y \in Int
  BY <1>1, AllocatorFields
<1>4. r = [a EXCEPT !.bitmap = B, !.free = x, !.used = y]
  BY DEF Lock
<1>5. /\ r \in Allocator
      /\ r.bitmap = B /\ r.free = x /\ r.used = y
      /\ r.reserved = a.reserved /\ r.cursor = a.cursor /\ r.buffer = a.buffer
  <2> HIDE DEF B, x, y, r
  <2> QED
    BY <1>2, <1>3, <1>4 DEF Allocator
<1>6. Balanced(a) => Balanced(r)
  <2> HIDE DEF n, B, r
  <2> QED
    BY <1>1, <1>5, AllocatorFields, MemoryPagesType DEF Balanced
<1> QED
  BY <1>2, <1>5, <1>6

\* reserve_pages: reserved_memory grows by the bits it sets.
LEMMA ReserveLoop ==
  ASSUME NEW a \in Allocator, NEW S
  PROVE  /\ Reserve(a, S) \in Allocator
         /\ Reserve(a, S).bitmap = a.bitmap \cup (S \cap Index)
         /\ Reserve(a, S).cursor = a.cursor
         /\ Reserve(a, S).buffer = a.buffer
         /\ Balanced(a) => Balanced(Reserve(a, S))
<1> DEFINE new == (S \cap Index) \ a.bitmap
           n == Cardinality(new)
           B == a.bitmap \cup new
           x == a.free - n
           y == a.reserved + n
           r == Reserve(a, S)
<1>1. n \in Nat /\ Cardinality(B) = Cardinality(a.bitmap) + n
  BY AllocatorFields, SetBits
<1>2. B \in SUBSET Index /\ B = a.bitmap \cup (S \cap Index)
  BY AllocatorFields
<1>3. x \in Int /\ y \in Int
  BY <1>1, AllocatorFields
<1>4. r = [a EXCEPT !.bitmap = B, !.free = x, !.reserved = y]
  BY DEF Reserve
<1>5. /\ r \in Allocator
      /\ r.bitmap = B /\ r.free = x /\ r.reserved = y
      /\ r.used = a.used /\ r.cursor = a.cursor /\ r.buffer = a.buffer
  <2> HIDE DEF B, x, y, r
  <2> QED
    BY <1>2, <1>3, <1>4 DEF Allocator
<1>6. Balanced(a) => Balanced(r)
  <2> HIDE DEF n, B, r
  <2> QED
    BY <1>1, <1>5, AllocatorFields, MemoryPagesType DEF Balanced
<1> QED
  BY <1>2, <1>5, <1>6

\* unreserve_pages: reserved_memory shrinks by the bits it clears.
LEMMA UnreserveLoop ==
  ASSUME NEW a \in Allocator, NEW S
  PROVE  /\ Unreserve(a, S) \in Allocator
         /\ Unreserve(a, S).bitmap = a.bitmap \ S
         /\ Unreserve(a, S).cursor = a.cursor
         /\ Unreserve(a, S).buffer = a.buffer
         /\ Balanced(a) => Balanced(Unreserve(a, S))
<1> DEFINE gone == S \cap a.bitmap
           n == Cardinality(gone)
           B == a.bitmap \ gone
           x == a.free + n
           y == a.reserved - n
           r == Unreserve(a, S)
<1>1. n \in Nat /\ Cardinality(B) = Cardinality(a.bitmap) - n
  BY AllocatorFields, ClearBits
<1>2. B \in SUBSET Index /\ B = a.bitmap \ S
  BY AllocatorFields
<1>3. x \in Int /\ y \in Int
  BY <1>1, AllocatorFields
<1>4. r = [a EXCEPT !.bitmap = B, !.free = x, !.reserved = y]
  BY DEF Unreserve
<1>5. /\ r \in Allocator
      /\ r.bitmap = B /\ r.free = x /\ r.reserved = y
      /\ r.used = a.used /\ r.cursor = a.cursor /\ r.buffer = a.buffer
  <2> HIDE DEF B, x, y, r
  <2> QED
    BY <1>2, <1>3, <1>4 DEF Allocator
<1>6. Balanced(a) => Balanced(r)
  <2> HIDE DEF n, B, r
  <2> QED
    BY <1>1, <1>5, AllocatorFields, MemoryPagesType DEF Balanced
<1> QED
  BY <1>2, <1>5, <1>6

\* free_pages: used_memory shrinks by the bits it clears.
LEMMA ReleaseLoop ==
  ASSUME NEW a \in Allocator, NEW S
  PROVE  /\ Release(a, S) \in Allocator
         /\ Release(a, S).bitmap = a.bitmap \ S
         /\ Release(a, S).cursor = a.cursor
         /\ Release(a, S).buffer = a.buffer
         /\ Release(a, S).reserved = a.reserved
         /\ Release(a, S).used = a.used - Cardinality(S \cap a.bitmap)
         /\ Balanced(a) => Balanced(Release(a, S))
<1> DEFINE gone == S \cap a.bitmap
           n == Cardinality(gone)
           B == a.bitmap \ gone
           x == a.free + n
           y == a.used - n
           r == Release(a, S)
<1>1. n \in Nat /\ Cardinality(B) = Cardinality(a.bitmap) - n
  BY AllocatorFields, ClearBits
<1>2. B \in SUBSET Index /\ B = a.bitmap \ S
  BY AllocatorFields
<1>3. x \in Int /\ y \in Int
  BY <1>1, AllocatorFields
<1>4. r = [a EXCEPT !.bitmap = B, !.free = x, !.used = y]
  BY DEF Release
<1>5. /\ r \in Allocator
      /\ r.bitmap = B /\ r.free = x /\ r.used = y
      /\ r.reserved = a.reserved /\ r.cursor = a.cursor /\ r.buffer = a.buffer
  <2> HIDE DEF B, x, y, r
  <2> QED
    BY <1>2, <1>3, <1>4 DEF Allocator
<1>6. Balanced(a) => Balanced(r)
  <2> HIDE DEF n, B, r
  <2> QED
    BY <1>1, <1>5, AllocatorFields, MemoryPagesType DEF Balanced
<1> QED
  BY <1>2, <1>5, <1>6

\* Moving the cursor keeps everything else.
LEMMA CursorMoves ==
  ASSUME NEW a \in Allocator, NEW c \in 0 .. BitCount
  PROVE  /\ MoveCursor(a, c) \in Allocator
         /\ MoveCursor(a, c).bitmap = a.bitmap /\ MoveCursor(a, c).buffer = a.buffer
         /\ MoveCursor(a, c).reserved = a.reserved /\ MoveCursor(a, c).used = a.used
         /\ Balanced(a) => Balanced(MoveCursor(a, c))
  BY DEF MoveCursor, Allocator, Balanced

\* The allocator init_bitmap leaves is balanced.
LEMMA FreshAllocator ==
  ASSUME NEW base \in Nat
  PROVE  Fresh(base) \in Allocator /\ Balanced(Fresh(base)) /\ Fresh(base).buffer = base
<1>1. Cardinality({}) = 0
  BY FS_EmptySet
<1>2. MemoryPages \in Nat /\ BitCount \in Nat
  BY MemoryPagesType, BitCountType
<1>3. Fresh(base) \in Allocator
  BY <1>2 DEF Fresh, Allocator
<1> QED
  BY <1>1, <1>2, <1>3 DEF Fresh, Balanced

\* What must be locked already before the kernel image is.
Firmware(base) ==
    Index \cap ( (0 .. LowPages - 1) \cup ((0 .. MemoryPages) \ Conventional)
                 \cup BufferPages(base) )

\* The allocator read_efi_memory_map leaves is balanced and has everything
\* locked that must be.
LEMMA MappedAllocatorLemma ==
  ASSUME NEW base \in Nat
  PROVE  /\ MappedAllocator(base) \in Allocator
         /\ Balanced(MappedAllocator(base))
         /\ MappedAllocator(base).buffer = base
         /\ Firmware(base) \subseteq MappedAllocator(base).bitmap
<1> DEFINE a0 == Fresh(base)
           a1 == Reserve(a0, 0 .. MemoryPages)
           a2 == Unreserve(a1, Conventional)
           a3 == Reserve(a2, 0 .. LowPages - 1)
           a4 == Lock(a3, BufferPages(base))
<1>0. a0 \in Allocator /\ Balanced(a0) /\ a0.buffer = base
  BY FreshAllocator
<1>1. /\ a1 \in Allocator /\ Balanced(a1) /\ a1.buffer = base
      /\ Index \cap (0 .. MemoryPages) \subseteq a1.bitmap
  <2> HIDE DEF a0
  <2> QED
    BY <1>0, ReserveLoop
<1>2. /\ a2 \in Allocator /\ Balanced(a2) /\ a2.buffer = base
      /\ Index \cap ((0 .. MemoryPages) \ Conventional) \subseteq a2.bitmap
  <2> HIDE DEF a1
  <2> QED
    BY <1>1, UnreserveLoop
<1>3. /\ a3 \in Allocator /\ Balanced(a3) /\ a3.buffer = base
      /\ Index \cap ((0 .. LowPages - 1) \cup ((0 .. MemoryPages) \ Conventional))
            \subseteq a3.bitmap
  <2> HIDE DEF a2
  <2>1. a3.bitmap = a2.bitmap \cup ((0 .. LowPages - 1) \cap Index)
    BY <1>2, ReserveLoop
  <2>2. a3 \in Allocator /\ Balanced(a3) /\ a3.buffer = base
    BY <1>2, ReserveLoop
  <2> QED
    BY <1>2, <2>1, <2>2
<1>4. /\ a4 \in Allocator /\ Balanced(a4) /\ a4.buffer = base
      /\ Firmware(base) \subseteq a4.bitmap
  <2> HIDE DEF a3
  <2>1. a4.bitmap = a3.bitmap \cup (BufferPages(base) \cap Index)
    BY <1>3, LockLoop
  <2>2. a4 \in Allocator /\ Balanced(a4) /\ a4.buffer = base
    BY <1>3, LockLoop
  <2> QED
    BY <1>3, <2>1, <2>2 DEF Firmware
<1>5. MappedAllocator(base) = a4
  BY DEF MappedAllocator
<1> QED
  BY <1>4, <1>5

-----------------------------------------------------------------------------
(***************************************************************************)
(* The inductive invariant: besides what the runs check, what has been     *)
(* locked by each phase of prepare_memory.                                 *)
(***************************************************************************)
Locked ==
    /\ phase \in {"start", "mapped"} => blocks = {}
    /\ phase # "running" => lost = {} /\ refused = {}
    /\ phase = "start" => pfa.bitmap = {}
    /\ phase = "mapped" => Firmware(pfa.buffer) \subseteq pfa.bitmap
    /\ phase \in {"kernel", "running"} => Protected \subseteq pfa.bitmap \cup lost
    /\ {} \notin blocks

IInv ==
    /\ TypeOK
    /\ Accounting
    /\ NoDoubleAllocation
    /\ ProtectedNeverHandedOut
    /\ Locked

\* The invariant holds before read_efi_memory_map.
LEMMA IInvInit == Init => IInv
<1> SUFFICES ASSUME Init PROVE IInv
  OBVIOUS
<1>1. BitCount \in Nat /\ Index = 0 .. BitCount - 1
  BY BitCountType DEF Index
<1>2. pfa \in Allocator
  BY <1>1 DEF Init, Allocator
<1> QED
  BY <1>1, <1>2 DEF Init, IInv, TypeOK, Accounting, NoDoubleAllocation,
     ProtectedNeverHandedOut, Locked, Held

\* A new block of free pages added to the blocks that clients hold.
LEMMA TakeBlock ==
  ASSUME IInv, phase \in {"kernel", "running"}, phase' = phase,
         NEW S \in SUBSET FreeBits, S # {}, NEW c \in 0 .. BitCount,
         pfa' = MoveCursor(Lock(pfa, S), c),
         blocks' = blocks \cup {S},
         asked' \in {1} \cup BlockLengths, returned' \in Index,
         UNCHANGED <<refused, lost>>
  PROVE  IInv'
<1>1. pfa \in Allocator /\ Balanced(pfa)
  BY DEF IInv, TypeOK, Accounting, Balanced
<1>2. /\ pfa' \in Allocator /\ Balanced(pfa')
      /\ pfa'.bitmap = pfa.bitmap \cup S /\ pfa'.buffer = pfa.buffer
  <2>1. S \cap Index = S
    BY DEF FreeBits
  <2>2. Lock(pfa, S) \in Allocator /\ Balanced(Lock(pfa, S))
    BY <1>1, LockLoop
  <2>3. /\ pfa' \in Allocator /\ Balanced(pfa')
        /\ pfa'.bitmap = Lock(pfa, S).bitmap /\ pfa'.buffer = Lock(pfa, S).buffer
    BY <2>2, CursorMoves
  <2>4. Lock(pfa, S).bitmap = pfa.bitmap \cup (S \cap Index)
        /\ Lock(pfa, S).buffer = pfa.buffer
    BY <1>1, LockLoop
  <2> QED
    BY <2>1, <2>3, <2>4
<1>3. TypeOK'
  BY <1>2 DEF IInv, TypeOK, FreeBits
<1>4. Accounting'
  BY <1>2 DEF Accounting, Balanced
<1>5. Held' = Held \cup S
  BY DEF Held
<1>6. S \cap Held \subseteq lost /\ S \cap Protected \subseteq lost
  BY DEF IInv, NoDoubleAllocation, Locked, FreeBits
<1>7. NoDoubleAllocation'
  BY <1>2, <1>5, <1>6 DEF IInv, NoDoubleAllocation, Held
<1>8. Protected' = Protected
  BY <1>2 DEF Protected
<1>9. ProtectedNeverHandedOut'
  BY <1>5, <1>6, <1>8 DEF IInv, ProtectedNeverHandedOut
<1>10. Locked'
  BY <1>2, <1>8 DEF IInv, Locked
<1> QED
  BY <1>3, <1>4, <1>7, <1>9, <1>10 DEF IInv

\* Where a refused request leaves the cursor, and what it returns.
LEMMA EndOfBitmap == BitCount \in 0 .. BitCount /\ Null \in Index
  BY BitCountType, MemoryPagesType DEF Index

\* A refused request moves the cursor and nothing else.
LEMMA CursorOnly ==
  ASSUME IInv, phase # "start", NEW c \in 0 .. BitCount,
         pfa' = MoveCursor(pfa, c),
         UNCHANGED <<phase, blocks, lost>>,
         asked' \in {1} \cup BlockLengths, returned' \in Index \cup {NoCall},
         refused' \subseteq {1} \cup BlockLengths,
         phase # "running" => refused' = refused
  PROVE  IInv'
<1>1. pfa \in Allocator /\ Balanced(pfa)
  BY DEF IInv, TypeOK, Accounting, Balanced
<1>2. /\ pfa' \in Allocator /\ Balanced(pfa')
      /\ pfa'.bitmap = pfa.bitmap /\ pfa'.buffer = pfa.buffer
  BY <1>1, CursorMoves
<1>3. Held' = Held /\ Protected' = Protected
  BY <1>2 DEF Held, Protected
<1>4. TypeOK' /\ Accounting'
  BY <1>2 DEF IInv, TypeOK, Accounting, Balanced
<1>5. NoDoubleAllocation' /\ ProtectedNeverHandedOut' /\ Locked'
  BY <1>2, <1>3 DEF IInv, NoDoubleAllocation, ProtectedNeverHandedOut, Locked
<1> QED
  BY <1>4, <1>5 DEF IInv

\* free_pages clears the bits of its pages, whoever holds them.
LEMMA FreeLoop ==
  ASSUME IInv, phase = "running", NEW S, Free(S)
  PROVE  /\ pfa' \in Allocator /\ Balanced(pfa')
         /\ pfa'.bitmap = pfa.bitmap \ S /\ pfa'.buffer = pfa.buffer
         /\ pfa'.reserved = pfa.reserved
         /\ pfa'.used = pfa.used - Cardinality(S \cap pfa.bitmap)
<1>1. PICK c \in 0 .. BitCount : pfa' = MoveCursor(Release(pfa, S), c)
  BY DEF Free
<1>2. pfa \in Allocator /\ Balanced(pfa)
  BY DEF IInv, TypeOK, Accounting, Balanced
<1>3. /\ Release(pfa, S) \in Allocator /\ Balanced(Release(pfa, S))
      /\ Release(pfa, S).bitmap = pfa.bitmap \ S /\ Release(pfa, S).buffer = pfa.buffer
      /\ Release(pfa, S).reserved = pfa.reserved
      /\ Release(pfa, S).used = pfa.used - Cardinality(S \cap pfa.bitmap)
  BY <1>2, ReleaseLoop
<1> QED
  BY <1>1, <1>3, CursorMoves

\* Every step keeps the invariant, one case for each action.
LEMMA IInvNext == IInv /\ [Next]_vars => IInv'
<1> SUFFICES ASSUME IInv, [Next]_vars PROVE IInv'
  OBVIOUS
<1> USE DEF IInv
<1>1. CASE ReadEfiMemoryMap
  <2>1. PICK base \in BufferBases : pfa' = MappedAllocator(base)
    BY <1>1 DEF ReadEfiMemoryMap
  <2>2. base \in Nat
    BY DescriptorsAssumption DEF BufferBases, LargestSegments
  <2>3. /\ pfa' \in Allocator /\ Balanced(pfa')
        /\ pfa'.buffer = base /\ Firmware(base) \subseteq pfa'.bitmap
    BY <2>1, <2>2, MappedAllocatorLemma
  <2>4. blocks' = {} /\ phase' = "mapped" /\ Held' = {}
    BY <1>1 DEF ReadEfiMemoryMap, history, Locked, Held
  <2>5. TypeOK'
    BY <1>1, <2>3, <2>4 DEF ReadEfiMemoryMap, history, TypeOK
  <2>6. Accounting'
    BY <2>3 DEF Accounting, Balanced
  <2>7. NoDoubleAllocation' /\ ProtectedNeverHandedOut'
    BY <2>4 DEF NoDoubleAllocation, ProtectedNeverHandedOut
  <2>8. Locked'
    BY <1>1, <2>3, <2>4 DEF ReadEfiMemoryMap, history, Locked
  <2> QED
    BY <2>5, <2>6, <2>7, <2>8
<1>2. CASE LockKernel
  <2>1. pfa \in Allocator /\ Balanced(pfa) /\ pfa' = Lock(pfa, KernelImage)
        /\ phase = "mapped" /\ phase' = "kernel" /\ UNCHANGED <<blocks, asked, returned, refused, lost>>
    BY <1>2 DEF LockKernel, history, TypeOK, Accounting, Balanced
  <2>2. /\ pfa' \in Allocator /\ Balanced(pfa')
        /\ pfa'.buffer = pfa.buffer /\ pfa'.bitmap = pfa.bitmap \cup (KernelImage \cap Index)
    BY <2>1, LockLoop
  <2>3. blocks' = {} /\ Held' = {}
    BY <2>1 DEF Locked, Held
  <2>4. TypeOK'
    BY <2>1, <2>2 DEF TypeOK
  <2>5. Accounting'
    BY <2>2 DEF Accounting, Balanced
  <2>6. NoDoubleAllocation' /\ ProtectedNeverHandedOut'
    BY <2>3 DEF NoDoubleAllocation, ProtectedNeverHandedOut
  <2>7. Locked'
    BY <2>1, <2>2 DEF Locked, Protected, Firmware
  <2> QED
    BY <2>4, <2>5, <2>6, <2>7
<1>3. CASE LockFramebuffer
  <2>1. pfa \in Allocator /\ Balanced(pfa) /\ pfa' = Lock(pfa, Framebuffer)
        /\ phase = "kernel" /\ phase' = "running" /\ UNCHANGED <<blocks, asked, returned, refused, lost>>
    BY <1>3 DEF LockFramebuffer, history, TypeOK, Accounting, Balanced
  <2>2. /\ pfa' \in Allocator /\ Balanced(pfa')
        /\ pfa'.buffer = pfa.buffer /\ pfa'.bitmap = pfa.bitmap \cup (Framebuffer \cap Index)
    BY <2>1, LockLoop
  <2>3. Held' = Held /\ Protected' = Protected
    BY <2>1, <2>2 DEF Held, Protected
  <2>4. TypeOK'
    BY <2>1, <2>2 DEF TypeOK
  <2>5. Accounting'
    BY <2>2 DEF Accounting, Balanced
  <2>6. NoDoubleAllocation' /\ ProtectedNeverHandedOut'
    BY <2>1, <2>2, <2>3 DEF NoDoubleAllocation, ProtectedNeverHandedOut
  <2>7. Locked'
    BY <2>1, <2>2, <2>3 DEF Locked
  <2> QED
    BY <2>4, <2>5, <2>6, <2>7
<1>4. CASE RequestPage
  <2>1. PICK p \in Index :
           /\ FirstFree(p)
           /\ pfa' = MoveCursor(Lock(pfa, {p}), p)
           /\ blocks' = blocks \cup {{p}}
           /\ returned' = p
    BY <1>4 DEF RequestPage
  <2>2. p \in FreeBits /\ p \in 0 .. BitCount
    BY <2>1, BitCountType DEF FirstFree, Index
  <2>3. phase \in {"kernel", "running"} /\ phase' = phase /\ asked' = 1
        /\ UNCHANGED <<refused, lost>>
    BY <1>4 DEF RequestPage
  <2> QED
    BY <2>1, <2>2, <2>3, TakeBlock
<1>5. CASE RequestPageFails
  <2>1. pfa' = MoveCursor(pfa, BitCount) /\ asked' = 1 /\ returned' = Null
        /\ UNCHANGED <<phase, blocks, lost>> /\ phase # "start"
        /\ refused' \subseteq {1} \cup BlockLengths
        /\ (phase # "running" => refused' = refused)
    BY <1>5 DEF RequestPageFails, TypeOK
  <2> QED
    BY <2>1, CursorOnly, EndOfBitmap
<1>6. ASSUME NEW n \in BlockLengths, RequestPages(n) PROVE IInv'
  <2>1. PICK s \in Index :
           /\ RunFrom(s, n)
           /\ pfa' = MoveCursor(Lock(pfa, s .. s + n - 1), s + n - 1)
           /\ blocks' = blocks \cup {s .. s + n - 1}
           /\ returned' = s
    BY <1>6 DEF RequestPages
  <2>2. s .. s + n - 1 \in SUBSET FreeBits
    BY <2>1 DEF RunFrom
  <2>3. n \in Nat \ {0} /\ s \in Nat
    BY <2>1, ParametersAssumption, BitCountType DEF Index
  <2>4. s .. s + n - 1 # {} /\ s + n - 1 \in s .. s + n - 1
    <3>1. s + n - 1 \in Int /\ s + n - 1 >= s /\ s \in Int
      BY <2>3
    <3> QED
      BY <3>1
  <2>5. s + n - 1 \in 0 .. BitCount
    BY <2>2, <2>4, BitCountType DEF FreeBits, Index
  <2>6. phase \in {"kernel", "running"} /\ phase' = phase /\ asked' = n
        /\ UNCHANGED <<refused, lost>>
    BY <1>6 DEF RequestPages
  <2> DEFINE S == s .. s + n - 1
             c == s + n - 1
  <2>7. /\ S \in SUBSET FreeBits /\ S # {} /\ c \in 0 .. BitCount
        /\ pfa' = MoveCursor(Lock(pfa, S), c)
        /\ blocks' = blocks \cup {S}
    BY <2>1, <2>2, <2>4, <2>5
  <2> HIDE DEF S, c
  <2> QED
    BY <1>6, <2>1, <2>6, <2>7, TakeBlock
<1>7. ASSUME NEW n \in BlockLengths, RequestPagesFails(n) PROVE IInv'
  <2>1. pfa' = MoveCursor(pfa, BitCount) /\ asked' = n /\ returned' = Null
        /\ UNCHANGED <<phase, blocks, lost>> /\ phase = "running"
        /\ refused' \subseteq {1} \cup BlockLengths
    BY <1>7 DEF RequestPagesFails, TypeOK
  <2> QED
    BY <1>7, <2>1, CursorOnly, EndOfBitmap
<1>8. ASSUME NEW b \in blocks, FreePages(b) PROVE IInv'
  <2>2. phase = "running" /\ phase' = "running" /\ Free(b)
        /\ (blocks' = blocks \ {b} \/ (b \subseteq lost /\ blocks' = blocks))
        /\ asked' = asked /\ returned' = NoCall /\ UNCHANGED <<refused, lost>>
    BY <1>8 DEF FreePages
  <2>4. /\ pfa' \in Allocator /\ Balanced(pfa')
        /\ pfa'.bitmap = pfa.bitmap \ b /\ pfa'.buffer = pfa.buffer
    BY <2>2, FreeLoop
  <2>5. Protected' = Protected /\ Held' \subseteq Held /\ Held' \cap b \subseteq lost
    BY <1>8, <2>2, <2>4 DEF Protected, Held, NoDoubleAllocation
  <2>6. TypeOK'
    BY <2>2, <2>4 DEF TypeOK
  <2>7. Accounting'
    BY <2>4 DEF Accounting, Balanced
  <2>8. NoDoubleAllocation'
    BY <2>2, <2>4, <2>5 DEF NoDoubleAllocation
  <2>9. ProtectedNeverHandedOut'
    BY <2>2, <2>5 DEF ProtectedNeverHandedOut
  <2>10. Protected \cap b \subseteq lost
    BY <1>8 DEF ProtectedNeverHandedOut, Held
  <2>11. Locked'
    BY <2>2, <2>4, <2>5, <2>10 DEF Locked
  <2> QED
    BY <2>6, <2>7, <2>8, <2>9, <2>11
<1>10. ASSUME NEW n \in refused, FreeRefused(n) PROVE IInv'
  <2> DEFINE N == NullBlock(n)
  <2>1. phase = "running" /\ phase' = "running" /\ Free(N)
        /\ lost' = lost \cup (N \cap Index) /\ refused' \in {refused, refused \ {n}}
        /\ blocks' = blocks /\ asked' = asked /\ returned' = NoCall
    BY <1>10 DEF FreeRefused
  <2> HIDE DEF N
  <2>2. /\ pfa' \in Allocator /\ Balanced(pfa')
        /\ pfa'.bitmap = pfa.bitmap \ N /\ pfa'.buffer = pfa.buffer
    BY <2>1, FreeLoop
  <2>3. Protected' = Protected /\ Held' = Held /\ Held \subseteq Index
    BY <2>1, <2>2 DEF Protected, Held, TypeOK
  <2>4. TypeOK'
    BY <2>1, <2>2 DEF TypeOK
  <2>5. Accounting'
    BY <2>2 DEF Accounting, Balanced
  <2>6. NoDoubleAllocation'
    BY <2>1, <2>2, <2>3 DEF NoDoubleAllocation
  <2>7. ProtectedNeverHandedOut'
    BY <2>1, <2>3 DEF ProtectedNeverHandedOut
  <2>8. Locked'
    BY <2>1, <2>2, <2>3 DEF Locked, Protected
  <2> QED
    BY <2>4, <2>5, <2>6, <2>7, <2>8
<1>9. CASE UNCHANGED vars
  BY <1>9 DEF vars, history, TypeOK, Accounting, NoDoubleAllocation,
     ProtectedNeverHandedOut, Locked, Held, Protected
<1> QED
  BY <1>1, <1>2, <1>3, <1>4, <1>5, <1>6, <1>7, <1>8, <1>9, <1>10 DEF Next

\* The inductive invariant holds in every state.
THEOREM Invariance == Spec => []IInv
  BY IInvInit, IInvNext, PTL DEF Spec

\* In every reachable state the variables have their types; in particular the
\* cursor never leaves the bitmap.
THEOREM TypeCorrect == Spec => []TypeOK
<1>1. IInv => TypeOK
  BY DEF IInv
<1> QED
  BY <1>1, Invariance, PTL

\* Every set bit is counted exactly once, whatever ranges the boot code and
\* the clients lock, reserve and free.
THEOREM AccountingHolds == Spec => []Accounting
<1>1. IInv => Accounting
  BY DEF IInv
<1> QED
  BY <1>1, Invariance, PTL

\* No page is handed to two clients at once, unless it is one of the lowest, given
\* back by a client that was refused.
THEOREM NoDoubleAllocationHolds == Spec => []NoDoubleAllocation
<1>1. IInv => NoDoubleAllocation
  BY DEF IInv
<1> QED
  BY <1>1, Invariance, PTL

\* Low memory, the bitmap, the kernel image and the pages firmware keeps are
\* never handed out, but for those that a client which was refused has given back.
THEOREM ProtectedHolds == Spec => []ProtectedNeverHandedOut
<1>1. IInv => ProtectedNeverHandedOut
  BY DEF IInv
<1> QED
  BY <1>1, Invariance, PTL

-----------------------------------------------------------------------------
\* What the bitmap and the counters become in each kind of step.
LEMMA RequestEffect ==
  ASSUME NEW a \in Allocator, NEW S \in SUBSET (Index \ a.bitmap), NEW c \in 0 .. BitCount
  PROVE  /\ MoveCursor(Lock(a, S), c).bitmap = a.bitmap \cup S
         /\ MoveCursor(Lock(a, S), c).used = a.used + Cardinality(S)
         /\ MoveCursor(Lock(a, S), c).reserved = a.reserved
<1>1. Lock(a, S) \in Allocator
  BY LockLoop
<1>2. /\ MoveCursor(Lock(a, S), c).bitmap = Lock(a, S).bitmap
      /\ MoveCursor(Lock(a, S), c).used = Lock(a, S).used
      /\ MoveCursor(Lock(a, S), c).reserved = Lock(a, S).reserved
  BY <1>1, CursorMoves
<1>3. S \cap Index = S /\ (S \cap Index) \ a.bitmap = S
  OBVIOUS
<1>4. /\ Lock(a, S).bitmap = a.bitmap \cup (S \cap Index)
      /\ Lock(a, S).used = a.used + Cardinality((S \cap Index) \ a.bitmap)
      /\ Lock(a, S).reserved = a.reserved
  BY LockLoop
<1> QED
  BY <1>2, <1>3, <1>4

\* Every step of the allocator is of one of five kinds.
LEMMA StepKinds ==
  ASSUME IInv, [Next]_vars
  PROVE  \/ /\ phase # "running"
            /\ UNCHANGED <<blocks, refused, lost>>
            /\ pfa.bitmap \subseteq pfa'.bitmap /\ pfa'.bitmap \subseteq Index
         \/ \E first, last \in FreeBits :
               /\ first <= last /\ first .. last \subseteq FreeBits
               /\ pfa'.bitmap = pfa.bitmap \cup (first .. last)
               /\ pfa'.used = pfa.used + Cardinality(first .. last)
               /\ pfa'.reserved = pfa.reserved
               /\ blocks' = blocks \cup {first .. last}
               /\ UNCHANGED <<refused, lost>>
         \/ \E b \in blocks :
               /\ pfa'.bitmap = pfa.bitmap \ b
               /\ pfa'.used = pfa.used - Cardinality(b \cap pfa.bitmap)
               /\ pfa'.reserved = pfa.reserved
               /\ blocks' = blocks \ {b} \/ (b \subseteq lost /\ blocks' = blocks)
               /\ UNCHANGED <<refused, lost>>
         \/ /\ pfa'.bitmap = pfa.bitmap /\ UNCHANGED <<blocks, lost>>
            /\ pfa'.used = pfa.used /\ pfa'.reserved = pfa.reserved
            /\ refused' = refused \/ \E n \in {1} \cup BlockLengths : refused' = refused \cup {n}
         \/ \E n \in refused :
               /\ pfa'.bitmap = pfa.bitmap \ NullBlock(n)
               /\ pfa'.used = pfa.used - Cardinality(NullBlock(n) \cap pfa.bitmap)
               /\ pfa'.reserved = pfa.reserved
               /\ lost' = lost \cup (NullBlock(n) \cap Index)
               /\ refused' \in {refused, refused \ {n}} /\ UNCHANGED blocks
<1>1. pfa \in Allocator /\ IInv'
  BY IInvNext DEF IInv, TypeOK
<1>2. pfa'.bitmap \subseteq Index
  BY <1>1 DEF IInv, TypeOK, Allocator
<1>3. CASE ReadEfiMemoryMap
  BY <1>2, <1>3 DEF ReadEfiMemoryMap, history, IInv, Locked
<1>4. CASE LockKernel
  BY <1>1, <1>2, <1>4, LockLoop DEF LockKernel, history
<1>5. CASE LockFramebuffer
  BY <1>1, <1>2, <1>5, LockLoop DEF LockFramebuffer, history
<1>6. CASE RequestPage
  <2>1. PICK p \in Index : /\ FirstFree(p)
                           /\ pfa' = MoveCursor(Lock(pfa, {p}), p)
                           /\ blocks' = blocks \cup {{p}}
                           /\ UNCHANGED <<refused, lost>>
    BY <1>6 DEF RequestPage
  <2>2. p \in FreeBits /\ p \in 0 .. BitCount /\ p \in Int
    BY <2>1, BitCountType DEF FirstFree, Index
  <2>3. {p} \in SUBSET (Index \ pfa.bitmap)
    BY <2>2 DEF FreeBits
  <2>4. p .. p = {p}
    BY <2>2
  <2>5. /\ pfa'.bitmap = pfa.bitmap \cup {p}
        /\ pfa'.used = pfa.used + Cardinality({p})
        /\ pfa'.reserved = pfa.reserved
    BY <1>1, <2>1, <2>2, <2>3, RequestEffect
  <2>6. p <= p /\ p .. p \subseteq FreeBits
    BY <2>2
  <2>7. /\ pfa'.bitmap = pfa.bitmap \cup (p .. p)
        /\ pfa'.used = pfa.used + Cardinality(p .. p)
        /\ pfa'.reserved = pfa.reserved
        /\ blocks' = blocks \cup {p .. p}
        /\ UNCHANGED <<refused, lost>>
    BY <2>1, <2>4, <2>5, Zenon
  <2> QED
    BY <2>2, <2>6, <2>7
<1>7. ASSUME NEW n \in BlockLengths, RequestPages(n)
      PROVE  \E first, last \in FreeBits :
               /\ first <= last /\ first .. last \subseteq FreeBits
               /\ pfa'.bitmap = pfa.bitmap \cup (first .. last)
               /\ pfa'.used = pfa.used + Cardinality(first .. last)
               /\ pfa'.reserved = pfa.reserved
               /\ blocks' = blocks \cup {first .. last}
               /\ UNCHANGED <<refused, lost>>
  <2>1. PICK s \in Index : /\ RunFrom(s, n)
                           /\ pfa' = MoveCursor(Lock(pfa, s .. s + n - 1), s + n - 1)
                           /\ blocks' = blocks \cup {s .. s + n - 1}
                           /\ UNCHANGED <<refused, lost>>
    BY <1>7 DEF RequestPages
  <2>2. n \in Nat \ {0} /\ s \in Nat
    BY <2>1, ParametersAssumption, BitCountType DEF Index
  <2> DEFINE t == s + n - 1
  <2>3. t \in Int /\ s <= t /\ s \in s .. t /\ t \in s .. t
    BY <2>2
  <2>4. s .. t \subseteq FreeBits
    BY <2>1 DEF RunFrom
  <2>5. t \in 0 .. BitCount
    BY <2>3, <2>4, BitCountType DEF FreeBits, Index
  <2>6. pfa' = MoveCursor(Lock(pfa, s .. t), t) /\ blocks' = blocks \cup {s .. t}
    BY <2>1
  <2> HIDE DEF t
  <2>7. /\ pfa'.bitmap = pfa.bitmap \cup (s .. t)
        /\ pfa'.used = pfa.used + Cardinality(s .. t)
        /\ pfa'.reserved = pfa.reserved
    <3>1. s .. t \in SUBSET (Index \ pfa.bitmap)
      BY <2>4 DEF FreeBits
    <3> QED
      BY <1>1, <2>5, <2>6, <3>1, RequestEffect
  <2>8. s \in FreeBits /\ t \in FreeBits
    BY <2>3, <2>4
  <2> QED
    BY <2>1, <2>3, <2>4, <2>6, <2>7, <2>8
<1>8. ASSUME NEW b \in blocks, FreePages(b)
      PROVE  /\ pfa'.bitmap = pfa.bitmap \ b
             /\ pfa'.used = pfa.used - Cardinality(b \cap pfa.bitmap)
             /\ pfa'.reserved = pfa.reserved
             /\ blocks' = blocks \ {b} \/ (b \subseteq lost /\ blocks' = blocks)
             /\ UNCHANGED <<refused, lost>>
  <2>1. phase = "running" /\ Free(b)
    BY <1>8 DEF FreePages
  <2>2. /\ pfa'.bitmap = pfa.bitmap \ b /\ pfa'.reserved = pfa.reserved
        /\ pfa'.used = pfa.used - Cardinality(b \cap pfa.bitmap)
    BY <2>1, FreeLoop
  <2> QED
    BY <1>8, <2>2 DEF FreePages
<1>9. ASSUME pfa' = MoveCursor(pfa, BitCount)
      PROVE  /\ pfa'.bitmap = pfa.bitmap
             /\ pfa'.used = pfa.used /\ pfa'.reserved = pfa.reserved
  BY <1>1, <1>9, EndOfBitmap, CursorMoves
<1>10. CASE RequestPageFails
  BY <1>9, <1>10 DEF RequestPageFails
<1>11. ASSUME NEW n \in BlockLengths, RequestPagesFails(n)
       PROVE  pfa' = MoveCursor(pfa, BitCount) /\ UNCHANGED <<blocks, lost>>
              /\ refused' = refused \cup {n}
  BY <1>11 DEF RequestPagesFails
<1>16. ASSUME NEW n \in refused, FreeRefused(n)
       PROVE  /\ pfa'.bitmap = pfa.bitmap \ NullBlock(n)
              /\ pfa'.used = pfa.used - Cardinality(NullBlock(n) \cap pfa.bitmap)
              /\ pfa'.reserved = pfa.reserved
              /\ lost' = lost \cup (NullBlock(n) \cap Index)
              /\ refused' \in {refused, refused \ {n}} /\ UNCHANGED blocks
  <2>1. phase = "running" /\ Free(NullBlock(n))
    BY <1>16 DEF FreeRefused
  <2>2. /\ pfa'.bitmap = pfa.bitmap \ NullBlock(n) /\ pfa'.reserved = pfa.reserved
        /\ pfa'.used = pfa.used - Cardinality(NullBlock(n) \cap pfa.bitmap)
    BY <2>1, FreeLoop
  <2> QED
    BY <1>16, <2>2 DEF FreeRefused
<1>17. CASE \E n \in refused : FreeRefused(n)
  BY <1>16, <1>17
<1>12. CASE UNCHANGED vars
  BY <1>12 DEF vars, history
<1>13. CASE \E n \in BlockLengths : RequestPages(n)
  BY <1>7, <1>13
<1>14. CASE \E n \in BlockLengths : RequestPagesFails(n)
  BY <1>9, <1>11, <1>14
<1>15. CASE \E b \in blocks : FreePages(b)
  BY <1>8, <1>15
<1> QED
  BY <1>3, <1>4, <1>5, <1>6, <1>10, <1>12, <1>13, <1>14, <1>15, <1>17 DEF Next

\* What clients hold after one has gained or given back a block.
LEMMA HeldEffect ==
  ASSUME IInv
  PROVE  /\ Held \in SUBSET Index /\ Held \subseteq pfa.bitmap \cup lost
         /\ \A S : blocks' = blocks \cup {S} => Held' = Held \cup S
         /\ \A b \in blocks :
              /\ b \subseteq Held
              /\ blocks' = blocks \ {b} =>
                    Held' \subseteq Held /\ Held \subseteq Held' \cup b /\ Held' \cap b \subseteq lost
         /\ blocks' = blocks => Held' = Held
  BY DEF IInv, TypeOK, Allocator, NoDoubleAllocation, Held

\* Implementation: the allocator's initial states and steps are those of the
\* abstract frame pool.
THEOREM Refinement == Spec => ImplementsFramePool
<1>1. Init => Pool!Init
  BY DEF Init, Pool!Init, FreeBits, Held
<1>2. ASSUME IInv, [Next]_vars
      PROVE  [Pool!Next]_(Pool!poolVars)
  <2> USE <1>2
  <2> DEFINE w == pfa.bitmap \ (Held \cup lost)
             f == FreeBits \ lost
  <2>1. pfa.bitmap \subseteq Index /\ Held \subseteq pfa.bitmap \cup lost
    BY HeldEffect DEF IInv, TypeOK, Allocator
  <2>2. ASSUME UNCHANGED <<blocks, refused, lost>>,
               pfa.bitmap \subseteq pfa'.bitmap, pfa'.bitmap \subseteq Index
        PROVE  Pool!Withdraw
    <3>1. Held' = Held
      BY <2>2, HeldEffect
    <3>2. f' \in SUBSET f
      BY <2>2 DEF FreeBits
    <3>3. w' = w \cup (f \ f')
      BY <2>1, <2>2, <3>1 DEF FreeBits
    <3> QED
      BY <2>2, <3>2, <3>3 DEF Pool!Withdraw
  <2>3. ASSUME NEW first \in FreeBits, NEW last \in FreeBits,
               first <= last, first .. last \subseteq FreeBits,
               pfa'.bitmap = pfa.bitmap \cup (first .. last),
               blocks' = blocks \cup {first .. last}, UNCHANGED <<refused, lost>>
        PROVE  Pool!Allocate(first, last)
    <3>1. Held' = Held \cup (first .. last)
      BY <2>3, HeldEffect
    <3>2. f' = f \ (first .. last)
      BY <2>3 DEF FreeBits
    <3>3. w' = w
      BY <2>1, <2>3, <3>1 DEF FreeBits
    <3>4. first .. last \subseteq f \cup lost
      BY <2>3
    <3> QED
      BY <2>3, <3>2, <3>3, <3>4 DEF Pool!Allocate
  <2>4. ASSUME NEW b \in blocks, pfa'.bitmap = pfa.bitmap \ b,
               blocks' = blocks \ {b} \/ (b \subseteq lost /\ blocks' = blocks),
               UNCHANGED <<refused, lost>>
        PROVE  Pool!GiveBack(b)
    <3>1. Held' \subseteq Held /\ Held \subseteq Held' \cup b /\ b \subseteq Held
      BY <2>4, HeldEffect
    <3>2. b \subseteq Index /\ b # {}
      BY DEF IInv, TypeOK, Locked
    <3>3. f' = f \cup (b \ lost)
      BY <2>1, <2>4, <3>2 DEF FreeBits
    <3>4. w' = w
      BY <2>4, <3>1
    <3> QED
      BY <2>4, <3>2, <3>3, <3>4 DEF Pool!GiveBack
  <2>5. ASSUME pfa'.bitmap = pfa.bitmap, UNCHANGED <<blocks, lost>>
        PROVE  f' = f /\ w' = w
    BY <2>5, HeldEffect DEF FreeBits
  <2>6. ASSUME pfa'.bitmap = pfa.bitmap, UNCHANGED <<blocks, refused, lost>>
        PROVE  UNCHANGED Pool!poolVars
    BY <2>5, <2>6 DEF Pool!poolVars
  <2>7. ASSUME NEW n, pfa'.bitmap = pfa.bitmap, UNCHANGED <<blocks, lost>>,
               refused' = refused \cup {n}
        PROVE  Pool!Refuse(n)
    BY <2>5, <2>7 DEF Pool!Refuse
  <2>8. ASSUME NEW n \in refused, pfa'.bitmap = pfa.bitmap \ NullBlock(n),
               lost' = lost \cup (NullBlock(n) \cap Index),
               refused' \in {refused, refused \ {n}}, UNCHANGED blocks
        PROVE  Pool!GiveBackNull(n)
    <3> DEFINE N == 0 .. n - 1
    <3>1. pfa'.bitmap = pfa.bitmap \ N /\ lost' = lost \cup (Index \cap N)
      BY <2>8 DEF NullBlock
    <3>2. Held' = Held
      BY <2>8, HeldEffect
    <3> HIDE DEF N
    <3>3. f' = f \ lost' /\ w' = w \ lost'
      BY <2>1, <3>1, <3>2 DEF FreeBits
    <3> QED
      BY <2>8, <3>1, <3>3 DEF Pool!GiveBackNull, N
  <2>9. CASE /\ pfa'.bitmap = pfa.bitmap /\ UNCHANGED <<blocks, lost>>
             /\ refused' = refused \/ \E n \in {1} \cup BlockLengths : refused' = refused \cup {n}
    BY <2>6, <2>7, <2>9 DEF Pool!Next
  <2>10. CASE \E n \in refused :
               /\ pfa'.bitmap = pfa.bitmap \ NullBlock(n)
               /\ lost' = lost \cup (NullBlock(n) \cap Index)
               /\ refused' \in {refused, refused \ {n}} /\ UNCHANGED blocks
    BY <2>8, <2>10 DEF Pool!Next
  <2>11. CASE \E b \in blocks :
               /\ pfa'.bitmap = pfa.bitmap \ b
               /\ blocks' = blocks \ {b} \/ (b \subseteq lost /\ blocks' = blocks)
               /\ UNCHANGED <<refused, lost>>
    BY <2>4, <2>11 DEF Pool!Next
  <2>12. CASE \E first, last \in FreeBits :
               /\ first <= last /\ first .. last \subseteq FreeBits
               /\ pfa'.bitmap = pfa.bitmap \cup (first .. last)
               /\ blocks' = blocks \cup {first .. last}
               /\ UNCHANGED <<refused, lost>>
    <3>1. PICK first, last \in FreeBits : Pool!Allocate(first, last)
      BY <2>3, <2>12
    <3>2. first \in f \cup lost /\ last \in f \cup lost
      OBVIOUS
    <3> QED
      BY <3>1, <3>2 DEF Pool!Next
  <2>13. CASE /\ UNCHANGED <<blocks, refused, lost>>
              /\ pfa.bitmap \subseteq pfa'.bitmap /\ pfa'.bitmap \subseteq Index
    BY <2>2, <2>13 DEF Pool!Next
  <2> QED
    BY <2>9, <2>10, <2>11, <2>12, <2>13, StepKinds, Zenon
<1> QED
  BY <1>1, <1>2, Invariance, PTL DEF Spec, ImplementsFramePool, Pool!Spec

\* The number of pages counted as used moves with what clients hold, until a
\* client gives back what it was refused.
THEOREM CountersFollow == Spec => CountersFollowOwnership
<1>1. ASSUME IInv, [Next]_vars, phase = "running"
      PROVE  /\ pfa'.reserved = pfa.reserved
             /\ lost' = {} => pfa'.used - pfa.used = Cardinality(Held') - Cardinality(Held)
  <2> USE <1>1
  <2>0. pfa'.reserved = pfa.reserved
    BY StepKinds
  <2> SUFFICES ASSUME lost' = {}
               PROVE  pfa'.used - pfa.used = Cardinality(Held') - Cardinality(Held)
    BY <2>0
  <2>7. lost = {}
    BY StepKinds
  <2>1. /\ pfa.used \in Int
        /\ Held \in SUBSET Index /\ Held \subseteq pfa.bitmap
        /\ IsFiniteSet(Held) /\ Cardinality(Held) \in Nat
    BY <2>7, HeldEffect, BitmapFinite DEF IInv, TypeOK, Allocator
  <2>2. ASSUME NEW first \in FreeBits, NEW last \in FreeBits,
               first .. last \subseteq FreeBits,
               pfa'.used = pfa.used + Cardinality(first .. last),
               blocks' = blocks \cup {first .. last}
        PROVE  pfa'.used - pfa.used = Cardinality(Held') - Cardinality(Held)
    <3> DEFINE S == first .. last
    <3>1. S \in SUBSET Index /\ Held \cap S = {}
      BY <2>1, <2>2 DEF FreeBits
    <3>2. Held' = Held \cup S
      BY <2>2, HeldEffect
    <3>3. IsFiniteSet(S) /\ Cardinality(S) \in Nat
      BY <3>1, BitmapFinite
    <3>4. pfa'.used = pfa.used + Cardinality(S)
      BY <2>2
    <3> HIDE DEF S
    <3>5. Cardinality(Held \cup S) = Cardinality(Held) + Cardinality(S)
      <4>1. Cardinality(Held \cup S) = Cardinality(Held) + Cardinality(S) - Cardinality(Held \cap S)
        BY <2>1, <3>3, FS_Union
      <4>2. Cardinality(Held \cap S) = 0
        BY <3>1, FS_EmptySet
      <4> QED
        BY <2>1, <3>3, <4>1, <4>2
    <3> QED
      BY <2>1, <3>2, <3>3, <3>4, <3>5
  <2>3. ASSUME NEW b \in blocks, pfa'.used = pfa.used - Cardinality(b \cap pfa.bitmap),
               blocks' = blocks \ {b}
        PROVE  pfa'.used - pfa.used = Cardinality(Held') - Cardinality(Held)
    <3>1. Held' = Held \ b
      BY <2>3, <2>7, HeldEffect
    <3>2. b \in SUBSET Index /\ Held \cap b = b /\ b \cap pfa.bitmap = b
      BY <2>1 DEF IInv, TypeOK, Held
    <3>3. Cardinality(b) \in Nat
      BY <3>2, BitmapFinite
    <3>4. Cardinality(Held \ b) = Cardinality(Held) - Cardinality(b)
      <4>1. Cardinality(Held \ b) = Cardinality(Held) - Cardinality(Held \cap b)
        BY <2>1, FS_Difference
      <4> QED
        BY <3>2, <4>1
    <3>5. pfa'.used = pfa.used - Cardinality(b)
      BY <2>3, <3>2
    <3> QED
      BY <2>1, <3>1, <3>3, <3>4, <3>5
  <2>4. blocks' = blocks => Held' = Held
    BY HeldEffect
  <2>5. \A b \in blocks : ~ (b \subseteq lost)
    BY <2>7 DEF IInv, Locked
  <2>6. \A n \in refused : NullBlock(n) \cap Index = {} => NullBlock(n) \cap pfa.bitmap = {}
    BY DEF IInv, TypeOK, Allocator
  <2>8. ASSUME NEW n \in refused, lost' = lost \cup (NullBlock(n) \cap Index),
               pfa'.used = pfa.used - Cardinality(NullBlock(n) \cap pfa.bitmap),
               blocks' = blocks
        PROVE  pfa'.used - pfa.used = Cardinality(Held') - Cardinality(Held)
    <3>1. NullBlock(n) \cap pfa.bitmap = {}
      BY <2>6, <2>8
    <3> QED
      BY <2>1, <2>4, <2>8, <3>1, FS_EmptySet
  <2>9. CASE \E first, last \in FreeBits :
               /\ first .. last \subseteq FreeBits
               /\ pfa'.used = pfa.used + Cardinality(first .. last)
               /\ blocks' = blocks \cup {first .. last}
    BY <2>2, <2>9
  <2>10. CASE \E b \in blocks :
               /\ pfa'.used = pfa.used - Cardinality(b \cap pfa.bitmap)
               /\ blocks' = blocks \ {b} \/ (b \subseteq lost /\ blocks' = blocks)
    BY <2>3, <2>5, <2>10
  <2>11. CASE pfa'.used = pfa.used /\ blocks' = blocks
    BY <2>1, <2>4, <2>11
  <2>12. CASE \E n \in refused :
               /\ lost' = lost \cup (NullBlock(n) \cap Index)
               /\ pfa'.used = pfa.used - Cardinality(NullBlock(n) \cap pfa.bitmap)
               /\ blocks' = blocks
    BY <2>8, <2>12
  <2> QED
    BY <2>9, <2>10, <2>11, <2>12, StepKinds, Zenon
<1> QED
  BY <1>1, Invariance, PTL DEF Spec, CountersFollowOwnership

-----------------------------------------------------------------------------
(* Single pages.  A client that asks for one page at a time finds every free *)
(* page at or above the cursor, so none is refused while one is left.        *)

\* No free page is below the cursor.
NoneBehind == \A q \in Index : q < pfa.cursor => q \in pfa.bitmap

SInv ==
    /\ IInv
    /\ runsAsked \in BOOLEAN
    /\ phase = "start" => returned = NoCall
    /\ ~runsAsked => asked = 1 /\ NoneBehind
    /\ ~runsAsked /\ Null \notin lost /\ returned = Null => FreeBits = {}

\* A set of natural numbers that is not empty has a least element.
LEMMA Least ==
  ASSUME NEW S \in SUBSET Nat, S # {}
  PROVE  \E m \in S : \A k \in S : m <= k
<1>1. PICK s \in S : TRUE
  OBVIOUS
<1> DEFINE Below == {k \in S : k <= s}
           T == {0 .. k : k \in Below}
           R == StrictSubsetOrdering(0 .. s)
<1>2. s \in Nat /\ s \in Below /\ \A k \in Below : k \in Nat /\ k <= s
  BY <1>1
<1>3. FiniteSubsetsOf(0 .. s) = SUBSET (0 .. s)
  <2>1. IsFiniteSet(0 .. s)
    BY <1>2, FS_Interval
  <2> QED
    BY <2>1, FS_FiniteSubsetsOfFinite
<1>4. IsWellFoundedOn(R, SUBSET (0 .. s))
  BY <1>3, FS_StrictSubsetOrderingWellFounded
<1>5. T \subseteq SUBSET (0 .. s) /\ T # {}
  BY <1>2
<1>6. PICK x \in T : \A y \in T : ~ (<<y, x>> \in R)
  BY <1>4, <1>5, WFMin
<1>7. PICK m \in Below : x = 0 .. m
  BY <1>6
<1>8. \A k \in Below : m <= k
  <2> SUFFICES ASSUME NEW k \in Below, k < m PROVE FALSE
    BY <1>2
  <2>1. 0 .. k \in T /\ 0 .. k \subseteq 0 .. m /\ m \in 0 .. m /\ m \notin 0 .. k
    BY <1>2
  <2>2. <<0 .. k, 0 .. m>> \in R
    BY <1>5, <1>6, <1>7, <2>1 DEF StrictSubsetOrdering
  <2> QED
    BY <1>6, <1>7, <2>1, <2>2
<1> QED
  BY <1>1, <1>2, <1>8

\* The cursor and the bitmap a request, a refusal and a free leave.
LEMMA CursorEffect ==
  ASSUME NEW a \in Allocator, NEW S, NEW c \in 0 .. BitCount
  PROVE  /\ MoveCursor(a, c).cursor = c /\ MoveCursor(a, c).bitmap = a.bitmap
         /\ MoveCursor(Lock(a, S), c).cursor = c
         /\ MoveCursor(Lock(a, S), c).bitmap = a.bitmap \cup (S \cap Index)
         /\ MoveCursor(Release(a, S), c).cursor = c
         /\ MoveCursor(Release(a, S), c).bitmap = a.bitmap \ S
<1>1. ASSUME NEW r \in Allocator
      PROVE  MoveCursor(r, c).cursor = c /\ MoveCursor(r, c).bitmap = r.bitmap
  BY DEF MoveCursor, Allocator
<1>2. Lock(a, S) \in Allocator /\ Lock(a, S).bitmap = a.bitmap \cup (S \cap Index)
  BY LockLoop
<1>3. Release(a, S) \in Allocator /\ Release(a, S).bitmap = a.bitmap \ S
  BY ReleaseLoop
<1> QED
  BY <1>1, <1>2, <1>3

\* The first requests look at the bitmap from its beginning.
LEMMA FreshCursor ==
  ASSUME NEW base \in Nat
  PROVE  MappedAllocator(base).cursor = 0
<1> DEFINE a0 == Fresh(base)
           a1 == Reserve(a0, 0 .. MemoryPages)
           a2 == Unreserve(a1, Conventional)
           a3 == Reserve(a2, 0 .. LowPages - 1)
<1>1. a0 \in Allocator /\ a0.cursor = 0
  BY FreshAllocator DEF Fresh
<1>2. a1 \in Allocator /\ a1.cursor = 0
  <2> HIDE DEF a0
  <2> QED  BY <1>1, ReserveLoop
<1>3. a2 \in Allocator /\ a2.cursor = 0
  <2> HIDE DEF a1
  <2> QED  BY <1>2, UnreserveLoop
<1>4. a3 \in Allocator /\ a3.cursor = 0
  <2> HIDE DEF a2
  <2> QED  BY <1>3, ReserveLoop
<1>5. Lock(a3, BufferPages(base)).cursor = 0
  <2> HIDE DEF a3
  <2> QED  BY <1>4, LockLoop
<1> QED
  BY <1>5 DEF MappedAllocator

\* Page 0 is low memory: no client is given the page whose address is NULL.
LEMMA NullProtected == Null \in Index /\ Null \in 0 .. LowPages - 1
  BY EndOfBitmap, ParametersAssumption

\* A request for one page, by either call, takes the first clear bit.
LEMMA PageTaken ==
  ASSUME SInv, IInv', ~runsAsked, NEW p \in Index, FirstFree(p),
         pfa' = MoveCursor(Lock(pfa, {p}), p), blocks' = blocks \cup {{p}}, returned' = p
  PROVE  NoneBehind' /\ (Null \notin lost' => returned' # Null)
<1>1. pfa \in Allocator /\ p \in 0 .. BitCount /\ pfa.cursor \in Nat
  BY BitCountType DEF SInv, IInv, TypeOK, Allocator, Index
<1>2. pfa'.cursor = p /\ pfa'.bitmap = pfa.bitmap \cup {p}
  BY <1>1, CursorEffect
<1>3. NoneBehind'
  <2> SUFFICES ASSUME NEW q \in Index, q < p PROVE q \in pfa.bitmap
    BY <1>2 DEF NoneBehind
  <2>1. q \in Nat /\ p \in Nat
    BY IndexFinite
  <2> QED
    BY <1>1, <2>1 DEF SInv, NoneBehind, FirstFree
<1>4. Null \notin lost' => Null \notin Held'
  <2>1. Null \in Protected'
    BY NullProtected DEF Protected
  <2> QED
    BY <2>1 DEF IInv, ProtectedNeverHandedOut
<1> QED
  BY <1>3, <1>4 DEF Held

\* A request for one page is refused only when every bit is set.
LEMMA PageRefused ==
  ASSUME SInv, ~runsAsked, \A p \in Index : ~FirstFree(p),
         pfa' = MoveCursor(pfa, BitCount)
  PROVE  NoneBehind' /\ FreeBits' = {}
<1>1. pfa \in Allocator /\ BitCount \in 0 .. BitCount /\ pfa.cursor \in Nat
  BY EndOfBitmap, BitCountType DEF SInv, IInv, TypeOK, Allocator
<1>2. pfa'.bitmap = pfa.bitmap
  BY <1>1, CursorEffect
<1>3. FreeBits = {}
  <2> SUFFICES ASSUME FreeBits # {} PROVE FALSE
    OBVIOUS
  <2>1. FreeBits \in SUBSET Nat
    BY IndexFinite DEF FreeBits
  <2>2. PICK m \in FreeBits : \A k \in FreeBits : m <= k
    BY <2>1, Least
  <2>3. m >= pfa.cursor
    BY <1>1, <2>1, <2>2 DEF SInv, NoneBehind, FreeBits
  <2>4. \A q \in pfa.cursor .. m - 1 : q \in pfa.bitmap
    BY <1>1, <2>1, <2>2, BitCountType DEF FreeBits, Index
  <2> QED
    BY <2>2, <2>3, <2>4 DEF FirstFree, FreeBits
<1> QED
  BY <1>2, <1>3 DEF NoneBehind, FreeBits

\* free_page lowers the cursor to the lowest page it returns.
LEMMA PageReturned ==
  ASSUME SInv, ~runsAsked, NEW b, Free(b)
  PROVE  NoneBehind'
<1>1. PICK c \in 0 .. BitCount :
        CursorAfter(c, b \cap pfa.bitmap) /\ pfa' = MoveCursor(Release(pfa, b), c)
  BY DEF Free
<1>2. /\ pfa \in Allocator /\ pfa.cursor \in Nat /\ c \in Nat
      /\ b \cap pfa.bitmap \subseteq Nat
  <2>1. pfa \in Allocator
    BY DEF SInv, IInv, TypeOK
  <2>2. pfa.bitmap \subseteq Index /\ pfa.cursor \in 0 .. BitCount
    BY <2>1, AllocatorFields
  <2>3. b \cap pfa.bitmap \subseteq Nat
    BY <2>2, IndexFinite
  <2>4. pfa.cursor \in Nat /\ c \in Nat
    BY <2>2, BitCountType
  <2> QED
    BY <2>1, <2>3, <2>4
<1>3. pfa'.cursor = c /\ pfa'.bitmap = pfa.bitmap \ b
  BY <1>1, <1>2, CursorEffect
<1> SUFFICES ASSUME NEW q \in Index, q < c PROVE q \in pfa.bitmap /\ q \notin b
  BY <1>3 DEF NoneBehind
<1>4. q \in Nat
  BY IndexFinite
<1>5. c <= pfa.cursor /\ (q \in b \cap pfa.bitmap => ~(q < c))
  BY <1>1, <1>2, <1>4 DEF CursorAfter
<1> QED
  BY <1>2, <1>4, <1>5 DEF SInv, NoneBehind

\* The first request looks at the bitmap from its beginning.
LEMMA MapRead ==
  ASSUME SInv, ReadEfiMemoryMap
  PROVE  NoneBehind' /\ returned' # Null
<1>1. PICK base \in BufferBases : pfa' = MappedAllocator(base)
  BY DEF ReadEfiMemoryMap
<1>2. base \in Nat
  BY DescriptorsAssumption DEF BufferBases, LargestSegments
<1>3. pfa'.cursor = 0
  BY <1>1, <1>2, FreshCursor
<1>4. NoneBehind'
  BY <1>3, IndexFinite DEF NoneBehind
<1> QED
  BY <1>4 DEF SInv, ReadEfiMemoryMap, history

\* Locking the kernel and the framebuffer sets bits and moves no cursor.
LEMMA RangeLocked ==
  ASSUME SInv, ~runsAsked, LockKernel \/ LockFramebuffer
  PROVE  NoneBehind' /\ (Null \notin lost' /\ returned' = Null => FreeBits' = {})
<1>1. PICK S : pfa' = Lock(pfa, S)
  BY DEF LockKernel, LockFramebuffer
<1>2. pfa \in Allocator
  BY DEF SInv, IInv, TypeOK
<1>3. pfa'.cursor = pfa.cursor /\ pfa'.bitmap = pfa.bitmap \cup (S \cap Index)
  BY <1>1, <1>2, LockLoop
<1>4. NoneBehind' /\ FreeBits' \subseteq FreeBits
  BY <1>3 DEF SInv, NoneBehind, FreeBits
<1>5. returned' = returned /\ lost' = lost
  BY DEF LockKernel, LockFramebuffer, history
<1> QED
  BY <1>4, <1>5 DEF SInv

\* Every step of the allocator, and of the client that counts its runs, keeps
\* the invariant.
LEMMA SInvNext == SInv /\ [MCNext]_<<vars, runsAsked>> => SInv'
<1> SUFFICES ASSUME SInv, [MCNext]_<<vars, runsAsked>> PROVE SInv'
  OBVIOUS
<1>1. CASE UNCHANGED <<vars, runsAsked>>
  BY <1>1, IInvNext DEF SInv, IInv, TypeOK, Accounting, NoDoubleAllocation,
       ProtectedNeverHandedOut, Protected, Locked, Held, vars, history, NoneBehind, FreeBits
<1>2. CASE MCNext
  <2>1. Next /\ runsAsked' = (runsAsked \/ asked' > 1)
    BY <1>2 DEF MCNext
  <2>2. IInv'
    BY <2>1, IInvNext DEF SInv
  <2>3. runsAsked' \in BOOLEAN
    BY <2>1
  <2>4. (phase = "start" => returned = NoCall)'
    BY <2>1 DEF Next, ReadEfiMemoryMap, LockKernel, LockFramebuffer, RequestPage,
         RequestPageFails, RequestPages, RequestPagesFails, FreePages, FreeRefused
  <2>5. ASSUME ~runsAsked'
        PROVE  /\ asked' = 1 /\ NoneBehind'
               /\ Null \notin lost' /\ returned' = Null => FreeBits' = {}
    <3>1. ~runsAsked /\ asked' = 1
      <4>1. asked' \in Nat \ {0}
        BY <2>2, ParametersAssumption DEF IInv, TypeOK
      <4>2. ~runsAsked /\ ~(asked' > 1)
        BY <2>1, <2>5
      <4> QED
        BY <4>1, <4>2
    <3>2. asked = 1 /\ NoneBehind /\ (Null \notin lost /\ returned = Null => FreeBits = {})
      BY <3>1 DEF SInv
    <3>3. CASE ReadEfiMemoryMap
      BY <3>1, <3>3, MapRead
    <3>4. CASE LockKernel \/ LockFramebuffer
      BY <3>1, <3>4, RangeLocked
    <3>5. CASE RequestPage
      <4>1. PICK p \in Index :
              /\ FirstFree(p)
              /\ returned' = p
              /\ pfa' = MoveCursor(Lock(pfa, {p}), p)
              /\ blocks' = blocks \cup {{p}}
        BY <3>5 DEF RequestPage
      <4> QED
        BY <2>2, <3>1, <4>1, PageTaken
    <3>6. CASE RequestPageFails
      BY <3>1, <3>6, PageRefused DEF RequestPageFails
    <3>7. ASSUME NEW n \in BlockLengths, RequestPages(n) \/ RequestPagesFails(n)
          PROVE  NoneBehind' /\ (Null \notin lost' /\ returned' = Null => FreeBits' = {})
      <4>1. n = 1
        BY <3>1, <3>7 DEF RequestPages, RequestPagesFails
      <4>2. \A p \in Index : RunFrom(p, 1) <=> p >= pfa.cursor /\ p \in FreeBits
        BY IndexFinite DEF RunFrom
      <4>3. CASE RequestPages(1)
        <5>1. PICK p \in Index :
                /\ RunFrom(p, 1)
                /\ returned' = p
                /\ \A r \in pfa.cursor .. p - 1 : ~RunFrom(r, 1)
                /\ pfa' = MoveCursor(Lock(pfa, p .. p + 1 - 1), p + 1 - 1)
                /\ blocks' = blocks \cup {p .. p + 1 - 1}
          BY <4>3 DEF RequestPages
        <5>2. p \in Nat /\ pfa.cursor \in Nat
          BY IndexFinite, BitCountType DEF SInv, IInv, TypeOK, Allocator
        <5> DEFINE last == p + 1 - 1
                   S == p .. p + 1 - 1
        <5>3. last = p /\ S = {p}
          BY <5>2
        <5>4. FirstFree(p)
          BY <4>2, <5>1, <5>2, BitCountType DEF FirstFree, FreeBits, Index
        <5>5. /\ pfa' = MoveCursor(Lock(pfa, {p}), p)
              /\ blocks' = blocks \cup {{p}}
          <6>1. pfa' = MoveCursor(Lock(pfa, S), last) /\ blocks' = blocks \cup {S}
            BY <5>1
          <6> HIDE DEF last, S
          <6> QED
            BY <5>3, <6>1
        <5>6. NoneBehind' /\ (Null \notin lost' => returned' # Null)
          BY <2>2, <3>1, <5>1, <5>4, <5>5, PageTaken
        <5> QED
          BY <5>6
      <4>4. CASE RequestPagesFails(1)
        <5>1. /\ \A p \in Index : ~RunFrom(p, 1)
              /\ pfa' = MoveCursor(pfa, BitCount)
          BY <4>4 DEF RequestPagesFails
        <5>2. \A p \in Index : ~FirstFree(p)
          BY <4>2, <5>1 DEF FirstFree
        <5> QED
          BY <3>1, <5>1, <5>2, PageRefused
      <4> QED
        BY <3>7, <4>1, <4>3, <4>4
    <3>8. ASSUME NEW b \in blocks, FreePages(b)
          PROVE  NoneBehind' /\ (Null \notin lost' /\ returned' = Null => FreeBits' = {})
      BY <3>1, <3>8, PageReturned DEF FreePages
    <3>9. ASSUME NEW n \in refused, FreeRefused(n)
          PROVE  NoneBehind' /\ (Null \notin lost' /\ returned' = Null => FreeBits' = {})
      BY <3>1, <3>9, PageReturned DEF FreeRefused
    <3> QED
      BY <2>1, <3>1, <3>3, <3>4, <3>5, <3>6, <3>7, <3>8, <3>9 DEF Next
  <2> QED
    BY <2>2, <2>3, <2>4, <2>5 DEF SInv
<1> QED
  BY <1>1, <1>2

\* A client that asks for one page at a time is refused only when no page is
\* free, whatever it frees in between, until NULL is given back.
THEOREM SinglePagesHold == MCSpec => []SinglePagesNotLost
<1>1. MCInit => SInv
  <2> SUFFICES ASSUME MCInit PROVE SInv
    OBVIOUS
  <2>1. Init /\ runsAsked = FALSE
    BY DEF MCInit
  <2>2. IInv
    BY <2>1, IInvInit
  <2>3. NoneBehind
    BY <2>1, IndexFinite DEF Init, NoneBehind
  <2>4. phase = "start" /\ returned = NoCall /\ asked = 1 /\ NoCall # Null
    BY <2>1 DEF Init
  <2> QED
    BY <2>1, <2>2, <2>3, <2>4 DEF SInv
<1>2. SInv => SinglePagesNotLost
  <2> SUFFICES ASSUME SInv, ~runsAsked, Null \notin lost, returned = Null, NEW s \in Index
               PROVE  ~(s .. s + asked - 1 \subseteq FreeBits)
    BY DEF SinglePagesNotLost, NullMeansExhausted
  <2>1. asked = 1 /\ FreeBits = {} /\ s \in Nat
    BY IndexFinite DEF SInv
  <2> QED
    BY <2>1
<1> QED
  BY <1>1, <1>2, SInvNext, PTL DEF MCSpec
=============================================================================
