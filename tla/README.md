# RyanOS in TLA+

A verification project for the RyanOS kernel (`src/kernel/src`): TLA+ modules
for the parts of it that carry state, TLC runs over small instances, and
machine-checked proofs about eight of its components. All paths below are relative
to `src/kernel/src` unless they start with `src/`.

RyanOS is a single-processor, single-address-space x86-64 kernel started by a
UEFI boot loader. There are no threads. What runs concurrently is one **main
flow** (boot, then `Shell::start_loop`, a frame loop that never blocks), the
**interrupt handlers** (timer, keyboard, mouse), which may come between any two
instructions of it and run with interrupts off, and the **devices** (mouse, disk).
The main flow never disables interrupts and there are no locks, so every
structure that both flows touch is shared without protection. The keyboard
handler is the important one: Enter runs a whole shell command inside it.

## 1. Inventory

| Part | State | Operations | Talks to | Hard part | What makes it correct |
|---|---|---|---|---|---|
| Page allocator (`memory/page_frame_allocator.cpp`, `bitmap.cpp`) | bitmap, three counters, search index | read_efi_memory_map, request/free/lock/reserve page(s) | heap, page tables, boot, AHCI, FAT32 | ranges that overlap; an index shared by two kinds of search; bits past the end of memory | no page handed out twice or from protected memory; counters agree with bits; NULL only when exhausted |
| Heap (`memory/mem.cpp`) | list of headers in memory, heap_end, used total | init_heap, malloc, free, expand_heap | page allocator, page tables; every client; called from both flows | splitting and merging, growth, failure half way, preemption | allocations disjoint, list exact, neighbours merged, growth linked |
| Page tables (`memory/page_table_manager.cpp`, `paging.cpp`, `page_map_indexer.cpp`) | tables in frames | map_memory | page allocator inside the walk | tables made on demand out of dirty frames; no frame left | a tree; no frame with two uses; one call changes one translation |
| Boot (`kernel/kernel.cpp`) | the pointers the handlers follow | prepare_memory, prepare_interrupts, prepare_acpi, _start | everything | interrupts are on before the shell exists | locks what must be locked; no handler meets a pointer that is not set; comes to an end |
| Interrupts (`kernel/interrupts`) | IDT, PIC masks, tick count | three handlers, fault handlers, remap_pic | mouse, keyboard, PIT | run between any two instructions of the main flow | see the parts they call |
| Mouse (`shell/input/mouse.cpp`) | packet, cycle, ready flag; pointer | handle_mouse (interrupt), process_mouse_packet (main) | device, shell loop | bytes arriving inside process_mouse_packet; bytes dropped | driver and device agree on where packets begin; pointer follows the device and stays on the screen |
| Keyboard and command line (`shell/input/keyboard.cpp`, `shell/commands`) | current_line and its index, shift flags | handle_keyboard, parse_command, the commands | text output, windows, heap | bounds; agreement of line and screen | the command gets what the screen shows; nothing outside the buffers |
| Text output (`shell/out.cpp`) | cursor, start of the user's input, canvas | print, cprint, backspace, clear, enter | graphics | wrapping both ways, bottom of the canvas | as above |
| Shell loop (`shell/shell.cpp`) | mouse, canvases, frame times | start_loop, update_cursor, make_window | all of the above | order within a frame | every frame ends |
| Windows (`shell/window_mgr`) | doubly linked list, counts, focus index | create (interrupt), handle, move_to_top, delete (main) | heap, mouse, canvas | the list is changed inside the walk over it, and by the interrupt | no window lost or drawn after it was freed; click reaches the topmost; indexes are places |
| Graphics (`graphics`) | pixel buffers | draw_pixel, draw_rect, draw_char, swap | canvas | clipping | nothing outside the buffer |
| PCI, ACPI (`kernel/pci.cpp`, `acpi.cpp`) | list of drivers | enumerate | page tables, AHCI | limits of the scan | every device found once |
| AHCI (`fs/ahci.cpp`) | port registers, command tables | configure, read, write, probe_ports | device (DMA) | completion, error and silence of the device | a call that answers true has transferred; calls return; the drive handed on is one that was configured |
| FAT32 (`fs/fat32.cpp`, `vfs.cpp`) | boot sector, table on disk | read/write_fat_entry, find_free_cluster, tree | AHCI, page allocator | a read that fails half way through a read-modify-write | other entries survive a write; pages come back; a search finds what is free |
| Boot loader (`src/gnu-efi/bootloader/main.c`) | memory map and its key | load the kernel, ExitBootServices | firmware | the key goes stale | the map handed to the kernel is the last one |
| GDT, string and maths helpers | constants | - | - | - | - |

`PROJECT.json` lists the same parts with their status, and the hazards, each at
the line where it bites, with the properties that cover it.

## 2. Modules

| Module | What it is |
|---|---|
| `FramePool` | abstract: what a page allocator promises its clients |
| `PageFrameAllocator`, `MCPageFrameAllocator` | the page allocator, and a machine of 13 pages for it |
| `Heap` | malloc, free and expand_heap, one operation at a time |
| `HeapPreemption` | composes `Heap`'s list operations into a main flow that frees and an interrupt that allocates |
| `AddressSpace` | abstract: what map_memory promises |
| `PageTables`, `MCPageTables` | map_memory over the page allocator |
| `MouseInput`, `MCMouseInput` | handle_mouse against process_mouse_packet |
| `WindowList` | the window list in the main loop and the interrupt |
| `Numbers` | to_string and strtoi, through which window ids go to the screen and back |
| `WindowDrag`, `Blocks`, `MCWindowDrag` | one window between frames: focus, dragging, painting; memcopy and memset, which paint it |
| `CommandLine` | the line buffer, its echo and the commands |
| `Disk` | abstract: what read and write of a disk port promise |
| `DiskPort` | the AHCI port and its driver, side by side |
| `FatTable`, `MCFatTable` | the FAT32 object over `Disk` and `FramePool` |
| `DeviceScan`, `MCDeviceScan` | the walk over ACPI tables, PCI functions and AHCI ports |
| `BootLoader` | efi_main over the firmware |
| `Boot`, `MCBoot` | composes `BootLoader` with _start, the interrupt lines, the mouse and its controller |

How they meet: `DiskPort` shows that a port is a `Disk`; `FatTable` is built on `Disk` and
assumes no more of it. `PageFrameAllocator` shows that the allocator is a `FramePool`;
`FatTable` takes its buffers from one. `DeviceScan` says which port the FAT32 object is given.
`Boot` says in which order all of this comes to life.

### PageFrameAllocator

`pfa` is the object `global_allocator`: `bitmap` is the set of page numbers
whose bit is 1, `cursor` is `page_bitmap_index`, the counters count pages. The
functions `Reserve`, `Unreserve`, `Lock`, `Release` are the loops of the same
names (a loop visits each page of its range once, so its effect is that of a
set), tests for bits already set included. `phase` follows `prepare_memory`:
`ReadEfiMemoryMap`, `LockKernel`, `LockFramebuffer`; requests may come from
`"kernel"` on, as map_memory's do. `FreePages` is free_page and free_pages by a
client that gives back what it holds, `FreeRefused` by one that gives back the NULL of a refused
request, as read_fat_entry and write_fat_entry do (`fat32.cpp:255`, `:290`): `Free` then clears the bits of the
lowest pages, which are protected, and they are handed out. `lost` holds the pages given back that
way, and what is claimed of pages is claimed of the others; `refused` the lengths of requests whose NULL a client may yet give back.
`blocks`, `asked` and `returned` are ghosts as well. `FramePool` has no bitmap or index:
frames are free, held or withdrawn, or lost in this way; `ImplementsFramePool` says that the
allocator is one, with clear bits for free frames. What read_fat_entry writes into the pages at NULL
before it frees them (memset, a read of the disk) is not modelled.

### Heap and HeapPreemption

`node` maps the offset of each header in the list to its fields. `BestFit`,
`Split`, `MergeNext`, `MergePrev` are the functions of `mem.cpp`; `MallocCall` and
`MallocReturn` are one malloc, with `ExpandHeap` in between when nothing fits
(malloc calls itself). `expand_heap` takes the 24 bytes before the old end of the
heap for the last header; `Outcomes` lists what it may find there: a header
only when the last block holds 0 or 8 bytes, otherwise payload, that is zero, a
stale pointer, or anything (`wild`, after which nothing is claimed). `live`
records how many bytes were promised at each pointer, so that a pointer handed
out twice shows.

`HeapPreemption` splits a malloc of the main flow where its block has been found (`MainFind`,
`MainSplit`) and free into its list operations, and lets a whole malloc of the keyboard interrupt
come between any two of these. `MainSplitTaken` is the split of a block the handler took meanwhile; the
model ends there. The heap does not grow in it. `NoneInMallocs`, `NoneInMerges` and `NoneInEither` are its
behaviours in which the handler keeps out of some calls.

### PageTables

`memory` holds the tables, `table` and `level` where the walk of map_memory is.
A frame that was never cleared holds nothing or a stale entry. `Descend` is one of
the three equal paragraphs of the function, `Enter` the last. Callers are
`MapRequested` (heap pages, requested just before), `MapRefused` (init_heap does not look at what
request_page answers: a heap page is then backed by page 0) and `MapDevice` (pages mapped
without being requested: the identity map from page 0 on, the PML4's own page included, framebuffer,
PCI and AHCI registers).
After the first table that got no frame (`failed`) the model ends: walks then go
through page 0 to anywhere. `ImplementsAddressSpace` maps the tables to the
translation the processor makes of them.

### MouseInput

`handle_mouse` (the device sends a byte, the handler takes it) is one step, since
it runs with interrupts off. `process_mouse_packet` is split at the statements that
share data with it: test and clear of the flag, signs, buttons, one step for each
motion (which negates the byte in place in the shared buffer), clamping, and the
second clearing of the flag. The reads inside one of those steps are merged: a byte
that arrives between them would be seen as arriving just before or after. Ghosts:
the device's own position, whether a byte was dropped, whether one arrived inside
process_mouse_packet. Devices report motion from -255 to 255.

### WindowList

Nodes are numbered by creation and never freed, as in the code. `create_window`
is one step; `handle` is a walk whose steps are those of the list operations:
`VisitHovered`, then `MoveFind`, `MoveWalk`, `MoveRelink`, `MoveReindex` for
move_to_top and `ExitClicked`, `DeleteUnlink`, `DeleteDrop` for delete_window. Where
windows lie on the screen is chosen anew each frame as two sets, those under the
pointer and those whose close button is. `create_window` may come between any two
steps, and a window made inside a frame may join both sets (`Appears`), so that the walk, which
comes to it last, may raise or close it in that frame; `preempted` records that it came inside a frame, after which windows may be
lost and only `DrawsOpenWindows` and `FrameEnds` are still claimed.

### CommandLine

A key is one step. `current_line` is modelled with the bytes of the member behind it
(the pointer to the mouse), where the code's bound lets keys go. `Advanced` and `Back` are the wrapping of cprint and of
backspace; `ClearedWhole` and `DrawnInPart` are the clipping of draw_rect and
draw_char; a cell holds the glyphs drawn there since it was cleared. Commands are told
by a first word of one letter. Rows above the prompt are forgotten at Enter: the cursor
does not return to them before the screen is cleared. The first prompt may have
text behind it, which the FAT32 constructor printed.

`get_from_id` (`FromId`) is looked at by the command windowcolor, which is given the id as
text (`Numbers`). `Id` counts from `IdBase`, the windows made and closed before, so that ids of two and
three digits meet in the run; `Written` is to_string with the buffer all callers share. Its argument
`size` is what the local of that name starts from: nothing sets it, and the kernel is built without
optimisation, so it is a byte of the stack.

### WindowDrag and Blocks

A frame of `start_loop` is one step: `CloseFrame`, `DragFrame` or `StillFrame`, by what
`handle` does with the one window. The tests use `last_pos`, where the pointer was the frame
before, the motion is this frame's. `make_window` may come between frames (a command). What
lies behind the step, the list, is `WindowList`; where the pointer goes, `MouseInput`. `Paint`
is the set of rectangles a frame writes to the back buffer, with the tests of draw_rect and
draw_pixel; `pps`, the pixels from one row to the next, is firmware's choice and may be more than the screen
is wide; `Blocks` says what the copies and fills below them do to memory byte by byte.

### Disk and DiskPort

`DiskPort` has one action for each access of the driver to a register it shares with the port:
`StopCommand`, the two polls of stop_cmd, `SetBases`, `StartCommand`; `Spin`, `ClearStatus`,
`BuildCommand`, `IssueCommand`, `TestDone`, `TestError`. read and write differ in one bit of
the command, which is a field of the call. The port (external) has its engine bits follow,
spins up, fetches, transfers sector by sector, completes, fails, or falls silent. A failed
command leaves `halted`: AHCI 1.3.1 has the port wait until the start bit is cleared, which
the driver does only in configure. `ImplementsDisk` maps the port to `Disk` by dropping
registers and engine: a sector moves when the port moves it, and a call returns when the
driver does.

### FatTable

The disk is `Disk` (an action of it may come between any two steps, calls may fail after
moving anything), the pages are `FramePool` (a request may be refused). The constructor is
`TakePage` for each request_page, `ReadBootSector`, `CheckBootSector`, `LookUp`, `Leave`.
read_fat_entry, write_fat_entry and find_free_cluster share `RequestBuffer`, `ReadTable`,
`UseTable`, `Written`, `FreeBuffer`. NULL is the address it is: the block of a refused request
is the lowest pages, and giving it back makes them free. `refused` and `trouble` are ghosts
by which the properties say what they claim after a failure, namely nothing of pages, and
nothing of the operation that met it.

### DeviceScan

Each loop is an action that takes one turn. What firmware and hardware show is `machine`, chosen
at the start. The members of a new AHCIDriver hold what malloc's memory held: `port_count` is
any of `Counts`, the array garbage. Where the code follows a pointer nothing set, or a table at
address 0, or registers more drivers than ahci_drivers has places, the model stops (`wild`).

### BootLoader and Boot

The loader is a sequence; each firmware call that allocates moves `version`, the version of the
memory map, and the Print between GetMemoryMap and ExitBootServices may. `failed` records that
something was not found or not granted, which the code prints and ignores. `FoundRsdp` is the
loop over the configuration tables as it stands: it advances the pointer and the index both.

`Boot` has the main flow in `pc`, and beside it the keyboard, the mouse, their controller with
its one byte, the two PICs and the disk. Firmware may leave the mouse reporting and its line
raised; init_mouse neither stops it first nor drains the controller, so a byte of motion
(`MoveMouse`) or of a key may come into the handshake. The handshake is modelled wait by wait, each
with `Patience` turns. A byte of the handshake, of the keyboard or of the mouse is taken by
whoever comes first: the polling main flow, or a handler when the line is open. `wild` says
where the machine followed a pointer that was not set, prepare_acpi's behind an RSDP
without xsdt_address (`kernel.cpp:104`) included. `prepare_acpi` and `MountDisk` are one step each,
which a disk that has fallen silent (`DiskFallsSilent`) never lets end: the waits of `ahci.cpp:58`, `:66` and
`:119` have no bound. Lines that remap_pic leaves open,
because it restores a mask it never read, are the ghost `early`.

### The proof modules

`PageFrameAllocatorProofs`, `HeapProofs`, `PageTablesProofs`, `DiskProofs`, `FatTableProofs`,
`InputProofs`, `WindowProofs` and `BootProofs` extend the modules they are named
after (the first by way of `MCPageFrameAllocator`, where the client that asks for single pages
is; `HeapProofs` extends `HeapPreemption`, `DiskProofs` `DiskPort` and `DeviceScan`, the two halves
of the driver, `InputProofs` `MouseInput` and `CommandLine`, the two input handlers of the shell, and
`WindowProofs` `MCWindowDrag` and `WindowList`, the two halves of the window
manager; their names are kept apart for that). Section 4 says what they prove.

## 3. Runs

Each passing run's properties are listed with the question they answer. For
each there is a mutant in `PROJECT.json`, a plausible mistake in the code that
makes TLC find the property violated. Every module has a type invariant `TypeOK` (`ScanTypeOK` in `DeviceScan`, `ListTypeOK` in `WindowList`, `LineTypeOK` in `CommandLine`); outside
`page_frames`, which checks it by itself since it is proved, it is the first conjunct of one of
the run's invariants (`ListWellFormed` in `heap`, `ListKeepsWindows` in `windows` and so on).

| Run | Shows | Instance, and why it is enough |
|---|---|---|
| `page_frames` | `Accounting`: bits and counters agree whatever ranges overlap. `NoDoubleAllocation`, `ProtectedNeverHandedOut`, `CountersFollowOwnership`, `ImplementsFramePool`. `SinglePagesNotLost`: until a run is asked for, the index hides no free page | 13 described pages, a hole, a firmware page in the middle, a kernel image that overlaps it, a framebuffer partly outside the bitmap; runs of 1 and 2 pages; NULL given back as one page and as two. All of it also proved for every instance |
| `heap` | `ListWellFormed`, `AllocationsDisjoint`, `NoAdjacentFree`, also when the heap grows, under every outcome of expand_heap's walk. `ExpansionServes`: an expansion that was linked serves the malloc that made it | 256 bytes (up to four blocks, exact fits and remainders of size 0) and two more pages of 64: expansions that succeed and that fail half way; `MaxUsedTotal` bounds the number of calls |
| `page_tables` | `TablesFormTree`, `FramesHaveOneUse`, `ImplementsAddressSpace` | two slots, four virtual pages that part at the last, third and first level, 7 frames: runs into exhaustion at every level; page 0, the PML4 and a frame are mapped without being requested |
| `mouse` | `AlignedUnlessDropped`, `DrawnOnScreen`, `PointerFollowsDevice`, `PacketTaken` | a screen of 3 by 2, three packets with each button, sign and motions off the screen; unbounded otherwise |
| `windows` | `ListKeepsWindows`, `IndexIsPlace`, `ClickReachesTopmost`, and `DrawsOpenWindows`, `FrameEnds` with create_window between any two steps | three windows (first, middle, last of the list), every set of windows clicked, also one just made |
| `window_drag` | `HeldWindowFollows`, `PaintStaysOnScreen`; `BlocksExact` (memcopy and memset) for the offsets the window is dragged to | the window of make_window on a screen of 620 by 600; pointer positions on the bar, the button, beside and below the window and at the edges; scan lines as wide as the screen and wider; lengths with every remainder for the three loops of memcopy |
| `command_line` | `ScreenShowsLine`: what stands behind the prompt is what the command gets | four columns, lines of 4 characters (a row end behind the prompt, and one more key than the line has room for), rows 3 and below off the canvas |
| `disk_port` | `ImplementsDisk`: true is answered only for calls that moved every sector, and after a return nothing moves. `BasesSetWhenStopped`. `CallEnds` | a disk of two sectors of two values, calls of one and two sectors, a spin of two turns (at the limit and below it), every initial state of the engine |
| `fat_table` | `PagesReturned`, `SearchFindsFree`; `WriteChangesOwnEntry`: the entry is stored and its neighbours survive | three table sectors of two entries, four clusters, a free entry with a reserved bit set, volumes with the first, the last and no cluster free; one write, any number of other calls, 11 pages |
| `device_scan` | `EveryControllerOnce`; `DriveIsConfigured`: the drive handed on was configured | two devices of two functions, three ports, up to two ranges of buses, one of them empty; controllers behind absent functions and absent buses; up to four at once, and room for two drivers; disk, optical drive, sleeping drive, nothing |
| `boot` | `KeysMeetShell`, `HandshakeStaysOut`, `KernelGetsMapAndRsdp`, `LoopReached` | two keys at any time, a mouse that reports from the start or not, two turns of each wait, every sequence of up to three configuration tables |

One more run is expected to fail. It checks a statement the code makes about itself and
exhibits a behaviour that contradicts it; `PROJECT.json` has the quotation.

| Run | Behaviour |
|---|---|
| `heap_preemption` | malloc in the interrupt between the two merges of a free: memory in use is handed out again |

The modules state four more such sentences of the repository that the code does not keep. They
are in no listed run; the change to a configuration in the last column has TLC show each violated.

| Statement | What the code does | To see it |
|---|---|---|
| `MallocReturnsNewMemory`, "return ptr to new memory" (`mem.cpp:168`) | malloc in the interrupt between the search for a block (`mem.cpp:142`) and its marking, in a malloc of the main flow: both are given the block | `SPECIFICATION NoneInMerges` in `HeapPreemption.cfg` |
| `LowMemoryReserved`, "reserves 0 - 0x100000 for bios/uefi stuff" (`page_frame_allocator.cpp:46`) | the NULL of a refused request is freed as a block (`fat32.cpp:255`, `:290`), and a later request is answered with low memory | `INVARIANT LowMemoryReserved` in `PageFrameAllocator.cfg` |
| `DriveIsDisk`, "this is the disk drive" (`ahci.cpp:198`) | the constructor overwrites the disk that probe_ports chose with port 0 of its array, an optical drive | `INVARIANT DriveIsDisk` in `DeviceScan.cfg` |
| `PrintedIdReachesWindow`, "unique id for every window" (`window.hpp:22`) | to_string counts digits from a byte nothing set (`cstr.cpp:6`); the id it prints for a window is not the window's | `INVARIANT PrintedIdReachesWindow` in `WindowList.cfg` |

Other deviations that were met while modelling. Each is plain
from the lines named, and the models either go along with it or end there, as said.

Memory:
- `page_frame_allocator.cpp:86`: request_pages moves the shared index past free pages whose
  runs are too short; request_page then answers NULL with pages free (`RequestPages`,
  `RequestPagesFails`; `SinglePagesNotLost` is claimed until then).
- `page_frame_allocator.cpp:38`: the last bits of the bitmap, past the pages firmware
  described, are never reserved and are handed out (`Fresh` and `MappedAllocator` do so).
- `mem.cpp:287`: expand_heap looks for the last header 24 bytes before the end of the heap
  and, unless the last block is empty or holds 8 bytes, does not link the new node (`Outcomes`).
- `mem.cpp:198`: free takes less off used_memory_total than malloc added, which the toolbar shows
  (`FreedSize`).
- `mem.cpp:104`: merging with the last block writes through NULL, into page 0, which is
  mapped. Left out.
- `mem.cpp:273`: an expansion that fails half way keeps the frames it took
  (`ExpandHeapFails`).
- `mem.cpp:30`: init_heap does not look at what request_page answers; a heap page is then backed by
  page 0, which the kernel uses for nothing else but which is not the heap's (`MapRefused`).
- `page_table_manager.cpp:20`: with no frame left, page 0 becomes a page table. The model
  ends there.

Shell:
- `mouse.cpp:37`: the test of the sync bit is never true (`Assemble`), so a driver that lost a
  byte takes motion for flags for good.
- `window_manager.cpp:126`: a window made while another is raised drops out of the list
  (`MoveWalk`, `MoveRelink`).
- `window_manager.cpp:45` and `:182`: the first create_window writes through a pointer
  nothing set, reset_indices through the NULL window of the list head. Left out.
- `window.cpp:49`: the close button reaches beyond the window by its own width (`hover_exit`).
- `graphics.cpp:64` and `:88`: at the lower edge the pointer is drawn in one row behind the
  back buffer (`draw_mouse_cursor`, `PaintStaysOnScreen`).
- `graphics.cpp:22`: the back buffer is allocated by the width, and drawn into by pixels per scan line,
  which firmware gives separately (`main.c:92`). With a wider scan line the lowest rows of every
  frame are written behind the block (`pps`; `PaintStaysOnScreen` claims the back buffer where the two agree).
- `graphics.cpp:114`: in a last row cut by the edge of the canvas characters are drawn
  but not cleared (`ClearedWhole` against `DrawnInPart`).
- `keyboard.cpp:36` and `:44`: keys are stored behind the line, in the pointer to the mouse
  (`Store`; the model does not follow the pointer).
- `out.cpp:89`: backspace goes back to column (width - 10) / 8, while cprint leaves a row by
  another rule (line 63): on a canvas whose width leaves more than 1 modulo 8 the two differ
  and the line is erased in the wrong column (`ScreenShowsLine` is claimed for the others).
- `command_manager.cpp:39`: words are not counted against the size of argv. Left out.

Devices and boot:
- `ahci.cpp:121`: after a failed command the port is not restarted; the next call waits for
  ever. The comment in line 73 speaks of a timeout (`CallEnds` excludes it).
- `pci.cpp:90`: the last bus of a range is not looked at (`enumerate_bus`, `Reachable`).
- `pci.cpp:38`: ahci_drivers has 16 places and is not tested; the model ends at a driver too many
  (`MaxDrivers`).
- `ahci.cpp:190`: one page of the registers of a controller is mapped, and those of ports 30 and 31 lie
  behind it. Left out.
- `ahci.cpp:225`: `port_count` is not initialised (`enumerate_function`).
- `fat32.cpp:281`: after a failed read a sector of zeros is written back (`UseTable`).
- `fat32.cpp:255`, `:290`: before it is given back, the NULL of a refused request is filled with zeros
  and with sectors of the disk, which overwrites the lowest 128 pages. Left out (`LowMemoryReserved`
  shows what freeing it does).
- `fat32.cpp:48`: total_clusters counts reserved sectors and the table (`TotalClusters`).
- `main.c:286`: a Print between GetMemoryMap and ExitBootServices (`PrintPages`).
- `main.c:267`: GUIDs compared the wrong way round, tables passed over (`FoundRsdp`).
- `interrupts.cpp:54`: the second PIC's mask is never read (`prepare_interrupts`).
- `mouse.cpp:97`: a mouse that firmware left reporting is not stopped first, nor the controller drained:
  a byte of motion is read as status or acknowledgement (`MoveMouse`).
- `kernel.cpp:104`: xsdt_address is read behind whatever the loader took for the RSDP, also a structure
  of version 1, which ends before it (`prepare_acpi`).
- `kernel.cpp:142`, `:153`: a port whose engine does not stop, or that answers nothing, holds the boot
  for ever (`DiskFallsSilent`).
- `kernel.cpp:138`: line 9 opened without a gate (`FirmwareInterrupt`).

**Bounds.** `MaxUsedTotal` (heap), `Frames`, `MaxWindows`, `LineBound`, `RowBound`,
`MaxWrites` (fat_table) and `MaxKeys` (boot) are the only ones; `SpinLimit` and `Patience`
stand for the code's own 1000000 and 100000, `MaxDrivers` for the 16 places of ahci_drivers. The other models are finite by themselves. Bounds
sit in guards, so a model at its bound stops doing the one thing that is bounded. In `heap` a
bound also ends the run; malloc waiting for memory that never comes does, too, and so does a
wild pointer: the Heap runs therefore do not check deadlock, nor does `page_tables`,
which ends at the first walk without a frame, nor `device_scan` and `boot`, which end
when the walk or the boot is over. `heap_preemption` ends likewise. All others check it.

**Fairness.** `MouseInput` and `WindowList` have weak fairness of the main loop's steps, `Boot`
of the main flow, which polls and never blocks, while a handler runs to
its end. Its waits for keyboard, mouse and controller have a bound; those for the disk have none, and
are steps that are not enabled once the disk has fallen silent, which it may do at any time:
`LoopReached` says so. A machine on which interrupts come so fast that the main flow makes no
progress is not considered. `DiskPort` has weak fairness of the driver, which polls, and of a
port that is not dead; the port may fall silent at any time, and may answer every command
with an error. No fairness is assumed of keyboard, mouse or users,
who may also do nothing. What `HandshakeStaysOut` does need of them it says itself: that no key and no
motion comes in between.

## 4. Proofs

Every theorem holds for all values of the constants that satisfy the named assumptions of the
module, which TLC evaluates on the run. Each proof module has an inductive invariant `IInv` (`ScanInv` for `DeviceScan`,
`WInv` for `WindowList`, `LineInv` for `CommandLine`),
which TLC also checked as an invariant of the run's instance; `Invariance` states it, and the
theorems below are read off it. Its preservation is proved action by action.

| Module | Theorem | What it states |
|---|---|---|
| `PageFrameAllocatorProofs` | `TypeCorrect`, `AccountingHolds`, `NoDoubleAllocationHolds`, `ProtectedHolds` | the four invariants |
| | `SinglePagesHold` | `SinglePagesNotLost`, under `MCSpec` |
| | `CountersFollow`, `Refinement` | the action property; `Spec => Pool!Spec` |
| `HeapProofs` | `ListHolds`, `DisjointHolds`, `NoAdjacentHolds` | the three invariants |
| | `ExpansionHolds` | the action property |
| | `MaskedCallsSuffice` | `MallocReturnsNewMemory` under `NoneInEither`, that is, if interrupts were off in malloc and while free merges |
| `PageTablesProofs` | `TreeHolds`, `OneUseHolds` | the two invariants |
| | `Refinement` | `Spec => Space!Spec` |
| `DiskProofs` | `BasesSetWhenStoppedHolds`, `Refinement` | of `DiskPort`: the invariant; `Spec => D!Spec` |
| | `EveryController`, `DriveGiven` | of `DeviceScan`: the two invariants |
| `FatTableProofs` | `ReturnHolds`, `SearchHolds`, `WriteHolds` | two invariants and the action property |
| `InputProofs` | `AlignedHolds`, `DrawnOnScreenHolds`, `PointerFollows` | of `MouseInput`: the three invariants |
| | `LineShown` | of `CommandLine`: the invariant |
| `WindowProofs` | `PaintHolds`, `HeldHolds` | of `WindowDrag`: the invariant and the action property |
| | `CopyExact`, `FillExact`, `BlocksHold` | of `Blocks`: memcopy and memset for every memory and length; the invariant of the run |
| | `WindowsKept`, `IndexesRight`, `ClickRaises`, `OpenWindowsDrawn` | of `WindowList`: the four invariants about the list |
| | `NumbersReadBack` | of `Numbers`: strtoi reads back every int that to_string wrote, if its `size` starts from 0 |
| `BootProofs` | `ShellHolds`, `HandshakeHolds`, `LoaderHolds` | the three invariants |

### Assumptions, and what in the code justifies them

- `DescriptorsAssumption`, `ParametersAssumption`: firmware's memory map is finite, its ranges do
  not overlap, and pages are numbers.
- `HeapAssumption`: a page is larger than a header and a multiple of the granule of malloc, and
  the heap starts with whole pages (`init_heap` is given a number of pages).
- `PageTablesAssumption`: the frames request_page has to give are finitely many, none is page 0 (which
  is low memory) or the root table (which was requested before), and a virtual page is four indexes. The
  pages that are mapped may be any, page 0 and the root table included.
- `ScanAssumption`: a machine is `Describable`, that is, the bus ranges of its MCFG do not overlap,
  functions have places on a bus and ports are below 32; malloc's memory may hold a zero where
  `port_count` lies. Overlapping ranges would have the code make two drivers of one controller.
- `DiskPortAssumption`, `MouseAssumption`: sizes are positive, packets are three bytes.
- `Motions`, the hypothesis of `PointerFollows`: no packet reports a motion of -256, the one value
  of nine bits that is no byte's negative; the code takes it for no motion at all. Without it
  `PointerFollowsDevice` is false.
- `CommandLineAssumption`: the canvas is five columns wide or wider, the line has a place, rows are
  followed to the third at least, and no key types a control byte.
- `CanvasWidth % 8 \in {0, 1}`, the hypothesis of `LineShown`: the canvas is at most one pixel wider
  than whole columns. These are the widths at which backspace (`out.cpp:89`) and cprint (`out.cpp:63`)
  agree on the last column of a row. The canvas is as wide as the screen (`shell.cpp:63`): 640, 1024,
  1280 and 1920 are such widths; at 1366 a row cannot be erased across its end.
- `DragAssumption`: the window starts where it fits on the screen (make_window opens it at
  (50, 50), 502 by 526), and a scan line has at least as many pixels as the screen is wide, which
  UEFI promises.
- `FatAssumption`, `VolumeAssumption`: a buffer is at least two pages, the run of sectors read from
  the entry of any cluster lies on the volume, and data clusters are below total_clusters. A FAT32
  volume has 65525 clusters or more (`fat32.cpp:79`), whose data lie behind the table.
- `WindowAssumption`: the bound on windows is a positive number, of any size.
- The hypotheses of `NumbersReadBack`: the number is an int, and its text has room in the 128 bytes of
  `uint_output` (which the digits of any 64-bit number have). It is stated for a `size` of 0, which the
  code does not ensure: it is about the two loops, not about what the kernel prints (`PrintedIdReachesWindow`).
- `BootAssumption`: configuration tables come in finite sequences, waits have a turn.

### The arguments

**Page allocator.** That a page handed out is not protected follows only if every protected
page has its bit *set* while requests are possible, which depends on the phase of boot: `Locked`
says what has been locked in each. `LockLoop`, `ReserveLoop`, `UnreserveLoop` and `ReleaseLoop` say
once, from facts on cardinalities, that each loop keeps the counters balanced. For `Refinement`,
`StepKinds` sorts the steps into taking a block, giving one back, giving back what was refused, locking,
and moving the index, with or without a refusal: the abstract pool's actions and a stutter. `SinglePagesHold` has an invariant of
its own, `SInv`: until request_pages is called no clear bit is below the index (`NoneBehind`).
A refused request has then looked at every bit from the index on; that the first clear one
stops it needs a least element, which `Least` gets from the well-foundedness of strict inclusion.
That NULL was a refusal and not page 0 handed out follows from page 0 being protected, until it is
given back by a client that was refused: from then on nothing is claimed of `lost` pages, and `IInv` is
stated for the others.

**Heap.** `Chain` says of the headers, without reference to who uses them, that each block ends
where the next one begins, that links are mutual and one block is last; `SplitChain`,
`MergeChain` and `AppendKeeps` show that the three list operations keep it, under every outcome
of expand_heap's walk that the model does not end at. `Held` ties used headers to what clients
were promised: without it an allocation could lie in a block that is free. `Ungrown` (no two free
neighbours, the last block ends at the end of the heap) is what an expansion may break.
`MaskedCallsSuffice` is about `NoneInEither`, which is `HeapPreemption` without interrupts from where malloc
looks for a block (`mem.cpp:142`) to where it returns, and from where free has marked its block
(`mem.cpp:201`) to where it returns; the runs of `NoneInMallocs` and `NoneInMerges` show that neither can be left out. Its invariant `MInv` has `Held`
but for the block about to be marked, and says which free blocks are not merged yet
(`Unmerged`). A malloc before the mark is harmless, since the block is still used (`TakingKeeps`).

**Page tables.** The invariant holds in the middle of a walk: `OnPath` says that the table reached
is the one on the page's own path. The tree (`Tree`, `Levels`: no two entries of a level name the
same frame, no frame has two levels) is kept because the frame linked is a free one, which no
entry names (`Uses`). `GrowPaths` shows that linking a cleared table changes no other page's
path, so each `Descend` is a stutter of `AddressSpace` and `Enter` is `Map`.
`InPageZero` covers the model's end: after a frame was refused the walk is in page 0.

**Disk port.** `EngineStops` carries each bit that stop_cmd has seen off to `SetBases`.
`OnlyOpenCalls` says that the port works on a command only while the driver waits for it, that it
is the open call's, and that a failed one keeps the port from fetching another;
`Agreement` that what has been moved agrees. With these each step of driver or port is a step of
`Disk` or a stutter.

**Device scan.** `Position` says where the four counters may be in each loop; `Visited` which
controllers the walk has passed, in the order of entries, buses, devices and functions. The
lemmas `FindKeeps` to `FunctionKeeps` show that every turn of a loop but the one that registers a
driver passes no controller, `RegisterPasses` that this one passes exactly the controller at hand,
`HereIsNew` that it was not passed before. `Exact` says that the array of ports lists the drives
below the counter in ascending order; if malloc's memory was not zero, configure stops at garbage
(`Misled`). At the end of the walk `Visited` is `Reachable`, and `ListOfSet` turns a list of
different members into a cardinality.

**FAT32.** `Operation`, `Call` and `Places` say what `pc` implies of operation, open call and
buffer. `Owners` lists, for each place, the blocks held besides the kept ones; one of two buffers
could otherwise be freed twice. `Read` says that behind a read that succeeded the buffer is the
sector on the disk, and while the write is under way the sector but for the one entry.
`Passed` says that a search has passed over no free cluster.

**Mouse.** `IInv` holds the agreement of `mouse_cycle` with the device. The position has an
invariant of its own, `Following`: as long as nothing was dropped or torn, how far
process_mouse_packet has come says how much of the packet's motion the driver's account
still owes.

**Command line.** `ScreenShowsLine` claims nothing of an over-full line or before the first command,
but backspaces lead back from there: `LineInv` follows the line in those states, too. It says that
the cursor stands in the cell of the next character and that each character before it is in
its own. The cells of a line are a path that `Advanced` walks from the prompt (`PathCells`: no cell is
met twice and backspace walks it back, which is where the width matters). `OneOn` moves the
cursor one cell on, `CharacterDrawn` touches that cell only. What enter prints is a fold over words
over characters; `PrintTurns` and `WordTurns` unfold both into the screens and words they go through,
and `TextPrinted` shows by induction over these that the cursor stays on the canvas's rows up to
the prompt. Induction is over sets of numbers (`AllNumbers`), from the least number not in the
set (`LeastNumber`).

**Window.** That every rectangle is on the screen follows from where the window may be (`OnScreen`),
which `TypeOK` does not say, and from `KeptOnScreen`, the clamping. Drawing is proved for screens
of any shape; rectangles without a pixel (`Empty`) are on it by definition. `InsideInBackbuffer` takes this
to memory, for scan lines without a gap.

**Blocks.** The loops of memcopy are folds. `Turns` unfolds one into the memories it goes through, by
the least length for which there are none, and `LoopCopies` shows, by the least turn for which
it fails, that after j turns of n bytes the memory is one copy of j * n bytes. `TwoCopies` joins the
three loops; it needs that the target does not lie inside the source above its first byte.

**Window list.** `WindowList` counts its walks by a recursive function; `Steps` shows, by the least
number for which it fails, that this function follows `next`, and `WalkList` that all walks go along a
function c which numbers the list (`Chain`). `UnlinkKeeps`, `RelinkKeeps`, `AppendKeeps` and
`ReindexedIs` turn one `Chain` into another. The invariant `WInv` says in every state, also between
the steps of move_to_top and delete_window and after a create_window there, that the nodes are a
`Chain` and where in it the remembered nodes are (`Placed`): `OpenWindowsDrawn` is read off that. The
window being moved is in no `Chain` for three steps; if a window is made behind the end it has
found, it is put back there and the new one is lost, which leaves a shorter list. Without such
a create_window, `NoneLost` says that the list and the window being moved are all open windows, and
`Clicked` that the topmost window clicked is on top or not behind the walk (`Ahead`).

**Numbers.** The two loops of to_string divide the number by ten; `Quotients` says of the values
in between (`Divided`) that they go down, so the loops end, and that each is the one before without
its last digit. `TensIs` gives the first loop's count by the least number for which nothing is left,
`TextOfNumber` the text, whatever the buffer held before. `ReadTurns` unfolds the loop of strtoi, and
`NumberRead` shows by induction that after j characters its sum is the value with j digits, taken
from the same list backwards, and never leaves the range of an int on the way.

**Boot.** `Gates` derives which pointers are set and which lines are open from how far
_start is; `Mouse` which byte the controller holds and which answers are owed at each wait, in a
handshake that nothing came into;
`Found` what the loader knows after each step. `LastRsdpFound` is about configuration
tables of every length.

### Only model-checked

Liveness: `PacketTaken`, `FrameEnds`, `CallEnds` and `LoopReached`. It needs ENABLED, which is out of
the prover's reach. Every invariant and every action property of the passing runs is proved, and so is
the safety of each refinement.

## 5. Not modelled

Most lines of the repository are not the kernel's logic. `src/gnu-efi/inc` and `src/gnu-efi/lib`
are the vendored GNU-EFI headers and library (some 20,000 lines), `lib/math.cpp` (1652 lines) is
a vendored floating-point library, `pci_descriptors.cpp` a table of names,
`scancode_translator.cpp` a table of characters. Almost all of the control in the repository's
own code is in the modules above; it is under a tenth of all lines, and no faithful
model could cover a third of them. Of the repository's own code, what is left out:

- descriptor tables, fault handlers (which stop the machine), the timer tick: constants, or a
  single assignment;
- pixels: drawing is modelled only where clipping decides what is written or what a cell shows;
- operations without a caller: set_page_attribute, aligned_alloc and aligned_free,
  to_dos_filename, fat_directory, read_cluster, hover_framebuffer, most of `vfs.cpp`; the 3D
  cube; the formatters of `cstr.cpp` for numbers nothing prints;
- tree, which prints a directory and changes no state but a buffer of its own;
- colours, the frame rate, the blinking cursor, the shift keys' choice of the table.

## 6. Plan

Done: the modules of section 2 and the theorems of section 4. What is not proved is liveness, for
which there is no prover; what is not modelled is in section 5.
