------------------------------ MODULE FatTable ------------------------------
(***************************************************************************)
(* The file allocation table of fat32.cpp: the constructor, read_fat_entry,*)
(* write_fat_entry and find_free_cluster, over a disk that keeps no more   *)
(* than Disk promises (a call that fails has moved what it likes) and a    *)
(* page pool that keeps no more than FramePool promises (it may refuse).   *)
(* After the boot sector nobody looks at the answer of the disk, and       *)
(* nobody ever at a request for pages that was refused.                    *)
(***************************************************************************)
EXTENDS Integers

CONSTANTS
    Sectors,            \* total_sectors of the boot sector
    Reserved,           \* partition_start + reserved_sector_count
    TableSize, Copies,  \* table_size_32 and table_count
    SectorsPerCluster,
    PerSector,          \* entries of a table sector: bytes_per_sector / 4
    Values, Top,        \* what an entry may hold; 2^28, its value is what lies below
    MaxRead,            \* sectors read_fat_entry reads: 32
    Run,                \* pages of its buffer: 128
    Pages,              \* the machine's pages are 0 .. Pages - 1, the first Run reserved
    MaxWrites,          \* bound on the calls of write_fat_entry
    InitialDisks

Sector == [0 .. PerSector - 1 -> Values]

ASSUME FatAssumption ==
    /\ {Sectors, Reserved, TableSize, Copies, SectorsPerCluster, PerSector} \subseteq Nat \ {0}
    /\ {Top, MaxRead, Pages, MaxWrites} \subseteq Nat \ {0} /\ Run \in 2 .. Pages
    /\ 0 \in Values /\ Values \subseteq Nat
    /\ Reserved + Copies * TableSize < Sectors
    /\ InitialDisks \subseteq [0 .. Sectors - 1 -> Sector]

VARIABLES
    stored, buffer, call, answer,   \* the disk and its open call, as in Disk
    free, held, withdrawn,          \* the pages, as in FramePool
    total_clusters,                 \* 0 until the boot sector has been read
    pc, op, cluster, value, result, \* the running operation
    block,                          \* the pages of its buffer
    kept,                           \* the blocks held between two operations
    refused,                        \* ghost: a request for pages was refused
    trouble,                        \* ghost: a disk call or a request of the operation failed
    writes

disk == <<stored, buffer, call, answer>>
pool == <<free, held, withdrawn>>
request == <<op, cluster, value>>
vars == <<disk, pool, total_clusters, pc, request, result, block, kept, refused, trouble, writes>>

D == INSTANCE Disk WITH Data <- Sector, MaxCount <- MaxRead
\* Here a page that is given back is free, whoever held it: after a refusal
\* nothing is claimed of pages, and lost ones need not be told apart.
P == INSTANCE FramePool WITH Frames <- 0 .. Pages - 1, Lengths <- {1, Run},
                             refused <- {}, lost <- {}

FatSector(c) == Reserved + c \div PerSector
Low(v) == v % Top
Entry(c) == stored[FatSector(c)][c % PerSector]

\* The clusters a volume of this geometry has, and those its table has entries
\* for.  total_clusters counts the whole volume, table and all.
DataClusters == 2 .. (Sectors - Reserved - Copies * TableSize) \div SectorsPerCluster + 1
TotalClusters == Sectors \div SectorsPerCluster

\* The volume is a FAT32 volume, of 65525 clusters at least: its reserved sectors
\* and its table are longer than two clusters, and MaxRead sectors from any entry
\* on are on the volume.
ASSUME VolumeAssumption ==
    /\ \A v \in Values : Low(v) \in Values
    /\ \A c \in 2 .. TotalClusters : FatSector(c) + MaxRead <= Sectors
    /\ DataClusters \subseteq 2 .. TotalClusters - 1

\* The constructor's requests for a page each, and what follows.
AfterPage ==
    [temp1 |-> "temp2", temp2 |-> "port", port |-> "boot", cache |-> "root",
     root |-> "file", file |-> "lookup", tree |-> "idle"]

TypeOK ==
    /\ stored \in [0 .. Sectors - 1 -> Sector] /\ buffer \in [0 .. MaxRead - 1 -> Sector]
    /\ call \in D!Calls \cup {D!NoCall} /\ answer \in BOOLEAN
    /\ total_clusters \in {0, TotalClusters}
    /\ pc \in DOMAIN AfterPage \cup {"boot", "magic", "lookup", "leave"}
              \cup {"request", "fill", "reading", "writing", "free", "idle"}
    /\ op \in {"mount", "read", "write", "find"} /\ cluster \in 0 .. TotalClusters + 1
    /\ value \in Values /\ result \in Nat
    /\ (UNION held) \cup free \cup block \subseteq 0 .. Pages - 1 /\ kept \subseteq held
    /\ refused \in BOOLEAN /\ trouble \in BOOLEAN /\ writes \in 0 .. MaxWrites

Blank == [i \in 0 .. MaxRead - 1 |-> [j \in 0 .. PerSector - 1 |-> 0]]

Init ==
    /\ stored \in InitialDisks /\ buffer = Blank /\ call = D!NoCall /\ answer = FALSE
    /\ free = Run .. Pages - 1 /\ held = {} /\ withdrawn = 0 .. Run - 1
    /\ total_clusters = 0 /\ pc = "temp1" /\ op = "mount" /\ cluster = 0 /\ value = 0 /\ result = 0
    /\ block = {} /\ kept = {} /\ refused = FALSE /\ trouble = FALSE /\ writes = 0

-----------------------------------------------------------------------------
(* Pages.  NULL is used as the address it is: the block is the low pages. *)

FirstRun(n) ==
    LET starts == {f \in free : f .. f + n - 1 \subseteq free}
    IN {f \in starts : \A g \in starts : f <= g}

\* request_page and request_pages(n).
Request(n) ==
    \/ \E f \in FirstRun(n) :
        P!Allocate(f, f + n - 1) /\ block' = f .. f + n - 1 /\ UNCHANGED <<refused, trouble>>
    \/ block' = 0 .. n - 1 /\ refused' = TRUE /\ trouble' = TRUE /\ UNCHANGED pool

-----------------------------------------------------------------------------
(* The constructor.  What its further reads fill is left out: fat_cache,     *)
(* which nothing looks at (it is one page, and the read of table_size_32     *)
(* sectors writes as many bytes behind it as the table is longer), and the   *)
(* pages whose text goes to the screen.                                      *)

\* The page of "file" (buffer2) is given back, the others are kept for good.
TakePage ==
    /\ pc \in DOMAIN AfterPage /\ Request(1)
    /\ pc' = AfterPage[pc]
    /\ kept' = IF pc = "file" THEN kept ELSE kept \cup (held' \ held)
    /\ UNCHANGED <<disk, total_clusters, request, result, writes>>

ReadBootSector ==
    /\ pc = "boot" /\ pc' = "magic"
    /\ D!Begin([write |-> FALSE, first |-> 0, count |-> 1]) /\ buffer' = Blank
    /\ UNCHANGED <<pool, total_clusters, request, result, block, kept, refused, trouble, writes>>

\* A failed read, or a sector without the magic number, and the object stays
\* as it is.
CheckBootSector ==
    /\ pc = "magic" /\ call = D!NoCall
    /\ \/ pc' = "idle" /\ UNCHANGED total_clusters
       \/ answer /\ pc' = "cache" /\ total_clusters' = TotalClusters
    /\ UNCHANGED <<disk, pool, request, result, block, kept, refused, trouble, writes>>

\* read_fat_entry for whatever cluster the first file of the root directory has.
LookUp(c) ==
    /\ pc = "lookup" /\ pc' = (IF c \in 2 .. total_clusters THEN "request" ELSE "leave")
    /\ cluster' = c
    /\ UNCHANGED <<disk, pool, total_clusters, op, value, result, block, kept, refused, trouble, writes>>

\* mutant: buffer2 is kept
LeaveHolding ==
    /\ pc = "leave" /\ pc' = "tree"
    /\ UNCHANGED <<disk, pool, total_clusters, request, result, block, kept, refused, trouble, writes>>

\* free_page(buffer2), which may be NULL.
Leave ==
    /\ pc = "leave" /\ pc' = "tree"
    /\ P!GiveBack(IF held = kept THEN {0} ELSE CHOOSE b \in held : b \notin kept)
    /\ UNCHANGED <<disk, withdrawn, total_clusters, request, result, block, kept, refused, trouble, writes>>

Mount == TakePage \/ ReadBootSector \/ CheckBootSector \/ Leave \/ \E c \in 0 .. TotalClusters + 1 : LookUp(c)

-----------------------------------------------------------------------------
(* The three operations. *)

InTable(c) == c >= 2 /\ c <= total_clusters

\* A call is made.  Out of bounds it answers 0 at once.
Start(o, c, v) ==
    /\ pc = "idle"
    /\ \/ o = "read" /\ v = 0 /\ UNCHANGED writes
       \/ o = "write" /\ writes < MaxWrites /\ writes' = writes + 1
       \/ o = "find" /\ c = 2 /\ v = 0 /\ UNCHANGED writes
    /\ op' = o /\ cluster' = c /\ value' = v /\ trouble' = FALSE /\ result' = 0
    /\ pc' = (IF (o = "find" /\ c >= total_clusters) \/ ~InTable(c) THEN "idle" ELSE "request")
    /\ UNCHANGED <<disk, pool, total_clusters, block, kept, refused>>

RequestBuffer ==
    /\ pc = "request" /\ pc' = "fill" /\ Request(Run)
    /\ UNCHANGED <<disk, total_clusters, request, result, kept, writes>>

Post(w) ==
    D!Begin([write |-> w, first |-> FatSector(cluster), count |-> IF op = "write" THEN 1 ELSE MaxRead])

\* memset and port->read.
ReadTable ==
    /\ pc = "fill" /\ pc' = "reading"
    /\ Post(FALSE) /\ buffer' = Blank
    /\ UNCHANGED <<pool, total_clusters, request, result, block, kept, refused, trouble, writes>>

\* mutant: the value is not masked
ChangedUnmasked == [buffer EXCEPT ![0][cluster % PerSector] = value]

\* The sector with the entry put in place of the old one, upper bits and all.
Changed == [buffer EXCEPT ![0][cluster % PerSector] = Low(value)]

\* The result, or for write_fat_entry the changed sector and port->write.
UseTable ==
    /\ pc = "reading" /\ call = D!NoCall
    /\ trouble' = (trouble \/ ~answer)
    /\ \/ /\ op = "write" /\ pc' = "writing"
          /\ Post(TRUE) /\ buffer' = Changed
          /\ UNCHANGED result
       \/ /\ op # "write" /\ pc' = "free"
          /\ result' = Low(buffer[0][cluster % PerSector])
          /\ UNCHANGED disk
    /\ UNCHANGED <<pool, total_clusters, request, block, kept, refused, writes>>

Written ==
    /\ pc = "writing" /\ call = D!NoCall /\ pc' = "free"
    /\ trouble' = (trouble \/ ~answer)
    /\ UNCHANGED <<disk, pool, total_clusters, request, result, block, kept, refused, writes>>

\* mutant: the entry is not looked at
SearchGoesOnAlways == op = "find" /\ cluster + 1 < total_clusters

SearchGoesOn == op = "find" /\ result # 0 /\ cluster + 1 < total_clusters

\* free_pages, the end of the buffer, and for find_free_cluster the next cluster
\* or the answer.
FreeBuffer ==
    /\ pc = "free" /\ block' = {}
    /\ P!GiveBack(block)
    /\ \/ /\ SearchGoesOn
          /\ pc' = "request" /\ cluster' = cluster + 1 /\ UNCHANGED result
       \/ /\ ~SearchGoesOn
          /\ pc' = (IF op = "mount" THEN "leave" ELSE "idle")
          /\ result' = IF op # "find" THEN result ELSE IF result = 0 THEN cluster ELSE 0
          /\ UNCHANGED cluster
    /\ buffer' = Blank
    /\ UNCHANGED <<stored, call, answer, withdrawn, total_clusters, op, value, kept, refused, trouble, writes>>

\* The disk works on the open call.
DiskStep ==
    /\ (\E i \in 0 .. MaxRead - 1 : D!MoveSector(i)) \/ (\E r \in BOOLEAN : D!Return(r))
    /\ UNCHANGED <<pool, total_clusters, pc, request, result, block, kept, refused, trouble, writes>>

Next ==
    \/ Mount \/ RequestBuffer \/ ReadTable \/ UseTable \/ Written \/ FreeBuffer \/ DiskStep
    \/ \E o \in {"read", "write", "find"}, c \in 0 .. TotalClusters + 1, v \in Values : Start(o, c, v)

Spec == Init /\ [][Next]_vars

-----------------------------------------------------------------------------
\* As long as no request for pages was refused, nothing is held between two
\* calls but the constructor's pages, and no page that was never handed out has
\* become free.
PagesReturned ==
    TypeOK /\ (~refused /\ pc = "idle" => held = kept /\ free \cap withdrawn = {})

\* A write_fat_entry that has met no failure so far changes no entry but its own,
\* in no sector but its own: the read before it kept the neighbours.  One that
\* ends without a failure has stored the value.
WriteChangesOwnEntry ==
    [][op = "write" /\ ~trouble =>
        /\ \A s \in 0 .. Sectors - 1, j \in 0 .. PerSector - 1 :
              stored'[s][j] # stored[s][j] => s = FatSector(cluster) /\ j = cluster % PerSector
        /\ pc # "idle" /\ pc' = "idle" => Entry(cluster) = Low(value)]_vars

\* A search that met no failure answers with a number whose entry is free, passing
\* over no free cluster, and with 0 only when the volume has none.  (On a full
\* volume the number may lie behind the last cluster: total_clusters counts the
\* reserved sectors and the table as well.)
SearchFindsFree ==
    op = "find" /\ pc = "idle" /\ ~trouble /\ total_clusters # 0 =>
        LET freeClusters == {c \in DataClusters : Low(Entry(c)) = 0} IN
        IF result = 0 THEN freeClusters = {}
        ELSE Low(Entry(result)) = 0 /\ \A c \in freeClusters : result <= c

=============================================================================
