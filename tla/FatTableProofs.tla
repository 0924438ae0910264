--------------------------- MODULE FatTableProofs ---------------------------
(***************************************************************************)
(* Proofs about FatTable, for every geometry of a FAT32 volume, every      *)
(* content of it, every machine and any number of calls.                   *)
(***************************************************************************)
EXTENDS FatTable, TLAPS

-----------------------------------------------------------------------------
(* The invariant. *)

\* The constructor's steps, and those in which an operation has its buffer.
Mounting == DOMAIN AfterPage \cup {"boot", "magic", "lookup", "leave"}
Buffered == {"fill", "reading", "writing", "free"}
Running == Buffered \cup {"request"}

\* The call an operation makes.
CallOf(w) == [write |-> w, first |-> FatSector(cluster), count |-> IF op = "write" THEN 1 ELSE MaxRead]

\* What the steps say of the operation.
Operation ==
    /\ pc \in Mounting => op = "mount"
    /\ pc \in Running => cluster \in 2 .. TotalClusters
    /\ pc = "writing" => op = "write"
    /\ pc \in Running /\ op \in {"read", "write", "find"} => total_clusters = TotalClusters

\* Which call can be open.
Call ==
    call # D!NoCall =>
        \/ pc = "magic" /\ call = [write |-> FALSE, first |-> 0, count |-> 1]
        \/ pc = "reading" /\ call = CallOf(FALSE)
        \/ pc = "writing" /\ call = CallOf(TRUE)

\* A block held between two operations is one page, and not page 0 before the
\* constructor has given back its page, which may be NULL.  A buffer is longer,
\* also when it is at NULL.
Places ==
    /\ \A b \in kept : \E f \in 0 .. Pages - 1 : b = {f}
    /\ pc \in Mounting \ {"tree"} \/ (pc \in Running /\ op = "mount") => {0} \notin held
    /\ pc \in Mounting \ {"leave", "tree"} => 0 \notin free
    /\ pc \in Buffered => \E f \in 0 .. Pages - 1 : {f, f + 1} \subseteq block

\* What is held besides the kept blocks.
Holding(extra) == held = kept \cup extra /\ kept \cap extra = {}

\* As long as no request was refused, no page is in two places.
Apart ==
    /\ withdrawn = 0 .. Run - 1 /\ free \cap withdrawn = {}
    /\ \A b \in held : b \cap free = {} /\ b \cap withdrawn = {} /\ b # {}
    /\ \A a, b \in held : a # b => a \cap b = {}

Owners ==
    ~refused =>
        /\ Apart
        /\ pc \in (Mounting \cup {"idle"}) \ {"lookup", "leave"} => held = kept
        /\ pc \in {"lookup", "leave"} => \E f \in 0 .. Pages - 1 : Holding({{f}})
        /\ pc = "request" /\ op = "mount" => \E f \in 0 .. Pages - 1 : Holding({{f}})
        /\ pc = "request" /\ op # "mount" => held = kept
        /\ pc \in Buffered /\ op = "mount" =>
              \E f \in 0 .. Pages - 1 : Holding({{f}, block}) /\ {f} # block
        /\ pc \in Buffered /\ op # "mount" => Holding({block})

\* What an operation that has met no failure knows of the disk.
Sector0 == FatSector(cluster)
Place == cluster % PerSector

Read ==
    ~trouble =>
        /\ pc = "reading" /\ call = D!NoCall /\ answer => buffer[0] = stored[Sector0]
        /\ pc = "writing" =>
              /\ buffer[0][Place] = Low(value)
              /\ \A j \in 0 .. PerSector - 1 : j # Place => buffer[0][j] = stored[Sector0][j]
              /\ call = D!NoCall /\ answer => buffer[0] = stored[Sector0]
        /\ pc = "free" /\ op = "write" => Entry(cluster) = Low(value)
        /\ pc = "free" /\ op = "find" => result = Low(Entry(cluster))

\* A search has passed over no free cluster.
Passed ==
    op = "find" /\ ~trouble =>
        /\ pc \in Running => \A c \in DataClusters : c < cluster => Low(Entry(c)) # 0
        /\ SearchFindsFree

IInv == TypeOK /\ Operation /\ Call /\ Places /\ Owners /\ Read /\ Passed

-----------------------------------------------------------------------------
(* The volume and the pages. *)

\* Every entry has a sector and a place in it, and the run read from there is
\* on the volume.
LEMMA Geometry ==
  /\ {Sectors, Reserved, PerSector, MaxRead, Pages, MaxWrites} \subseteq Nat \ {0}
  /\ Run \in 2 .. Pages /\ TotalClusters \in Nat
  /\ \A c \in Nat : c % PerSector \in 0 .. PerSector - 1 /\ FatSector(c) \in Nat
  /\ \A c \in 2 .. TotalClusters : FatSector(c) + MaxRead <= Sectors
  /\ 0 \in Values /\ \A v \in Values : Low(v) \in Values /\ Low(v) \in Nat
<1>1. /\ {Sectors, Reserved, PerSector, MaxRead, Pages, MaxWrites, SectorsPerCluster} \subseteq Nat \ {0}
      /\ Run \in 2 .. Pages
  BY FatAssumption
<1>2. TotalClusters \in Nat
  BY <1>1 DEF TotalClusters
<1>3. \A c \in Nat : c % PerSector \in 0 .. PerSector - 1 /\ c \div PerSector \in Nat
  BY <1>1
<1>4. \A c \in Nat : FatSector(c) \in Nat
  BY <1>1, <1>3 DEF FatSector
<1>5. \A c \in 2 .. TotalClusters : FatSector(c) + MaxRead <= Sectors
  BY VolumeAssumption
<1>6. 0 \in Values /\ \A v \in Values : Low(v) \in Values /\ Low(v) \in Nat
  BY VolumeAssumption, FatAssumption
<1> QED
  BY <1>1, <1>2, <1>3, <1>4, <1>5, <1>6

\* Which page the constructor asks for next.
LEMMA Domain ==
  /\ DOMAIN AfterPage = {"temp1", "temp2", "port", "cache", "root", "file", "tree"}
  /\ AfterPage["temp1"] = "temp2" /\ AfterPage["temp2"] = "port" /\ AfterPage["port"] = "boot"
  /\ AfterPage["cache"] = "root" /\ AfterPage["root"] = "file" /\ AfterPage["file"] = "lookup"
  /\ AfterPage["tree"] = "idle"
  BY DEF AfterPage

\* A cleared buffer holds sectors.
LEMMA BlankTyped == Blank \in [0 .. MaxRead - 1 -> Sector]
  BY Geometry DEF Blank, Sector

\* A request is answered with a block of free pages, or with the low pages.
LEMMA RequestGives ==
  ASSUME TypeOK, NEW n \in 1 .. Pages, Request(n)
  PROVE  /\ \E f \in 0 .. Pages - 1 : block' = f .. f + n - 1
         /\ block' \subseteq 0 .. Pages - 1
         /\ \/ /\ block' \subseteq free /\ free' = free \ block' /\ held' = held \cup {block'}
               /\ UNCHANGED <<withdrawn, refused, trouble>>
            \/ /\ refused' = TRUE /\ trouble' = TRUE
               /\ UNCHANGED pool
<1>1. CASE \E f \in FirstRun(n) :
             P!Allocate(f, f + n - 1) /\ block' = f .. f + n - 1 /\ UNCHANGED <<refused, trouble>>
  <2>1. PICK f \in FirstRun(n) :
             P!Allocate(f, f + n - 1) /\ block' = f .. f + n - 1 /\ UNCHANGED <<refused, trouble>>
    BY <1>1
  <2>2. f \in free /\ f \in 0 .. Pages - 1 /\ free \subseteq 0 .. Pages - 1
    BY DEF FirstRun, TypeOK
  <2>3. /\ f .. f + n - 1 \subseteq free /\ free' = free \ (f .. f + n - 1)
        /\ held' = held \cup {f .. f + n - 1} /\ UNCHANGED withdrawn
    BY <2>1 DEF P!Allocate
  <2>4. block' = f .. f + n - 1 /\ UNCHANGED <<refused, trouble>>
    BY <2>1
  <2> HIDE <2>1
  <2> QED
    BY <2>2, <2>3, <2>4
<1>2. CASE block' = 0 .. n - 1 /\ refused' = TRUE /\ trouble' = TRUE /\ UNCHANGED pool
  <2>1. 0 \in 0 .. Pages - 1 /\ 0 .. n - 1 = 0 .. 0 + n - 1 /\ 0 .. n - 1 \subseteq 0 .. Pages - 1
    BY Geometry
  <2> QED
    BY <1>2, <2>1
<1> QED
  BY <1>1, <1>2 DEF Request

-----------------------------------------------------------------------------
(* Types. *)

\* Init is typed.
LEMMA InitTypes == Init => TypeOK
<1> SUFFICES ASSUME Init PROVE TypeOK
  OBVIOUS
<1>1. stored \in [0 .. Sectors - 1 -> Sector] /\ buffer \in [0 .. MaxRead - 1 -> Sector]
  BY FatAssumption, BlankTyped DEF Init
<1>2. call = D!NoCall /\ answer \in BOOLEAN /\ refused \in BOOLEAN /\ trouble \in BOOLEAN
  BY Zenon DEF Init
<1>3. pc = "temp1" /\ op = "mount" /\ total_clusters = 0 /\ value = 0 /\ result = 0
  BY Zenon DEF Init
<1>4. cluster \in 0 .. TotalClusters + 1 /\ writes \in 0 .. MaxWrites
  BY Geometry DEF Init
<1>5. (UNION held) \cup free \cup block \subseteq 0 .. Pages - 1 /\ kept \subseteq held
  BY Geometry DEF Init
<1>6. pc \in DOMAIN AfterPage
  BY <1>3, Domain
<1> QED
  BY <1>1, <1>2, <1>3, <1>4, <1>5, <1>6, Geometry DEF TypeOK

\* The three parts of TypeOK.
DiskTyped ==
    /\ stored \in [0 .. Sectors - 1 -> Sector] /\ buffer \in [0 .. MaxRead - 1 -> Sector]
    /\ call \in D!Calls \cup {D!NoCall} /\ answer \in BOOLEAN
PagesTyped == (UNION held) \cup free \cup block \subseteq 0 .. Pages - 1 /\ kept \subseteq held
StateTyped ==
    /\ total_clusters \in {0, TotalClusters}
    /\ pc \in {"temp1", "temp2", "port", "cache", "root", "file", "tree", "boot", "magic", "lookup", "leave",
               "request", "fill", "reading", "writing", "free", "idle"}
    /\ op \in {"mount", "read", "write", "find"} /\ cluster \in 0 .. TotalClusters + 1
    /\ value \in Values /\ result \in Nat
    /\ refused \in BOOLEAN /\ trouble \in BOOLEAN /\ writes \in 0 .. MaxWrites

\* TypeOK by what its parts are about: disk, pages, and the object itself.
LEMMA Typed == TypeOK <=> DiskTyped /\ PagesTyped /\ StateTyped
  BY Domain DEF TypeOK, DiskTyped, PagesTyped, StateTyped

\* The calls that are begun are calls of the disk.
LEMMA CallTyped ==
  ASSUME cluster \in 2 .. TotalClusters, NEW w \in BOOLEAN
  PROVE  CallOf(w) \in D!Calls
<1>1. /\ FatSector(cluster) \in 0 .. Sectors - 1 /\ 1 \in 1 .. MaxRead /\ MaxRead \in 1 .. MaxRead
      /\ FatSector(cluster) + 1 <= Sectors /\ FatSector(cluster) + MaxRead <= Sectors
  BY Geometry
<1> QED
  BY <1>1 DEF CallOf, D!Calls

\* The read of the boot sector is a call a disk takes.
LEMMA BootCallTyped == [write |-> FALSE, first |-> 0, count |-> 1] \in D!Calls
<1>1. 0 \in 0 .. Sectors - 1 /\ 1 \in 1 .. MaxRead /\ 0 + 1 <= Sectors
  BY Geometry
<1> QED
  BY <1>1 DEF D!Calls

\* What the disk does with its open call.
LEMMA DiskMoves ==
  ASSUME TypeOK, DiskStep
  PROVE  /\ DiskTyped'
         /\ UNCHANGED <<pool, total_clusters, pc, request, result, block, kept, refused, trouble, writes>>
         /\ call # D!NoCall
         /\ ~call.write => stored' = stored
         /\ call.write => buffer' = buffer
         /\ call' = call \/ (call' = D!NoCall /\ UNCHANGED <<stored, buffer>>)
         /\ call' = D!NoCall /\ answer' => \A i \in 0 .. call.count - 1 : buffer[i] = stored[call.first + i]
         /\ \A s \in 0 .. Sectors - 1 : stored'[s] # stored[s] =>
               \E i \in 0 .. call.count - 1 : s = call.first + i /\ stored'[s] = buffer[i]
<1> USE DEF DiskTyped
<1>1. DiskTyped /\ D!NoCall \notin D!Calls /\ D!NoCall.count = 0
  BY Typed DEF D!Calls, D!NoCall
<1>2. CASE \E i \in 0 .. MaxRead - 1 : D!MoveSector(i)
  <2>1. PICK i \in 0 .. MaxRead - 1 : D!MoveSector(i)
    BY <1>2
  <2>2. i \in 0 .. call.count - 1 /\ call' = call /\ answer' = answer
    BY <2>1 DEF D!MoveSector
  <2>3. call # D!NoCall
    BY <1>1, <2>2
  <2>4. call \in D!Calls
    BY <1>1, <2>3
  <2>5. /\ call.first + i \in 0 .. Sectors - 1 /\ call.write \in BOOLEAN
        /\ call.first \in Nat /\ call.count \in Nat
    <3>1. /\ call.write \in BOOLEAN /\ call.first \in 0 .. Sectors - 1 /\ call.count \in 1 .. MaxRead
          /\ call.first + call.count <= Sectors
      BY <2>4 DEF D!Calls
    <3> QED
      BY <2>2, <3>1, Geometry
  <2>6. CASE call.write
    <3>1. stored' = [stored EXCEPT ![call.first + i] = buffer[i]] /\ buffer' = buffer
      BY <2>1, <2>6 DEF D!MoveSector
    <3>2. stored' \in [0 .. Sectors - 1 -> Sector]
      BY <1>1, <2>5, <3>1
    <3>3. \A s \in 0 .. Sectors - 1 : stored'[s] # stored[s] => s = call.first + i /\ stored'[s] = buffer[i]
      BY <1>1, <3>1
    <3> QED
      BY <1>1, <2>2, <2>3, <2>6, <3>1, <3>2, <3>3 DEF DiskStep
  <2>7. CASE ~call.write
    <3>1. buffer' = [buffer EXCEPT ![i] = stored[call.first + i]] /\ stored' = stored
      BY <2>1, <2>7 DEF D!MoveSector
    <3>2. buffer' \in [0 .. MaxRead - 1 -> Sector]
      BY <1>1, <2>5, <3>1
    <3> QED
      BY <1>1, <2>2, <2>3, <2>7, <3>1, <3>2 DEF DiskStep
  <2> QED
    BY <2>5, <2>6, <2>7
<1>3. CASE \E r \in BOOLEAN : D!Return(r)
  <2>1. PICK r \in BOOLEAN : D!Return(r)
    BY <1>3
  <2>2. call # D!NoCall /\ call' = D!NoCall /\ answer' = r /\ UNCHANGED <<stored, buffer>>
    BY <2>1 DEF D!Return
  <2>3. r => \A i \in 0 .. call.count - 1 : buffer[i] = stored[call.first + i]
    BY <2>1 DEF D!Return, D!Agrees
  <2> QED
    BY <1>1, <2>2, <2>3 DEF DiskStep
<1> QED
  BY <1>2, <1>3 DEF DiskStep

\* Every step keeps the types.
LEMMA NextTypes == TypeOK /\ Operation /\ Call /\ Places /\ [Next]_vars => TypeOK'
<1> SUFFICES ASSUME TypeOK, Operation, Call, Places, [Next]_vars PROVE DiskTyped' /\ PagesTyped' /\ StateTyped'
  BY Typed, PTL
<1>0. DiskTyped /\ PagesTyped /\ StateTyped
  BY Typed
<1> USE <1>0 DEF Running, Buffered, Mounting
<1>1. CASE TakePage
  <2>1. 1 \in 1 .. Pages
    BY Geometry
  <2>2. /\ block' \subseteq 0 .. Pages - 1 /\ free' \subseteq free /\ held \subseteq held'
        /\ held' \subseteq held \cup {block'} /\ refused' \in BOOLEAN /\ trouble' \in BOOLEAN
    BY <1>1, <2>1, RequestGives DEF TakePage, StateTyped, pool
  <2>3. kept' \subseteq held'
    BY <1>1, <2>2 DEF TakePage, PagesTyped
  <2>4. DiskTyped'
    BY <1>1 DEF TakePage, disk, DiskTyped
  <2>5. PagesTyped'
    BY <2>2, <2>3 DEF PagesTyped
  <2>6. pc' \in {"temp2", "port", "boot", "root", "file", "lookup", "idle"}
    BY <1>1, Domain DEF TakePage
  <2> QED
    BY <1>1, <2>2, <2>4, <2>5, <2>6 DEF TakePage, StateTyped, request
<1>2. CASE ReadBootSector
  <2>1. call' \in D!Calls /\ buffer' \in [0 .. MaxRead - 1 -> Sector] /\ UNCHANGED <<stored, answer>>
    BY <1>2, BlankTyped, BootCallTyped DEF ReadBootSector, D!Begin
  <2> QED
    BY <1>2, <2>1 DEF ReadBootSector, DiskTyped, PagesTyped, StateTyped, pool, request
<1>3. CASE CheckBootSector
  BY <1>3 DEF CheckBootSector, DiskTyped, PagesTyped, StateTyped, disk, pool, request
<1>4. CASE Leave
  <2>1. /\ pc = "leave" /\ pc' = "tree" /\ UNCHANGED <<disk, withdrawn, total_clusters, request, result>>
        /\ UNCHANGED <<block, kept, refused, trouble, writes>>
    BY <1>4 DEF Leave
  <2>2. CASE held = kept
    <3>1. free' = free \cup {0} /\ held' = held \ {{0}} /\ {0} \notin kept
      BY <1>4, <2>1, <2>2 DEF Leave, P!GiveBack, Places
    <3>2. 0 \in 0 .. Pages - 1
      BY Geometry
    <3>3. PagesTyped'
      BY <2>1, <2>2, <3>1, <3>2 DEF PagesTyped
    <3> QED
      BY <2>1, <3>3 DEF DiskTyped, StateTyped, disk, request
  <2>3. CASE held # kept
    <3>1. \E b \in held : b \notin kept
      BY <2>3 DEF PagesTyped
    <3>2. PICK b \in held : b \notin kept /\ free' = free \cup b /\ held' = held \ {b}
      BY <1>4, <2>3, <3>1 DEF Leave, P!GiveBack
    <3> QED
      BY <2>1, <3>2 DEF DiskTyped, PagesTyped, StateTyped, disk, request
  <2> QED
    BY <2>2, <2>3
<1>5. CASE \E c \in 0 .. TotalClusters + 1 : LookUp(c)
  BY <1>5 DEF LookUp, DiskTyped, PagesTyped, StateTyped, disk, pool
<1>6. CASE RequestBuffer
  <2>1. Run \in 1 .. Pages
    BY Geometry
  <2>2. /\ block' \subseteq 0 .. Pages - 1 /\ free' \subseteq free /\ held \subseteq held'
        /\ held' \subseteq held \cup {block'} /\ refused' \in BOOLEAN /\ trouble' \in BOOLEAN
    BY <1>6, <2>1, RequestGives DEF RequestBuffer, StateTyped, pool
  <2> QED
    BY <1>6, <2>2 DEF RequestBuffer, DiskTyped, PagesTyped, StateTyped, disk, request
<1>7. CASE ReadTable
  <2>1. call' \in D!Calls /\ buffer' \in [0 .. MaxRead - 1 -> Sector] /\ UNCHANGED <<stored, answer>>
    BY <1>7, BlankTyped, CallTyped DEF ReadTable, Post, CallOf, D!Begin, Operation
  <2> QED
    BY <1>7, <2>1 DEF ReadTable, DiskTyped, PagesTyped, StateTyped, pool, request
<1>8. CASE UseTable
  <2>1. pc = "reading" /\ cluster \in 2 .. TotalClusters
    BY <1>8 DEF UseTable, Operation
  <2>2. 0 \in 0 .. MaxRead - 1 /\ cluster % PerSector \in 0 .. PerSector - 1
    BY <2>1, Geometry
  <2>3. buffer[0] \in [0 .. PerSector - 1 -> Values]
    BY <2>2 DEF DiskTyped, Sector
  <2>4. trouble' \in BOOLEAN
    BY <1>8 DEF UseTable, StateTyped, DiskTyped
  <2>5. CASE op = "write"
    <3>1. call' \in D!Calls /\ UNCHANGED <<stored, answer>>
      BY <1>8, <2>1, <2>5, CallTyped DEF UseTable, Post, CallOf, D!Begin
    <3>2. buffer' = Changed /\ Low(value) \in Values
      BY <1>8, <2>5, Geometry DEF UseTable, StateTyped
    <3>3. [buffer[0] EXCEPT ![cluster % PerSector] = Low(value)] \in Sector
      BY <2>2, <2>3, <3>2 DEF Sector
    <3>4. Changed = [buffer EXCEPT ![0] = [buffer[0] EXCEPT ![cluster % PerSector] = Low(value)]]
      BY DEF Changed
    <3>5. buffer' \in [0 .. MaxRead - 1 -> Sector]
      BY <2>2, <3>2, <3>3, <3>4 DEF DiskTyped
    <3> QED
      BY <1>8, <2>4, <2>5, <3>1, <3>5 DEF UseTable, DiskTyped, PagesTyped, StateTyped, pool, request
  <2>6. CASE op # "write"
    <3>1. result' \in Nat /\ UNCHANGED disk
      BY <1>8, <2>2, <2>3, <2>6, Geometry DEF UseTable
    <3> QED
      BY <1>8, <2>4, <2>6, <3>1 DEF UseTable, DiskTyped, PagesTyped, StateTyped, pool, request, disk
  <2> QED
    BY <2>5, <2>6
<1>9. CASE Written
  BY <1>9 DEF Written, DiskTyped, PagesTyped, StateTyped, disk, pool, request
<1>10. CASE FreeBuffer
  <2>1. /\ pc = "free" /\ free' = free \cup block /\ held' = held \ {block} /\ block' = {}
        /\ buffer' = Blank /\ UNCHANGED <<stored, call, answer, total_clusters, op, value, kept>>
        /\ UNCHANGED <<refused, trouble, writes>>
    BY <1>10 DEF FreeBuffer, P!GiveBack
  <2>2. block \notin kept
    BY <2>1 DEF Places
  <2>3. cluster \in 2 .. TotalClusters
    BY <2>1 DEF Operation
  <2>4. pc' \in {"request", "leave", "idle"} /\ cluster' \in 0 .. TotalClusters + 1 /\ result' \in Nat
    BY <1>10, <2>3, Geometry DEF FreeBuffer, StateTyped
  <2> QED
    BY <2>1, <2>2, <2>4, BlankTyped DEF DiskTyped, PagesTyped, StateTyped
<1>11. CASE DiskStep
  BY <1>11, DiskMoves DEF PagesTyped, StateTyped, pool, request
<1>12. CASE \E o \in {"read", "write", "find"}, c \in 0 .. TotalClusters + 1, v \in Values : Start(o, c, v)
  <2>1. PICK o \in {"read", "write", "find"}, c \in 0 .. TotalClusters + 1, v \in Values : Start(o, c, v)
    BY <1>12
  <2>2. writes' \in 0 .. MaxWrites
    BY <2>1, Geometry DEF Start, StateTyped
  <2> QED
    BY <2>1, <2>2 DEF Start, DiskTyped, PagesTyped, StateTyped, disk, pool
<1>13. CASE UNCHANGED vars
  BY <1>13 DEF vars, DiskTyped, PagesTyped, StateTyped, disk, pool, request
<1> QED
  BY <1>1, <1>2, <1>3, <1>4, <1>5, <1>6, <1>7, <1>8, <1>9, <1>10, <1>11, <1>12, <1>13 DEF Next, Mount

-----------------------------------------------------------------------------
(* Operation, call and blocks. *)

\* The constructor is the first operation, and no call is open.
LEMMA InitOperation == Init => Operation /\ Call
  BY Domain DEF Init, Operation, Call, Mounting, Running, Buffered

\* Each step of an operation leaves it where the next one expects it.
LEMMA NextOperation == TypeOK /\ Operation /\ [Next]_vars => Operation'
<1> SUFFICES ASSUME TypeOK, Operation, [Next]_vars PROVE Operation'
  OBVIOUS
<1>0. StateTyped
  BY Typed
<1> USE <1>0, Domain DEF Operation, Running, Buffered, Mounting, request, StateTyped
<1>1. CASE TakePage
  BY <1>1 DEF TakePage
<1>2. CASE ReadBootSector
  BY <1>2 DEF ReadBootSector
<1>3. CASE CheckBootSector
  BY <1>3 DEF CheckBootSector
<1>4. CASE Leave
  BY <1>4 DEF Leave
<1>5. CASE \E c \in 0 .. TotalClusters + 1 : LookUp(c)
  <2>1. PICK c \in 0 .. TotalClusters + 1 : LookUp(c)
    BY <1>5
  <2> QED
    BY <2>1, Geometry DEF LookUp
<1>6. CASE RequestBuffer
  BY <1>6 DEF RequestBuffer
<1>7. CASE ReadTable
  BY <1>7 DEF ReadTable
<1>8. CASE UseTable
  BY <1>8 DEF UseTable
<1>9. CASE Written
  BY <1>9 DEF Written
<1>10. CASE FreeBuffer
  <2>1. CASE SearchGoesOn
    <3>1. op = "find" /\ total_clusters = TotalClusters /\ cluster + 1 \in 2 .. TotalClusters
      BY <1>10, <2>1, Geometry DEF FreeBuffer, SearchGoesOn
    <3> QED
      BY <1>10, <2>1, <3>1 DEF FreeBuffer
  <2>2. CASE ~SearchGoesOn
    BY <1>10, <2>2 DEF FreeBuffer
  <2> QED
    BY <2>1, <2>2
<1>11. CASE DiskStep
  BY <1>11 DEF DiskStep
<1>12. CASE \E o \in {"read", "write", "find"}, c \in 0 .. TotalClusters + 1, v \in Values : Start(o, c, v)
  <2>1. PICK o \in {"read", "write", "find"}, c \in 0 .. TotalClusters + 1, v \in Values : Start(o, c, v)
    BY <1>12
  <2>2. /\ pc = "idle" /\ op' = o /\ cluster' = c /\ total_clusters' = total_clusters
        /\ pc' \in {"idle", "request"} /\ (pc' = "request" => InTable(c))
    BY <2>1 DEF Start
  <2>3. InTable(c) => c \in 2 .. TotalClusters /\ total_clusters = TotalClusters
    BY Geometry DEF InTable
  <2> QED
    BY <2>2, <2>3
<1>13. CASE UNCHANGED vars
  BY <1>13 DEF vars
<1> QED
  BY <1>1, <1>2, <1>3, <1>4, <1>5, <1>6, <1>7, <1>8, <1>9, <1>10, <1>11, <1>12, <1>13 DEF Next, Mount

\* The call posted to the disk is the one the operation waits for.
LEMMA NextCall == TypeOK /\ Operation /\ Call /\ [Next]_vars => Call'
<1> SUFFICES ASSUME TypeOK, Operation, Call, [Next]_vars PROVE Call'
  OBVIOUS
<1> USE DEF Call, CallOf, FatSector
<1>1. CASE TakePage
  BY <1>1, Domain DEF TakePage, disk
<1>2. CASE ReadBootSector
  BY <1>2 DEF ReadBootSector, D!Begin
<1>3. CASE CheckBootSector
  BY <1>3 DEF CheckBootSector, disk
<1>4. CASE Leave
  BY <1>4 DEF Leave, disk
<1>5. CASE \E c \in 0 .. TotalClusters + 1 : LookUp(c)
  BY <1>5 DEF LookUp, disk
<1>6. CASE RequestBuffer
  BY <1>6 DEF RequestBuffer, disk
<1>7. CASE ReadTable
  BY <1>7 DEF ReadTable, Post, D!Begin, request
<1>8. CASE UseTable
  <2>1. CASE op = "write"
    BY <1>8, <2>1 DEF UseTable, Post, D!Begin, request
  <2>2. CASE op # "write"
    BY <1>8, <2>2 DEF UseTable, disk
  <2> QED
    BY <2>1, <2>2
<1>9. CASE Written
  BY <1>9 DEF Written, disk
<1>10. CASE FreeBuffer
  BY <1>10 DEF FreeBuffer
<1>11. CASE DiskStep
  BY <1>11, DiskMoves DEF request
<1>12. CASE \E o \in {"read", "write", "find"}, c \in 0 .. TotalClusters + 1, v \in Values : Start(o, c, v)
  BY <1>12 DEF Start, disk
<1>13. CASE UNCHANGED vars
  BY <1>13 DEF vars, disk, request
<1> QED
  BY <1>1, <1>2, <1>3, <1>4, <1>5, <1>6, <1>7, <1>8, <1>9, <1>10, <1>11, <1>12, <1>13 DEF Next, Mount

\* At first no page is in use.
LEMMA InitPlaces == Init => Places
<1> SUFFICES ASSUME Init PROVE Places
  OBVIOUS
<1>1. held = {} /\ kept = {} /\ pc = "temp1" /\ free = Run .. Pages - 1
  BY Zenon DEF Init
<1>2. 0 \notin free
  BY <1>1, Geometry
<1> QED
  BY <1>1, <1>2 DEF Places, Buffered

\* Buffers keep their place as long as the operation holds them.
LEMMA NextPlaces == TypeOK /\ Operation /\ Places /\ [Next]_vars => Places'
<1> SUFFICES ASSUME TypeOK, Operation, Places, [Next]_vars PROVE Places'
  OBVIOUS
<1>0. StateTyped /\ PagesTyped
  BY Typed
<1> USE <1>0, Domain DEF Places, Running, Buffered, Mounting
<1>1. CASE TakePage
  <2>1. 1 \in 1 .. Pages
    BY Geometry
  <2>2. PICK f \in 0 .. Pages - 1 : block' = f .. f + 1 - 1
    BY <1>1, <2>1, RequestGives DEF TakePage
  <2>3. block' = {f}
    BY <2>2
  <2>4. \/ f \in free /\ free' = free \ {f} /\ held' = held \cup {{f}}
        \/ UNCHANGED <<free, held>>
    BY <1>1, <2>1, <2>3, RequestGives DEF TakePage, pool
  <2>5. kept' \subseteq kept \cup {{f}}
    BY <1>1, <2>4 DEF TakePage
  <2>6. op' = op /\ pc' = AfterPage[pc] /\ pc \in DOMAIN AfterPage
    BY <1>1 DEF TakePage, request
  <2>7. CASE pc = "tree"
    BY <2>4, <2>5, <2>6, <2>7
  <2>8. CASE pc # "tree"
    <3>1. 0 \notin free /\ {0} \notin held
      BY <2>6, <2>8
    <3>2. 0 \notin free' /\ {0} \notin held'
      BY <2>4, <3>1
    <3>3. pc' \in {"temp2", "port", "boot", "root", "file", "lookup"}
      BY <2>6, <2>8
    <3> QED
      BY <2>5, <3>2, <3>3
  <2> QED
    BY <2>7, <2>8
<1>2. CASE ReadBootSector
  BY <1>2 DEF ReadBootSector, pool, request
<1>3. CASE CheckBootSector
  BY <1>3 DEF CheckBootSector, pool, request, Operation
<1>4. CASE Leave
  BY <1>4 DEF Leave, P!GiveBack
<1>5. CASE \E c \in 0 .. TotalClusters + 1 : LookUp(c)
  BY <1>5 DEF LookUp, pool
<1>6. CASE RequestBuffer
  <2>1. Run \in 1 .. Pages /\ Run \in Nat /\ Run >= 2
    BY Geometry
  <2>2. PICK f \in 0 .. Pages - 1 : block' = f .. f + Run - 1
    BY <1>6, <2>1, RequestGives DEF RequestBuffer
  <2>3. {f, f + 1} \subseteq block' /\ f # f + 1
    BY <2>1, <2>2
  <2>4. held' \subseteq held \cup {block'} /\ block' # {0}
    BY <1>6, <2>1, <2>3, RequestGives DEF RequestBuffer, pool
  <2>5. UNCHANGED <<op, kept>> /\ pc = "request" /\ pc' = "fill"
    BY <1>6 DEF RequestBuffer, request
  <2> QED
    BY <2>3, <2>4, <2>5
<1>7. CASE ReadTable
  BY <1>7 DEF ReadTable, pool, request
<1>8. CASE UseTable
  BY <1>8 DEF UseTable, pool, request
<1>9. CASE Written
  BY <1>9 DEF Written, pool, request
<1>10. CASE FreeBuffer
  BY <1>10 DEF FreeBuffer, P!GiveBack
<1>11. CASE DiskStep
  BY <1>11 DEF DiskStep, pool, request
<1>12. CASE \E o \in {"read", "write", "find"}, c \in 0 .. TotalClusters + 1, v \in Values : Start(o, c, v)
  <2>1. /\ UNCHANGED <<held, free, kept, block>> /\ op' \in {"read", "write", "find"}
        /\ pc' \in {"idle", "request"}
    BY <1>12 DEF Start, pool
  <2> QED
    BY <2>1
<1>13. CASE UNCHANGED vars
  BY <1>13 DEF vars, pool, request
<1> QED
  BY <1>1, <1>2, <1>3, <1>4, <1>5, <1>6, <1>7, <1>8, <1>9, <1>10, <1>11, <1>12, <1>13 DEF Next, Mount

-----------------------------------------------------------------------------
(* Who has the pages. *)

\* A block of free pages is handed out: nobody had it.
LEMMA ApartTaken ==
  ASSUME Apart, block' \subseteq free, block' # {}, free' = free \ block', held' = held \cup {block'},
         withdrawn' = withdrawn
  PROVE  Apart' /\ block' \notin held
  BY DEF Apart

\* A block comes back.
LEMMA ApartReturned ==
  ASSUME Apart, NEW b \in held, free' = free \cup b, held' = held \ {b}, withdrawn' = withdrawn
  PROVE  Apart'
  BY DEF Apart

\* At first every page above the first run is free, and none is held.
LEMMA InitOwners == Init => Owners
<1> SUFFICES ASSUME Init PROVE Owners
  OBVIOUS
<1>1. held = {} /\ kept = {} /\ pc = "temp1" /\ free = Run .. Pages - 1 /\ withdrawn = 0 .. Run - 1
  BY Zenon DEF Init
<1>2. free \cap withdrawn = {}
  BY <1>1, Geometry
<1> QED
  BY <1>1, <1>2 DEF Owners, Apart, Buffered

\* Every page an operation took is given back, and none that it did not take.
LEMMA NextOwners == TypeOK /\ Operation /\ Owners /\ [Next]_vars => Owners'
<1> SUFFICES ASSUME TypeOK, Operation, Owners, [Next]_vars, ~refused' PROVE Owners'
  BY DEF Owners
<1>0. StateTyped /\ PagesTyped
  BY Typed
<1> USE <1>0, Domain DEF Owners, Holding, Running, Buffered, Mounting
<1>1. CASE TakePage
  <2>1. 1 \in 1 .. Pages
    BY Geometry
  <2>2. PICK f \in 0 .. Pages - 1 : block' = f .. f + 1 - 1
    BY <1>1, <2>1, RequestGives DEF TakePage
  <2>3. block' = {f}
    BY <2>2
  <2>4. /\ block' \subseteq free /\ free' = free \ block' /\ held' = held \cup {block'}
        /\ UNCHANGED <<withdrawn, refused>>
    BY <1>1, <2>1, RequestGives DEF TakePage
  <2>5. held = kept /\ Apart
    BY <1>1, <2>4 DEF TakePage
  <2>6. Apart' /\ block' \notin held
    BY <2>3, <2>4, <2>5, ApartTaken
  <2>7. pc' = AfterPage[pc] /\ kept' = (IF pc = "file" THEN kept ELSE kept \cup (held' \ held))
    BY <1>1 DEF TakePage
  <2>8. CASE pc = "file"
    <3>1. held' = kept' \cup {{f}} /\ kept' \cap {{f}} = {} /\ pc' = "lookup"
      BY <2>3, <2>4, <2>5, <2>6, <2>7, <2>8
    <3> QED
      BY <2>6, <3>1
  <2>9. CASE pc # "file"
    <3>1. kept' = held'
      BY <2>4, <2>5, <2>7, <2>9
    <3>2. pc' \in {"temp2", "port", "boot", "root", "file", "idle"}
      BY <1>1, <2>7, <2>9 DEF TakePage
    <3> QED
      BY <2>6, <3>1, <3>2
  <2> QED
    BY <2>8, <2>9
<1>2. CASE ReadBootSector
  BY <1>2 DEF ReadBootSector, pool, request, Apart
<1>3. CASE CheckBootSector
  BY <1>3 DEF CheckBootSector, pool, request, Apart
<1>4. CASE Leave
  <2>1. pc = "leave" /\ pc' = "tree" /\ UNCHANGED <<withdrawn, block, kept, refused>>
    BY <1>4 DEF Leave
  <2>2. PICK f \in 0 .. Pages - 1 : held = kept \cup {{f}} /\ kept \cap {{f}} = {}
    BY <2>1
  <2>3. {f} \in held /\ {f} \notin kept /\ \A b \in held : b \notin kept => b = {f}
    BY <2>2
  <2>4. held # kept /\ (CHOOSE b \in held : b \notin kept) = {f}
    BY <2>3
  <2>5. free' = free \cup {f} /\ held' = held \ {{f}}
    BY <1>4, <2>4 DEF Leave, P!GiveBack
  <2>6. Apart'
    BY <2>1, <2>3, <2>5, ApartReturned
  <2>7. held' = kept'
    BY <2>1, <2>2, <2>5
  <2> QED
    BY <2>1, <2>6, <2>7
<1>5. CASE \E c \in 0 .. TotalClusters + 1 : LookUp(c)
  <2>1. /\ UNCHANGED <<held, free, withdrawn, kept, block, refused, op>> /\ op = "mount"
        /\ pc = "lookup" /\ pc' \in {"request", "leave"}
    BY <1>5 DEF LookUp, pool, Operation
  <2>2. Apart'
    BY <2>1 DEF Apart
  <2> QED
    BY <2>1, <2>2
<1>6. CASE RequestBuffer
  <2>1. Run \in 1 .. Pages /\ Run \in Nat /\ Run >= 2
    BY Geometry
  <2>2. PICK g \in 0 .. Pages - 1 : block' = g .. g + Run - 1
    BY <1>6, <2>1, RequestGives DEF RequestBuffer
  <2>3. block' # {}
    <3>1. g \in g .. g + Run - 1
      BY <2>1
    <3> QED
      BY <2>2, <3>1
  <2>4. /\ block' \subseteq free /\ free' = free \ block' /\ held' = held \cup {block'}
        /\ UNCHANGED <<withdrawn, refused, kept, op>> /\ pc = "request" /\ pc' = "fill"
    <3>1. Request(Run) /\ UNCHANGED <<kept, op>> /\ pc = "request" /\ pc' = "fill"
      BY <1>6 DEF RequestBuffer, request
    <3>2. /\ block' \subseteq free /\ free' = free \ block' /\ held' = held \cup {block'}
          /\ UNCHANGED <<withdrawn, refused>>
      BY <2>1, <3>1, RequestGives
    <3> QED
      BY <3>1, <3>2
  <2> HIDE <2>2
  <2>5. Apart' /\ block' \notin held
    BY <2>3, <2>4, ApartTaken
  <2>6. CASE op = "mount"
    <3>1. PICK f \in 0 .. Pages - 1 : held = kept \cup {{f}} /\ kept \cap {{f}} = {}
      BY <2>4, <2>6
    <3>2. {f} # block' /\ held' = kept' \cup {{f}, block'} /\ kept' \cap {{f}, block'} = {}
      BY <2>4, <2>5, <3>1
    <3> QED
      BY <2>4, <2>5, <2>6, <3>2
  <2>7. CASE op # "mount"
    <3>1. held' = kept' \cup {block'} /\ kept' \cap {block'} = {}
      BY <2>4, <2>5, <2>7
    <3> QED
      BY <2>4, <2>5, <2>7, <3>1
  <2> QED
    BY <2>6, <2>7
<1>7. CASE ReadTable
  BY <1>7 DEF ReadTable, pool, request, Apart
<1>8. CASE UseTable
  BY <1>8 DEF UseTable, pool, request, Apart
<1>9. CASE Written
  BY <1>9 DEF Written, pool, request, Apart
<1>10. CASE FreeBuffer
  <2>1. /\ pc = "free" /\ free' = free \cup block /\ held' = held \ {block} /\ UNCHANGED <<withdrawn, op, kept, refused>>
    BY <1>10 DEF FreeBuffer, P!GiveBack
  <2>2. block \in held
    BY <2>1
  <2>3. Apart'
    BY <2>1, <2>2, ApartReturned
  <2>4. CASE op = "mount"
    <3>1. PICK f \in 0 .. Pages - 1 : held = kept \cup {{f}, block} /\ kept \cap {{f}, block} = {} /\ {f} # block
      BY <2>1, <2>4
    <3>2. held' = kept' \cup {{f}} /\ kept' \cap {{f}} = {}
      BY <2>1, <3>1
    <3>3. pc' = "leave"
      BY <1>10, <2>4 DEF FreeBuffer, SearchGoesOn
    <3> QED
      BY <2>3, <3>2, <3>3
  <2>5. CASE op # "mount"
    <3>1. held' = kept'
      BY <2>1, <2>5
    <3>2. pc' \in {"request", "idle"} /\ op' # "mount"
      BY <1>10, <2>1, <2>5 DEF FreeBuffer
    <3> QED
      BY <2>3, <3>1, <3>2
  <2> QED
    BY <2>4, <2>5
<1>11. CASE DiskStep
  <2>1. UNCHANGED <<held, free, withdrawn, kept, block, refused, op, pc>>
    BY <1>11 DEF DiskStep, pool, request
  <2>2. Apart'
    BY <2>1 DEF Apart
  <2> QED
    BY <2>1, <2>2
<1>12. CASE \E o \in {"read", "write", "find"}, c \in 0 .. TotalClusters + 1, v \in Values : Start(o, c, v)
  <2>1. /\ UNCHANGED <<held, free, withdrawn, kept, block, refused>> /\ op' \in {"read", "write", "find"}
        /\ pc = "idle" /\ pc' \in {"idle", "request"}
    BY <1>12 DEF Start, pool
  <2>2. Apart' /\ held = kept
    BY <2>1 DEF Apart
  <2> QED
    BY <2>1, <2>2
<1>13. CASE UNCHANGED vars
  BY <1>13 DEF vars, pool, request, Apart
<1> QED
  BY <1>1, <1>2, <1>3, <1>4, <1>5, <1>6, <1>7, <1>8, <1>9, <1>10, <1>11, <1>12, <1>13 DEF Next, Mount

-----------------------------------------------------------------------------
(* What has been read and written. *)

\* The disk changes only while an operation writes, and then only the sector of
\* its cluster.
LEMMA StoredKept ==
  ASSUME TypeOK, Operation, Call, [Next]_vars
  PROVE  /\ ~(pc = "writing" /\ DiskStep) => stored' = stored
         /\ DiskStep /\ pc = "writing" =>
               /\ buffer' = buffer /\ op = "write"
               /\ \A s \in 0 .. Sectors - 1 : stored'[s] # stored[s] => s = Sector0 /\ stored'[s] = buffer[0]
<1>0. StateTyped
  BY Typed
<1>1. CASE DiskStep
  <2>1. CASE pc = "writing"
    <3>1. op = "write" /\ call = CallOf(TRUE)
      BY <1>1, <2>1, DiskMoves DEF Call, Operation
    <3>2. call.write /\ call.count = 1 /\ call.first = Sector0
      BY <3>1 DEF CallOf, Sector0
    <3>3. \A i \in 0 .. call.count - 1 : i = 0
      BY <3>2
    <3>4. Sector0 \in Nat
      BY <1>0, Geometry DEF Sector0, StateTyped
    <3>5. ASSUME NEW s \in 0 .. Sectors - 1, stored'[s] # stored[s]
          PROVE  s = Sector0 /\ stored'[s] = buffer[0]
      <4>1. PICK i \in 0 .. call.count - 1 : s = call.first + i /\ stored'[s] = buffer[i]
        BY <1>1, <3>5, DiskMoves
      <4>2. i = 0
        BY <3>3
      <4> QED
        BY <3>2, <3>4, <4>1, <4>2
    <3>6. buffer' = buffer
      BY <1>1, <3>2, DiskMoves
    <3>7. \A s \in 0 .. Sectors - 1 : stored'[s] # stored[s] => s = Sector0 /\ stored'[s] = buffer[0]
      BY <3>5
    <3> QED
      BY <1>1, <2>1, <3>1, <3>6, <3>7
  <2>2. CASE pc # "writing"
    <3>1. ~call.write
      BY <1>1, <2>2, DiskMoves DEF Call, CallOf
    <3> QED
      BY <1>1, <2>2, <3>1, DiskMoves
  <2> QED
    BY <2>1, <2>2
<1>2. CASE ~DiskStep
  BY <1>2 DEF Next, Mount, TakePage, ReadBootSector, CheckBootSector, Leave, LookUp, RequestBuffer, ReadTable,
    UseTable, Post, Written, FreeBuffer, Start, vars, disk, D!Begin
<1> QED
  BY <1>1, <1>2

\* The names the operation has for its entry do not change while it runs.
LEMMA SamePlace ==
  ASSUME cluster' = cluster
  PROVE  /\ Sector0' = Sector0 /\ Place' = Place
         /\ stored' = stored => Entry(cluster)' = Entry(cluster)
  BY DEF Sector0, Place, FatSector, Entry

\* At first nothing has been read or passed over.
LEMMA InitRead == Init => Read /\ Passed
<1> SUFFICES ASSUME Init PROVE Read /\ Passed
  OBVIOUS
<1>1. pc = "temp1" /\ op = "mount"
  BY Zenon DEF Init
<1> QED
  BY <1>1 DEF Read, Passed

\* Behind a read that succeeded the buffer is what the disk holds.
LEMMA NextRead == TypeOK /\ Operation /\ Call /\ Read /\ [Next]_vars => Read'
<1> SUFFICES ASSUME TypeOK, Operation, Call, Read, [Next]_vars, ~trouble' PROVE Read'
  BY DEF Read
<1>0. StateTyped /\ DiskTyped /\ D!NoCall \notin D!Calls
  BY Typed DEF D!NoCall, D!Calls
<1> USE <1>0
<1>1. CASE pc' \notin {"reading", "writing", "free"}
  BY <1>1 DEF Read
<1>2. CASE ReadTable
  <2>1. call' # D!NoCall /\ pc' = "reading"
    BY <1>2, CallTyped DEF ReadTable, Post, CallOf, D!Begin, Operation, Running, Buffered
  <2> QED
    BY <2>1 DEF Read
<1>3. CASE UseTable
  <2>1. /\ pc = "reading" /\ call = D!NoCall /\ answer /\ ~trouble
        /\ UNCHANGED <<stored, op, cluster, value>>
    BY <1>3 DEF UseTable, request, Post, D!Begin, disk
  <2>2. buffer[0] = stored[Sector0]
    BY <2>1 DEF Read
  <2>3. cluster \in 2 .. TotalClusters
    BY <2>1 DEF Operation, Running, Buffered
  <2>4. 0 \in 0 .. MaxRead - 1 /\ Place \in 0 .. PerSector - 1
    BY <2>3, Geometry DEF Place
  <2>5. buffer[0] \in [0 .. PerSector - 1 -> Values]
    BY <2>4 DEF DiskTyped, Sector
  <2>6. CASE op = "write"
    <3>1. call' # D!NoCall /\ pc' = "writing" /\ buffer' = Changed
      BY <1>3, <2>3, <2>6, CallTyped DEF UseTable, Post, CallOf, D!Begin
    <3>2. buffer' = [buffer EXCEPT ![0] = [buffer[0] EXCEPT ![Place] = Low(value)]]
      BY <3>1 DEF Changed, Place
    <3>3. buffer'[0] = [buffer[0] EXCEPT ![Place] = Low(value)]
      BY <2>4, <3>2 DEF DiskTyped
    <3>4. buffer'[0][Place] = Low(value) /\ \A j \in 0 .. PerSector - 1 : j # Place => buffer'[0][j] = buffer[0][j]
      BY <2>4, <2>5, <3>3
    <3> QED
      BY <2>1, <2>2, <3>1, <3>4, SamePlace DEF Read, Low
  <2>7. CASE op # "write"
    <3>1. pc' = "free" /\ result' = Low(buffer[0][Place])
      BY <1>3, <2>7 DEF UseTable, Place
    <3>2. Entry(cluster)' = buffer[0][Place]
      BY <2>1, <2>2, SamePlace DEF Entry, Sector0, Place
    <3> QED
      BY <2>1, <2>7, <3>1, <3>2 DEF Read, Low
  <2> QED
    BY <2>6, <2>7
<1>4. CASE Written
  <2>1. /\ pc = "writing" /\ pc' = "free" /\ call = D!NoCall /\ answer /\ ~trouble
        /\ UNCHANGED <<stored, op, cluster, value>>
    BY <1>4 DEF Written, disk, request
  <2>2. op' = "write" /\ Entry(cluster)' = Low(value)
    BY <2>1, SamePlace DEF Read, Operation, Entry, Sector0, Place
  <2> QED
    BY <2>1, <2>2 DEF Read, Low
<1>5. CASE DiskStep
  <2>1. UNCHANGED <<pc, op, cluster, value, result, trouble>> /\ call # D!NoCall
    BY <1>5, DiskMoves DEF request
  <2>2. CASE pc = "reading"
    <3>1. call.first = Sector0 /\ call.count \in Nat \ {0} /\ ~call.write
      BY <2>1, <2>2, Geometry DEF Call, CallOf, Sector0
    <3>2. stored' = stored /\ (call' = call \/ (call' = D!NoCall /\ buffer' = buffer))
      BY <1>5, <3>1, DiskMoves
    <3>3. call' = D!NoCall /\ answer' => buffer[0] = stored[Sector0]
      <4>1. Sector0 \in Nat /\ Sector0 + 0 = Sector0
        BY Geometry DEF Sector0, StateTyped
      <4>2. 0 \in 0 .. call.count - 1
        BY <3>1
      <4> QED
        BY <1>5, <3>1, <4>1, <4>2, DiskMoves
    <3> QED
      BY <2>1, <2>2, <3>2, <3>3, SamePlace DEF Read
  <2>3. CASE pc = "writing"
    <3>1. /\ buffer' = buffer /\ op = "write"
          /\ \A s \in 0 .. Sectors - 1 : stored'[s] # stored[s] => s = Sector0 /\ stored'[s] = buffer[0]
      BY <1>5, <2>3, StoredKept
    <3>2. call.first = Sector0 /\ call.count = 1
      BY <2>1, <2>3, <3>1 DEF Call, CallOf, Sector0
    <3>3. Sector0 \in 0 .. Sectors - 1
      BY <2>3, Geometry DEF Operation, Running, Buffered, Sector0
    <3>4. stored'[Sector0] = stored[Sector0] \/ stored'[Sector0] = buffer[0]
      BY <3>1, <3>3
    <3>5. call' = D!NoCall /\ answer' => buffer[0] = stored[Sector0]
      <4>1. 0 \in 0 .. call.count - 1 /\ call.first + 0 = Sector0
        BY <3>2, <3>3
      <4> QED
        BY <1>5, <4>1, DiskMoves
    <3>6. call' = D!NoCall => stored' = stored
      BY <1>5, <2>1, DiskMoves
    <3> QED
      BY <2>1, <2>3, <3>1, <3>4, <3>5, <3>6, SamePlace DEF Read, Low
  <2>4. CASE pc = "free"
    BY <2>1, <2>4 DEF Call
  <2> QED
    BY <1>1, <2>1, <2>2, <2>3, <2>4
<1>6. CASE UNCHANGED vars
  BY <1>6, SamePlace DEF vars, disk, request, Read, Low
<1>7. CASE TakePage \/ ReadBootSector \/ CheckBootSector \/ Leave
  BY <1>1, <1>7, Domain DEF TakePage, ReadBootSector, CheckBootSector, Leave
<1>8. CASE \E c \in 0 .. TotalClusters + 1 : LookUp(c)
  BY <1>1, <1>8 DEF LookUp
<1>9. CASE RequestBuffer \/ FreeBuffer
  BY <1>1, <1>9 DEF RequestBuffer, FreeBuffer
<1>10. CASE \E o \in {"read", "write", "find"}, c \in 0 .. TotalClusters + 1, v \in Values : Start(o, c, v)
  BY <1>1, <1>10 DEF Start
<1> QED
  BY <1>2, <1>3, <1>4, <1>5, <1>6, <1>7, <1>8, <1>9, <1>10 DEF Next, Mount

-----------------------------------------------------------------------------
(* The search. *)

\* The volume's clusters are among those the search looks at.
LEMMA Clusters == \A c \in DataClusters : c \in Nat /\ 2 <= c /\ c < TotalClusters
  BY VolumeAssumption, Geometry

\* A step of a search that is neither its call nor the end of a turn.
LEMMA SearchGoesAlong ==
  ASSUME TypeOK, Operation, Call, [Next]_vars, op = "find", op' = "find", ~FreeBuffer, pc # "idle"
  PROVE  /\ stored' = stored /\ (pc' \in Running => pc \in Running /\ cluster' = cluster)
         /\ (~trouble' => ~trouble) /\ pc' # "idle"
<1>0. StateTyped
  BY Typed
<1>1. pc \notin Mounting /\ pc # "writing"
  BY DEF Operation
<1>2. stored' = stored
  BY <1>1, StoredKept
<1> USE <1>0, <1>1, Domain DEF Running, Buffered, Mounting, request
<1>3. CASE RequestBuffer
  <2>1. Run \in 1 .. Pages
    BY Geometry
  <2>2. ~trouble' => ~trouble
    BY <1>3, <2>1, RequestGives DEF RequestBuffer
  <2> QED
    BY <1>2, <1>3, <2>2 DEF RequestBuffer
<1>4. CASE ReadTable
  BY <1>2, <1>4 DEF ReadTable
<1>8. CASE DiskStep
  BY <1>2, <1>8 DEF DiskStep
<1>9. CASE UNCHANGED vars
  BY <1>2, <1>9 DEF vars
<1>7. CASE UseTable
  <2>1. pc = "reading" /\ pc' = "free" /\ cluster' = cluster
    BY <1>7 DEF UseTable
  <2>2. trouble' = (trouble \/ ~answer)
    BY <1>7 DEF UseTable
  <2>3. ~trouble' => ~trouble
    BY <2>2, Zenon
  <2> QED
    BY <1>2, <2>1, <2>3
<1>5. CASE Mount \/ Written
  BY <1>5 DEF Mount, TakePage, ReadBootSector, CheckBootSector, Leave, LookUp, Written
<1>6. CASE \E o \in {"read", "write", "find"}, c \in 0 .. TotalClusters + 1, v \in Values : Start(o, c, v)
  BY <1>6 DEF Start
<1> QED
  BY <1>3, <1>4, <1>5, <1>6, <1>7, <1>8, <1>9 DEF Next

\* A search has passed over no free cluster.
LEMMA NextPassed == TypeOK /\ Operation /\ Call /\ Read /\ Passed /\ [Next]_vars => Passed'
<1> SUFFICES ASSUME TypeOK, Operation, Call, Read, Passed, [Next]_vars, op' = "find", ~trouble' PROVE Passed'
  BY DEF Passed
<1>0. StateTyped
  BY Typed
<1>1. CASE op = "find" /\ pc # "idle" /\ ~FreeBuffer
  <2>1. /\ stored' = stored /\ (pc' \in Running => pc \in Running /\ cluster' = cluster)
        /\ ~trouble /\ pc' # "idle"
    BY <1>1, SearchGoesAlong
  <2> QED
    BY <1>1, <2>1 DEF Passed, SearchFindsFree, Entry, Low, FatSector
<1>2. CASE FreeBuffer
  <2>1. /\ pc = "free" /\ op = "find" /\ ~trouble
        /\ UNCHANGED <<stored, total_clusters>>
    BY <1>2 DEF FreeBuffer
  <2>2. cluster \in 2 .. TotalClusters /\ total_clusters = TotalClusters
    BY <2>1 DEF Operation, Running, Buffered
  <2>3. result = Low(Entry(cluster)) /\ \A c \in DataClusters : c < cluster => Low(Entry(c)) # 0
    BY <2>1 DEF Read, Passed, Running, Buffered
  <2>4. \A c : Low(Entry(c))' = Low(Entry(c))
    BY <2>1 DEF Low, Entry, FatSector
  <2>5. CASE SearchGoesOn
    <3>1. result # 0 /\ cluster' = cluster + 1 /\ pc' = "request"
      BY <1>2, <2>5 DEF FreeBuffer, SearchGoesOn
    <3>2. \A c \in DataClusters : c < cluster + 1 => c < cluster \/ c = cluster
      BY <2>2, Clusters
    <3>3. \A c \in DataClusters : c < cluster' => Low(Entry(c)) # 0
      BY <2>3, <3>1, <3>2
    <3> QED
      BY <2>4, <3>1, <3>3 DEF Passed, SearchFindsFree
  <2>6. CASE ~SearchGoesOn
    <3>1. pc' = "idle" /\ result' = (IF result = 0 THEN cluster ELSE 0)
      BY <1>2, <2>1, <2>6 DEF FreeBuffer
    <3>2. result = 0 \/ ~(cluster + 1 < TotalClusters)
      BY <2>1, <2>2, <2>6 DEF SearchGoesOn
    <3>3. CASE result = 0
      <4>1. result' = cluster /\ cluster # 0 /\ Low(Entry(cluster)) = 0
        BY <2>2, <2>3, <3>1, <3>3
      <4>2. \A c \in DataClusters : Low(Entry(c)) = 0 => cluster <= c
        BY <2>2, <2>3, Clusters
      <4>3. SearchFindsFree'
        BY <2>4, <4>1, <4>2 DEF SearchFindsFree
      <4> QED
        BY <3>1, <4>3 DEF Passed, Running, Buffered
    <3>4. CASE result # 0
      <4>1. ASSUME NEW c \in DataClusters PROVE c < cluster \/ c = cluster
        <5>1. c \in Nat /\ c < TotalClusters /\ cluster \in Nat /\ TotalClusters \in Nat
          BY <2>2, Clusters, Geometry
        <5>2. ~(cluster + 1 < TotalClusters)
          BY <3>2, <3>4
        <5> QED
          BY <5>1, <5>2
      <4>2. \A c \in DataClusters : Low(Entry(c)) # 0
        BY <2>3, <3>4, <4>1
      <4>3. SearchFindsFree'
        BY <2>4, <3>1, <3>4, <4>2 DEF SearchFindsFree
      <4> QED
        BY <3>1, <4>3 DEF Passed, Running, Buffered
    <3> QED
      BY <3>3, <3>4
  <2> QED
    BY <2>5, <2>6
<1>3. CASE \E o \in {"read", "write", "find"}, c \in 0 .. TotalClusters + 1, v \in Values : Start(o, c, v)
  <2>1. PICK o \in {"read", "write", "find"}, c \in 0 .. TotalClusters + 1, v \in Values : Start(o, c, v)
    BY <1>3
  <2>2. /\ c = 2 /\ cluster' = 2 /\ result' = 0 /\ UNCHANGED <<stored, total_clusters>>
        /\ pc' = (IF 2 >= total_clusters \/ ~InTable(2) THEN "idle" ELSE "request")
    BY <2>1 DEF Start, disk
  <2>3. \A c1 \in DataClusters : ~(c1 < 2)
    BY Clusters
  <2>4. CASE pc' = "idle"
    <3>1. total_clusters # 0 => ~(2 < TotalClusters)
      BY <1>0, <2>2, <2>4, Geometry DEF InTable, StateTyped
    <3>2. total_clusters # 0 => DataClusters = {}
      BY <3>1, Clusters, Geometry
    <3> QED
      BY <2>2, <2>4, <3>2 DEF Passed, SearchFindsFree, Running, Buffered
  <2>5. CASE pc' # "idle"
    BY <2>2, <2>3, <2>5 DEF Passed, SearchFindsFree
  <2> QED
    BY <2>4, <2>5
<1>4. CASE pc = "idle" /\ UNCHANGED vars
  BY <1>4 DEF vars, disk, request, Passed, SearchFindsFree, Entry, Low, FatSector, Running, Buffered
<1>5. CASE pc = "idle" /\ DiskStep
  BY <1>5, DiskMoves DEF Call
<1>6. CASE op # "find" \/ pc = "idle"
  <2>1. CASE \E o \in {"read", "write", "find"}, c \in 0 .. TotalClusters + 1, v \in Values : Start(o, c, v)
    BY <1>3, <2>1
  <2>2. CASE ~\E o \in {"read", "write", "find"}, c \in 0 .. TotalClusters + 1, v \in Values : Start(o, c, v)
    <3>1. op' = op
      BY <2>2 DEF Next, Mount, TakePage, ReadBootSector, CheckBootSector, Leave, LookUp, RequestBuffer, ReadTable,
        UseTable, Written, FreeBuffer, DiskStep, vars, request
    <3>2. pc = "idle"
      BY <1>6, <3>1
    <3>3. DiskStep \/ UNCHANGED vars
      BY <2>2, <3>2, Domain DEF Next, Mount, TakePage, ReadBootSector, CheckBootSector, Leave, LookUp,
        RequestBuffer, ReadTable, UseTable, Written, FreeBuffer
    <3> QED
      BY <1>4, <1>5, <3>2, <3>3
  <2> QED
    BY <2>1, <2>2
<1> QED
  BY <1>1, <1>2, <1>6

-----------------------------------------------------------------------------
(* What the invariant gives. *)

\* The invariant holds in every reachable state, for every volume.
THEOREM Invariance == Spec => []IInv
<1>1. Init => IInv
  BY InitTypes, InitOperation, InitPlaces, InitOwners, InitRead DEF IInv
<1>2. IInv /\ [Next]_vars => IInv'
  BY NextTypes, NextOperation, NextCall, NextPlaces, NextOwners, NextRead, NextPassed DEF IInv
<1> QED
  BY <1>1, <1>2, PTL DEF Spec

\* Between two calls only the constructor's pages are held (PagesReturned).
THEOREM ReturnHolds == Spec => []PagesReturned
<1>1. IInv => PagesReturned
  BY DEF IInv, Owners, Apart, PagesReturned
<1> QED
  BY <1>1, Invariance, PTL

\* A search answers with the first free cluster (SearchFindsFree).
THEOREM SearchHolds == Spec => []SearchFindsFree
<1>1. IInv => SearchFindsFree
  BY DEF IInv, Passed, SearchFindsFree
<1> QED
  BY <1>1, Invariance, PTL

\* write_fat_entry changes its own entry and no other (WriteChangesOwnEntry).
THEOREM WriteHolds == Spec => WriteChangesOwnEntry
<1> DEFINE Own ==
      op = "write" /\ ~trouble =>
        /\ \A s \in 0 .. Sectors - 1, j \in 0 .. PerSector - 1 :
              stored'[s][j] # stored[s][j] => s = FatSector(cluster) /\ j = cluster % PerSector
        /\ pc # "idle" /\ pc' = "idle" => Entry(cluster) = Low(value)
<1>1. IInv /\ [Next]_vars => Own
  <2> SUFFICES ASSUME IInv, [Next]_vars, op = "write", ~trouble PROVE Own
    OBVIOUS
  <2>0. TypeOK /\ Operation /\ Call /\ Read
    BY DEF IInv
  <2>1. ASSUME NEW s \in 0 .. Sectors - 1, NEW j \in 0 .. PerSector - 1, stored'[s][j] # stored[s][j]
        PROVE  s = FatSector(cluster) /\ j = cluster % PerSector
    <3>1. stored'[s] # stored[s]
      BY <2>1
    <3>2. DiskStep /\ pc = "writing"
      BY <2>0, <3>1, StoredKept
    <3>3. s = Sector0 /\ stored'[s] = buffer[0]
      BY <2>0, <3>1, <3>2, StoredKept
    <3>4. \A k \in 0 .. PerSector - 1 : k # Place => buffer[0][k] = stored[Sector0][k]
      BY <2>0, <3>2 DEF Read
    <3> QED
      BY <2>1, <3>3, <3>4 DEF Sector0, Place
  <2>2. ASSUME pc # "idle", pc' = "idle" PROVE Entry(cluster) = Low(value)
    <3>1. FreeBuffer
      BY <2>0, <2>2, Domain DEF Next, Mount, TakePage, ReadBootSector, CheckBootSector, Leave, LookUp,
        RequestBuffer, ReadTable, UseTable, Written, Start, DiskStep, vars, Operation, Mounting
    <3> QED
      BY <2>0, <3>1 DEF FreeBuffer, Read
  <2> QED
    BY <2>1, <2>2
<1>2. IInv /\ [Next]_vars => [Own]_vars
  BY <1>1
<1> HIDE DEF Own
<1>3. Spec => [][Own]_vars
  BY <1>2, Invariance, PTL DEF Spec
<1> QED
  BY <1>3 DEF Own, WriteChangesOwnEntry
=============================================================================
