-------------------------- MODULE PageTablesProofs --------------------------
(***************************************************************************)
(* Proofs about PageTables, for every number of slots, every set of frames *)
(* and every set of virtual pages.                                         *)
(***************************************************************************)
EXTENDS PageTables, TLAPS

-----------------------------------------------------------------------------
(***************************************************************************)
(* The inductive invariant.                                                *)
(***************************************************************************)

\* No two entries of the tables ts name the same frame.
Distinct(ts) ==
    \A t, u \in ts : \A r, s \in Slots :
        memory[t][r] = memory[u][s] /\ memory[t][r] # NotPresent => t = u /\ r = s

\* Tables are frames that are neither free nor a client's, each of one level.
Levels ==
    /\ PDPs \subseteq Frames /\ PDs \subseteq Frames /\ PTs \subseteq Frames
    /\ (PDPs \cup PDs \cup PTs) \cap (free \cup owned) = {}
    /\ PDPs \cap PDs = {} /\ PDPs \cap PTs = {} /\ PDs \cap PTs = {}

Tree == Distinct({Root}) /\ Distinct(PDPs) /\ Distinct(PDs)

Uses == free \cap owned = {} /\ Frames = free \cup owned \cup PDPs \cup PDs \cup PTs

\* The tables on the way to a page, as far as there are any.
PDPOf(v) == Follow(Root, v[1])
PDOf(v) == Follow(PDPOf(v), v[2])
PTOf(v) == Follow(PDOf(v), v[3])

\* The walk of map_memory has followed its page's own path.
OnPath ==
    /\ level = 4 => table = Root
    /\ level = 3 => table = PDPOf(target[1]) /\ table \in PDPs
    /\ level = 2 => table = PDOf(target[1]) /\ table \in PDs
    /\ level = 1 => table = PTOf(target[1]) /\ table \in PTs

\* A walk that got no frame goes on in page 0, which it has cleared.
InPageZero ==
    /\ free = {}
    /\ level # 0 => table = Null /\ \A s \in Slots : memory[Null][s] \in {NotPresent, Null}

IInv ==
    /\ TypeOK
    /\ ~failed => Levels /\ Tree /\ Uses /\ OnPath
    /\ failed => InPageZero

-----------------------------------------------------------------------------
(* The constants. *)

\* The parameters as the assumption gives them.
LEMMA Constants ==
  /\ Root \in Tables /\ Null \in Tables /\ Frames \subseteq Tables
  /\ Root \notin Frames /\ Null \notin Frames /\ Root # Null
  /\ NotPresent \notin Tables /\ Tables \subseteq Entry /\ PhysicalPages \subseteq Entry
  /\ NotPresent \in Entry /\ NotPresent \notin PhysicalPages
  /\ Frames \subseteq PhysicalPages /\ Null \in PhysicalPages
  BY PageTablesAssumption DEF Tables, Entry, PhysicalPages, Null, NotPresent

\* A virtual page is its four indexes.
LEMMA VirtualPage ==
  ASSUME NEW v \in VirtualPages
  PROVE  /\ v[1] \in Slots /\ v[2] \in Slots /\ v[3] \in Slots /\ v[4] \in Slots
         /\ v = <<v[1], v[2], v[3], v[4]>>
  BY PageTablesAssumption

-----------------------------------------------------------------------------
(***************************************************************************)
(* What a new table changes, for memory m before and n after.              *)
(***************************************************************************)

\* The tables that those of ts name, in memory m.
Kids(m, ts) == {m[t][s] : t \in ts, s \in Slots} \ {NotPresent}

DistinctIn(m, ts) ==
    \A t, u \in ts : \A r, s \in Slots :
        m[t][r] = m[u][s] /\ m[t][r] # NotPresent => t = u /\ r = s

\* Frame f is cleared and entered at slot s of table t.
Linked(m, n, t, s, f) ==
    \A u \in Tables, r \in Slots :
        n[u][r] = IF u = t /\ r = s THEN f ELSE IF u = f THEN NotPresent ELSE m[u][r]

\* That is what LinkTable does.
LEMMA LinkTableLinks ==
  ASSUME memory \in [Tables -> Table], table \in Tables, NEW s \in Slots, NEW f \in Tables,
         LinkTable(f, s)
  PROVE  memory' \in [Tables -> Table] /\ Linked(memory, memory', table, s, f)
<1> DEFINE m == [memory EXCEPT ![f] = Cleared]
<1>1. Cleared \in Table /\ \A r \in Slots : Cleared[r] = NotPresent
  BY Constants DEF Cleared, Table
<1>2. m \in [Tables -> Table] /\ m[f] = Cleared /\ \A u \in Tables \ {f} : m[u] = memory[u]
  BY <1>1
<1>3. memory' = [m EXCEPT ![table][s] = f]
  BY DEF LinkTable
<1> HIDE DEF m
<1>4. m[table] \in [Slots -> Entry] /\ f \in Entry
  BY <1>2, Constants DEF Table
<1>5. [m[table] EXCEPT ![s] = f] \in Table
  BY <1>4 DEF Table
<1>6. /\ memory' \in [Tables -> Table] /\ memory'[table] = [m[table] EXCEPT ![s] = f]
      /\ \A u \in Tables \ {table} : memory'[u] = m[u]
  BY <1>2, <1>3, <1>5
<1>7. ASSUME NEW u \in Tables, NEW r \in Slots
      PROVE  memory'[u][r] = IF u = table /\ r = s THEN f
                             ELSE IF u = f THEN NotPresent ELSE memory[u][r]
  <2>1. CASE u = table /\ r = s
    BY <1>4, <1>6, <2>1
  <2>2. CASE ~(u = table /\ r = s)
    <3>1. memory'[u][r] = m[u][r]
      BY <1>4, <1>6, <2>2
    <3> QED
      BY <1>1, <1>2, <2>2, <3>1
  <2> QED
    BY <2>1, <2>2
<1> QED
  BY <1>6, <1>7 DEF Linked

\* The tables named by ts are the same, and f if it was entered in one of them.
LEMMA LinkKids ==
  ASSUME NEW m, NEW n, NEW t \in Tables, NEW s \in Slots, NEW f \in Tables,
         Linked(m, n, t, s, f), m[t][s] = NotPresent, NEW ts \in SUBSET Tables, f \notin ts
  PROVE  /\ t \in ts => Kids(n, ts) = Kids(m, ts) \cup {f}
         /\ t \notin ts => Kids(n, ts) = Kids(m, ts)
<1>1. \A u \in ts, r \in Slots : n[u][r] = IF u = t /\ r = s THEN f ELSE m[u][r]
  BY DEF Linked
<1>2. f # NotPresent
  BY Constants
<1>3. ASSUME t \notin ts PROVE Kids(n, ts) = Kids(m, ts)
  BY <1>1, <1>3 DEF Kids
<1>4. ASSUME t \in ts PROVE Kids(n, ts) = Kids(m, ts) \cup {f}
  <2>1. ASSUME NEW x \in Kids(n, ts) PROVE x \in Kids(m, ts) \cup {f}
    BY <1>1, <2>1 DEF Kids
  <2>2. f \in Kids(n, ts)
    BY <1>1, <1>2, <1>4 DEF Kids
  <2>3. ASSUME NEW x \in Kids(m, ts) PROVE x \in Kids(n, ts)
    <3>1. PICK u \in ts, r \in Slots : x = m[u][r] /\ x # NotPresent
      BY <2>3 DEF Kids
    <3>2. n[u][r] = x
      BY <1>1, <3>1
    <3> QED
      BY <3>1, <3>2 DEF Kids
  <2> QED
    BY <2>1, <2>2, <2>3
<1> QED
  BY <1>3, <1>4

\* The new table names none.
LEMMA LinkNew ==
  ASSUME NEW m, NEW n, NEW t \in Tables, NEW s \in Slots, NEW f \in Tables, f # t,
         Linked(m, n, t, s, f), NEW ts \in SUBSET Tables
  PROVE  Kids(n, ts \cup {f}) = Kids(n, ts)
<1>1. \A r \in Slots : n[f][r] = NotPresent
  BY DEF Linked
<1> QED
  BY <1>1 DEF Kids

\* Entries that were distinct are, when f was no entry of ts.
LEMMA LinkDistinct ==
  ASSUME NEW m, NEW n, NEW t \in Tables, NEW s \in Slots, NEW f \in Tables, f # t,
         Linked(m, n, t, s, f), NEW ts \in SUBSET Tables, f \notin Kids(m, ts), DistinctIn(m, ts)
  PROVE  DistinctIn(n, ts) /\ DistinctIn(n, ts \cup {f})
<1>1. \A u \in ts \cup {f}, r \in Slots :
         n[u][r] = IF u = t /\ r = s THEN f ELSE IF u = f THEN NotPresent ELSE m[u][r]
  BY DEF Linked
<1>2. \A u \in ts, r \in Slots : m[u][r] # f
  BY Constants DEF Kids
<1>3. \A u \in ts \cup {f}, r \in Slots :
         n[u][r] # NotPresent =>
             \/ u = t /\ r = s /\ n[u][r] = f
             \/ ~(u = t /\ r = s) /\ u \in ts /\ n[u][r] = m[u][r] /\ m[u][r] # f
  BY <1>1, <1>2
<1> QED
  BY <1>3 DEF DistinctIn

\* What the processor finds in memory m.
FollowIn(m, t, s) == IF t \in Tables THEN m[t][s] ELSE NotPresent

\* The tables on the way to page v there, and the page.
PDPIn(m, v) == FollowIn(m, Root, v[1])
PDIn(m, v) == FollowIn(m, PDPIn(m, v), v[2])
PTIn(m, v) == FollowIn(m, PDIn(m, v), v[3])
PageIn(m, v) == FollowIn(m, PTIn(m, v), v[4])

\* Every entry is found as before but the one that names the new table.
LEMMA LinkFollow ==
  ASSUME NEW m, NEW n, NEW t \in Tables, NEW s \in Slots, NEW f \in Tables, f # t,
         Linked(m, n, t, s, f), m[t][s] = NotPresent
  PROVE  /\ \A x, r : x # f /\ r \in Slots /\ ~(x = t /\ r = s) => FollowIn(n, x, r) = FollowIn(m, x, r)
         /\ \A r \in Slots : FollowIn(n, f, r) = NotPresent
         /\ FollowIn(n, t, s) = f /\ FollowIn(m, t, s) = NotPresent
         /\ \A r : FollowIn(n, NotPresent, r) = NotPresent /\ FollowIn(m, NotPresent, r) = NotPresent
  BY Constants DEF Linked, FollowIn

-----------------------------------------------------------------------------
(***************************************************************************)
(* A walk that needs a table and gets it.                                  *)
(***************************************************************************)

\* The step of Descend that links a new table in frame f.
Grow(f) ==
    /\ level > 1 /\ level' = level - 1
    /\ f \in free /\ free' = free \ {f} /\ table' = f
    /\ memory[table][SlotOf(target[1], level)] = NotPresent
    /\ LinkTable(f, SlotOf(target[1], level))
    /\ UNCHANGED <<target, owned, failed>>

\* What is known of the tables when it happens.
LEMMA GrowFacts ==
  ASSUME IInv, ~failed, NEW f, Grow(f)
  PROVE  /\ target[1] \in VirtualPages /\ SlotOf(target[1], level) \in Slots
         /\ level \in 2 .. 4 /\ table \in Tables /\ f \in Tables /\ f \in Frames /\ f # table
         /\ f \notin {Root} \cup PDPs \cup PDs \cup PTs
         /\ Root \notin PDPs \cup PDs \cup PTs
         /\ memory' \in [Tables -> Table]
         /\ Linked(memory, memory', table, SlotOf(target[1], level), f)
<1>1. level \in 2 .. 4 /\ target[1] \in VirtualPages
  BY DEF IInv, TypeOK, Grow
<1>2. SlotOf(target[1], level) \in Slots
  BY <1>1, VirtualPage DEF SlotOf
<1>3. f \in Frames /\ f \in Tables /\ table \in Tables /\ memory \in [Tables -> Table]
  BY Constants DEF IInv, TypeOK, Grow
<1>4. f \notin {Root} \cup PDPs \cup PDs \cup PTs
  BY <1>3, Constants DEF IInv, Levels, Grow
<1>5. Root \notin PDPs \cup PDs \cup PTs
  BY Constants DEF IInv, Levels
<1>6. f # table
  BY <1>1, <1>4 DEF IInv, OnPath
<1>7. memory' \in [Tables -> Table] /\ Linked(memory, memory', table, SlotOf(target[1], level), f)
  BY <1>2, <1>3, LinkTableLinks DEF Grow
<1> QED
  BY <1>1, <1>2, <1>3, <1>4, <1>5, <1>6, <1>7

\* The new table joins the level the walk goes to; the other levels stay.
LEMMA GrowLevels ==
  ASSUME IInv, ~failed, NEW f, Grow(f)
  PROVE  /\ PDPs' = IF level = 4 THEN PDPs \cup {f} ELSE PDPs
         /\ PDs' = IF level = 3 THEN PDs \cup {f} ELSE PDs
         /\ PTs' = IF level = 2 THEN PTs \cup {f} ELSE PTs
<1> DEFINE s == SlotOf(target[1], level)
           m == memory
           n == memory'
           A3 == PDPs
           A2 == PDs
           A1 == PTs
<1>1. /\ s \in Slots /\ level \in 2 .. 4 /\ table \in Tables /\ f \in Tables /\ f # table
      /\ f \notin {Root} \cup A3 \cup A2 \cup A1 /\ Root \notin A3 \cup A2 \cup A1
      /\ Linked(m, n, table, s, f)
  BY GrowFacts
<1>2. m[table][s] = NotPresent
  BY DEF Grow
<1>3. /\ A3 = Kids(m, {Root}) /\ A2 = Kids(m, A3) /\ A1 = Kids(m, A2)
      /\ PDPs' = Kids(n, {Root}) /\ PDs' = Kids(n, PDPs') /\ PTs' = Kids(n, PDs')
  BY DEF PDPs, PDs, PTs, Named, Kids
<1>4. {Root} \in SUBSET Tables /\ A3 \in SUBSET Tables /\ A2 \in SUBSET Tables
  BY Constants DEF IInv, Levels
<1>5. /\ level = 4 => table = Root
      /\ level = 3 => table \in A3
      /\ level = 2 => table \in A2
      /\ A3 \cap A2 = {}
  BY DEF IInv, OnPath, Levels
<1> HIDE DEF s, m, n, A3, A2, A1
<1>6. \A ts \in SUBSET Tables : f \notin ts =>
         /\ table \in ts => Kids(n, ts) = Kids(m, ts) \cup {f}
         /\ table \notin ts => Kids(n, ts) = Kids(m, ts)
  BY <1>1, <1>2, LinkKids
<1>7. \A ts \in SUBSET Tables : Kids(n, ts \cup {f}) = Kids(n, ts)
  BY <1>1, LinkNew
<1>8. CASE level = 4
  <2>1. Kids(n, {Root}) = A3 \cup {f} /\ Kids(n, A3) = A2 /\ Kids(n, A2) = A1
    BY <1>1, <1>3, <1>4, <1>5, <1>6, <1>8
  <2> QED
    BY <1>3, <1>4, <1>7, <1>8, <2>1 DEF A3, A2, A1
<1>9. CASE level = 3
  <2>1. Kids(n, {Root}) = A3 /\ Kids(n, A3) = A2 \cup {f} /\ Kids(n, A2) = A1
    BY <1>1, <1>3, <1>4, <1>5, <1>6, <1>9
  <2> QED
    BY <1>3, <1>4, <1>7, <1>9, <2>1 DEF A3, A2, A1
<1>10. CASE level = 2
  <2>1. Kids(n, {Root}) = A3 /\ Kids(n, A3) = A2 /\ Kids(n, A2) = A1 \cup {f}
    BY <1>1, <1>3, <1>4, <1>5, <1>6, <1>10
  <2> QED
    BY <1>3, <1>10, <2>1 DEF A3, A2, A1
<1> QED
  BY <1>1, <1>8, <1>9, <1>10

\* Every path ends where it did: the new table names no page.
LEMMA GrowPaths ==
  ASSUME IInv, ~failed, NEW f, Grow(f), NEW v \in VirtualPages
  PROVE  /\ PageIn(memory', v) = PageIn(memory, v)
         /\ v = target[1] =>
               /\ level = 4 => PDPIn(memory', v) = f
               /\ level = 3 => PDIn(memory', v) = f
               /\ level = 2 => PTIn(memory', v) = f
<1> DEFINE s == SlotOf(target[1], level)
           t == table
           m == memory
           n == memory'
           p3 == FollowIn(m, Root, v[1])
           p2 == FollowIn(m, p3, v[2])
           p1 == FollowIn(m, p2, v[3])
           q3 == FollowIn(n, Root, v[1])
           q2 == FollowIn(n, q3, v[2])
           q1 == FollowIn(n, q2, v[3])
<1>1. /\ s \in Slots /\ level \in 2 .. 4 /\ t \in Tables /\ f \in Tables /\ f # t
      /\ f \notin {Root} \cup PDPs \cup PDs \cup PTs /\ Root \notin PDPs \cup PDs \cup PTs
      /\ Linked(m, n, t, s, f) /\ m[t][s] = NotPresent
  BY GrowFacts DEF Grow
<1>2. v[1] \in Slots /\ v[2] \in Slots /\ v[3] \in Slots /\ v[4] \in Slots
  BY VirtualPage
<1>3. /\ PDPOf(v) = p3 /\ PDOf(v) = p2 /\ PageIn(memory, v) = FollowIn(m, p1, v[4])
      /\ PDPIn(memory', v) = q3 /\ PDIn(memory', v) = q2 /\ PTIn(memory', v) = q1
      /\ PageIn(memory', v) = FollowIn(n, q1, v[4])
  BY DEF PDPOf, PDOf, Follow, FollowIn, PDPIn, PDIn, PTIn, PageIn
<1>4. /\ p3 \in PDPs \cup {NotPresent} /\ p2 \in PDs \cup {NotPresent}
      /\ p1 \in PTs \cup {NotPresent}
  <2>1. Root \in {Root} /\ Root \in Tables
    BY Constants
  <2>2. p3 \in PDPs \cup {NotPresent}
    BY <1>2, <2>1 DEF FollowIn, PDPs, Named
  <2> HIDE DEF p3
  <2>3. p2 \in PDs \cup {NotPresent}
    BY <1>2, <2>2, Constants DEF FollowIn, PDs, Named
  <2> HIDE DEF p2
  <2>4. p1 \in PTs \cup {NotPresent}
    BY <1>2, <2>3, Constants DEF FollowIn, PTs, Named
  <2> QED
    BY <2>2, <2>3, <2>4
<1>5. /\ \A x, r : x # f /\ r \in Slots /\ ~(x = t /\ r = s) => FollowIn(n, x, r) = FollowIn(m, x, r)
      /\ \A r \in Slots : FollowIn(n, f, r) = NotPresent
      /\ FollowIn(n, t, s) = f /\ FollowIn(m, t, s) = NotPresent
      /\ \A r : FollowIn(n, NotPresent, r) = NotPresent /\ FollowIn(m, NotPresent, r) = NotPresent
  BY <1>1, LinkFollow
<1>6. /\ level = 4 => t = Root /\ s = target[1][1]
      /\ level = 3 => t = PDPOf(target[1]) /\ t \in PDPs /\ s = target[1][2]
      /\ level = 2 => t = PDOf(target[1]) /\ t \in PDs /\ s = target[1][3]
      /\ PDPs \cap PDs = {} /\ PDPs \cap PTs = {} /\ PDs \cap PTs = {}
      /\ NotPresent \notin PDPs \cup PDs \cup PTs /\ NotPresent # f
  BY Constants, <1>1 DEF IInv, OnPath, Levels, SlotOf
<1>7. q3 = FollowIn(n, Root, v[1]) /\ q2 = FollowIn(n, q3, v[2]) /\ q1 = FollowIn(n, q2, v[3])
      /\ p3 = FollowIn(m, Root, v[1]) /\ p2 = FollowIn(m, p3, v[2]) /\ p1 = FollowIn(m, p2, v[3])
  OBVIOUS
<1> HIDE DEF s, t, m, n, p3, p2, p1, q3, q2, q1
<1>8. CASE level = 4
  <2>1. CASE v[1] = s
    <3>1. q3 = f /\ q2 = NotPresent /\ q1 = NotPresent
      BY <1>2, <1>5, <1>6, <1>7, <1>8, <2>1
    <3>2. p3 = NotPresent /\ p2 = NotPresent /\ p1 = NotPresent
      BY <1>5, <1>6, <1>7, <1>8, <2>1
    <3> QED
      BY <1>3, <1>5, <1>8, <3>1, <3>2
  <2>2. CASE v[1] # s
    <3>1. q3 = p3 /\ p3 # f /\ p3 # t
      BY <1>1, <1>2, <1>4, <1>5, <1>6, <1>7, <1>8, <2>2, Constants
    <3>2. q2 = p2 /\ p2 # f /\ p2 # t
      BY <1>1, <1>2, <1>4, <1>5, <1>6, <1>7, <1>8, <3>1, Constants
    <3>3. q1 = p1 /\ p1 # f /\ p1 # t
      BY <1>1, <1>2, <1>4, <1>5, <1>6, <1>7, <1>8, <3>2, Constants
    <3>4. v # target[1]
      BY <1>6, <1>8, <2>2
    <3> QED
      BY <1>2, <1>3, <1>5, <3>3, <3>4
  <2> QED
    BY <2>1, <2>2
<1>9. CASE level = 3
  <2>1. t # Root /\ f # Root /\ t \notin PDs /\ t \notin PTs /\ t # NotPresent
    BY <1>1, <1>6, <1>9
  <2>2. q3 = p3 /\ p3 # f
    BY <1>1, <1>2, <1>4, <1>5, <1>6, <1>7, <2>1
  <2>3. CASE p3 = t /\ v[2] = s
    <3>1. q2 = f /\ q1 = NotPresent
      BY <1>2, <1>5, <1>7, <2>2, <2>3
    <3>2. p2 = NotPresent /\ p1 = NotPresent
      BY <1>5, <1>7, <2>3
    <3> QED
      BY <1>3, <1>5, <1>9, <3>1, <3>2
  <2>4. CASE ~(p3 = t /\ v[2] = s)
    <3>1. q2 = p2 /\ p2 # f /\ p2 # t
      BY <1>1, <1>2, <1>4, <1>5, <1>6, <1>7, <2>1, <2>2, <2>4
    <3>2. q1 = p1 /\ p1 # f /\ p1 # t
      BY <1>1, <1>2, <1>4, <1>5, <1>6, <1>7, <2>1, <3>1
    <3>3. v # target[1]
      BY <1>3, <1>6, <1>9, <2>4
    <3> QED
      BY <1>2, <1>3, <1>5, <3>2, <3>3
  <2> QED
    BY <2>3, <2>4
<1>10. CASE level = 2
  <2>1. t # Root /\ f # Root /\ t \notin PDPs /\ t \notin PTs /\ t # NotPresent
    BY <1>1, <1>6, <1>10
  <2>2. q3 = p3 /\ p3 # f /\ p3 # t
    BY <1>1, <1>2, <1>4, <1>5, <1>6, <1>7, <2>1
  <2>3. q2 = p2 /\ p2 # f
    BY <1>1, <1>2, <1>4, <1>5, <1>6, <1>7, <2>1, <2>2
  <2>4. CASE p2 = t /\ v[3] = s
    <3>1. q1 = f
      BY <1>2, <1>5, <1>7, <2>3, <2>4
    <3>2. p1 = NotPresent
      BY <1>5, <1>7, <2>4
    <3> QED
      BY <1>2, <1>3, <1>5, <1>10, <3>1, <3>2
  <2>5. CASE ~(p2 = t /\ v[3] = s)
    <3>1. q1 = p1 /\ p1 # f /\ p1 # t
      BY <1>1, <1>2, <1>4, <1>5, <1>6, <1>7, <2>1, <2>3, <2>5
    <3>2. v # target[1]
      BY <1>3, <1>6, <1>10, <2>5
    <3> QED
      BY <1>2, <1>3, <1>5, <3>1, <3>2
  <2> QED
    BY <2>4, <2>5
<1> QED
  BY <1>1, <1>8, <1>9, <1>10

\* The invariant survives the new table.
LEMMA GrowKeeps ==
  ASSUME IInv, ~failed, NEW f, Grow(f)
  PROVE  IInv'
<1> DEFINE s == SlotOf(target[1], level)
<1>1. /\ target[1] \in VirtualPages /\ s \in Slots /\ level \in 2 .. 4
      /\ table \in Tables /\ f \in Tables /\ f \in Frames /\ f # table
      /\ f \notin {Root} \cup PDPs \cup PDs \cup PTs
      /\ memory' \in [Tables -> Table] /\ Linked(memory, memory', table, s, f)
  BY GrowFacts
<1>2. /\ PDPs' = IF level = 4 THEN PDPs \cup {f} ELSE PDPs
      /\ PDs' = IF level = 3 THEN PDs \cup {f} ELSE PDs
      /\ PTs' = IF level = 2 THEN PTs \cup {f} ELSE PTs
  BY GrowLevels
<1>3. /\ f \in free /\ free' = free \ {f} /\ table' = f /\ level' = level - 1
      /\ target' = target /\ owned' = owned /\ failed' = failed
  BY DEF Grow
<1>4. TypeOK'
  BY <1>1, <1>3 DEF IInv, TypeOK
<1>5. f \notin owned
  BY <1>3 DEF IInv, Uses
<1> HIDE DEF s
<1>6. Levels'
  <2>1. PDPs' \cup PDs' \cup PTs' = PDPs \cup PDs \cup PTs \cup {f}
    BY <1>1, <1>2
  <2>2. PDPs' \subseteq Frames /\ PDs' \subseteq Frames /\ PTs' \subseteq Frames
    BY <1>1, <1>2 DEF IInv, Levels
  <2>3. (PDPs' \cup PDs' \cup PTs') \cap (free' \cup owned') = {}
    BY <1>3, <1>5, <2>1 DEF IInv, Levels
  <2>4. PDPs' \cap PDs' = {} /\ PDPs' \cap PTs' = {} /\ PDs' \cap PTs' = {}
    BY <1>1, <1>2 DEF IInv, Levels
  <2> QED
    BY <2>2, <2>3, <2>4 DEF Levels
<1>7. Uses'
  <2>1. PDPs' \cup PDs' \cup PTs' = PDPs \cup PDs \cup PTs \cup {f}
    BY <1>1, <1>2
  <2> QED
    BY <1>3, <2>1 DEF IInv, Uses
<1>8. Tree'
  <2>1. f \notin Kids(memory, {Root}) /\ f \notin Kids(memory, PDPs) /\ f \notin Kids(memory, PDs)
    BY <1>1 DEF Kids, PDPs, PDs, PTs, Named
  <2>2. /\ DistinctIn(memory, {Root}) /\ DistinctIn(memory, PDPs) /\ DistinctIn(memory, PDs)
        /\ {Root} \in SUBSET Tables /\ PDPs \in SUBSET Tables /\ PDs \in SUBSET Tables
    BY Constants DEF IInv, Levels, Tree, Distinct, DistinctIn
  <2>3. /\ DistinctIn(memory', {Root})
        /\ DistinctIn(memory', PDPs) /\ DistinctIn(memory', PDPs \cup {f})
        /\ DistinctIn(memory', PDs) /\ DistinctIn(memory', PDs \cup {f})
    <3> HIDE DEF Tree
    <3> QED
      BY <1>1, <2>1, <2>2, LinkDistinct
  <2>4. DistinctIn(memory', PDPs') /\ DistinctIn(memory', PDs')
    BY <1>2, <2>3
  <2> QED
    BY <2>3, <2>4 DEF Tree, Distinct, DistinctIn
<1>9. OnPath'
  <2>1. /\ level = 4 => PDPOf(target[1])' = f /\ f \in PDPs'
        /\ level = 3 => PDOf(target[1])' = f /\ f \in PDs'
        /\ level = 2 => PTOf(target[1])' = f /\ f \in PTs'
    <3>1. /\ level = 4 => PDPIn(memory', target[1]) = f
          /\ level = 3 => PDIn(memory', target[1]) = f
          /\ level = 2 => PTIn(memory', target[1]) = f
      <4>1. PICK v \in VirtualPages : v = target[1]
        BY <1>1
      <4>2. v = target[1] =>
               /\ level = 4 => PDPIn(memory', v) = f
               /\ level = 3 => PDIn(memory', v) = f
               /\ level = 2 => PTIn(memory', v) = f
        BY GrowPaths
      <4> QED
        BY <4>1, <4>2
    <3>2. /\ PDPOf(target[1])' = PDPIn(memory', target[1]) /\ PDOf(target[1])' = PDIn(memory', target[1])
          /\ PTOf(target[1])' = PTIn(memory', target[1])
      BY <1>3 DEF PDPOf, PDOf, PTOf, Follow, FollowIn, PDPIn, PDIn, PTIn
    <3> QED
      BY <1>1, <1>2, <3>1, <3>2
  <2> QED
    BY <1>1, <1>3, <2>1 DEF OnPath
<1> QED
  BY <1>3, <1>4, <1>6, <1>7, <1>8, <1>9 DEF IInv

-----------------------------------------------------------------------------
(***************************************************************************)
(* The last level.                                                         *)
(***************************************************************************)

\* Entries that name the same frame are the same entry.
LEMMA SameEntry ==
  ASSUME NEW ts, Distinct(ts), NEW t \in ts, NEW u \in ts, NEW r \in Slots, NEW s \in Slots,
         memory[t][r] = memory[u][s], memory[t][r] # NotPresent
  PROVE  t = u /\ r = s
  BY DEF Distinct

\* An entry of a last-level table changes its own page's translation and nothing
\* of the tree.
LEMMA EnterKeepsTree ==
  ASSUME IInv, ~failed, Enter
  PROVE  /\ PDPs' = PDPs /\ PDs' = PDs /\ PTs' = PTs /\ Tree'
         /\ \A v \in VirtualPages :
               PageIn(memory', v) = IF v = target[1] THEN target[2] ELSE PageIn(memory, v)
<1> DEFINE s == SlotOf(target[1], 1)
           w == target[1]
<1>1. /\ level = 1 /\ w \in VirtualPages /\ s = w[4] /\ s \in Slots
      /\ table = PTIn(memory, w) /\ table \in PTs /\ table \in Tables
      /\ memory \in [Tables -> Table] /\ target[2] \in PhysicalPages
  <2>1. level = 1 /\ target \in VirtualPages \X PhysicalPages
    BY DEF IInv, TypeOK, Enter
  <2>2. w[4] \in Slots /\ s = w[4]
    BY <2>1, VirtualPage DEF SlotOf
  <2> QED
    BY <2>1, <2>2 DEF IInv, TypeOK, OnPath, PTOf, PDOf, PDPOf, Follow, PTIn, PDIn, PDPIn, FollowIn
<1>2. /\ table \notin {Root} \cup PDPs \cup PDs
      /\ PDPs \subseteq Tables /\ PDs \subseteq Tables /\ PTs \subseteq Tables /\ Root \in Tables
  BY <1>1, Constants DEF IInv, Levels
<1>3. \A t \in Tables, r \in Slots :
         memory'[t][r] = IF t = table /\ r = s THEN target[2] ELSE memory[t][r]
  <2>1. memory' = [memory EXCEPT ![table][s] = target[2]]
    BY DEF Enter
  <2>2. memory[table] \in [Slots -> Entry]
    BY <1>1 DEF Table
  <2> HIDE DEF s
  <2> QED
    BY <1>1, <2>1, <2>2 DEF Table
<1> HIDE DEF s
<1>4. PDPs' = PDPs
  <2>1. \A r \in Slots : memory'[Root][r] = memory[Root][r]
    BY <1>2, <1>3
  <2> QED
    BY <2>1 DEF PDPs, Named
<1>5. PDs' = PDs
  <2>1. \A t \in PDPs, r \in Slots : memory'[t][r] = memory[t][r]
    BY <1>2, <1>3
  <2> QED
    BY <1>4, <2>1 DEF PDs, Named
<1>6. PTs' = PTs
  <2>1. \A t \in PDs, r \in Slots : memory'[t][r] = memory[t][r]
    BY <1>2, <1>3
  <2> QED
    BY <1>5, <2>1 DEF PTs, Named
<1>7. Tree'
  <2>1. \A t \in {Root} \cup PDPs \cup PDs, r \in Slots : memory'[t][r] = memory[t][r]
    BY <1>2, <1>3
  <2> QED
    BY <1>4, <1>5, <2>1 DEF IInv, Tree, Distinct
<1>8. ASSUME NEW v \in VirtualPages
      PROVE  PageIn(memory', v) = IF v = w THEN target[2] ELSE PageIn(memory, v)
  <2>0. /\ v[1] \in Slots /\ v[2] \in Slots /\ v[3] \in Slots /\ v[4] \in Slots
        /\ w[1] \in Slots /\ w[2] \in Slots /\ w[3] \in Slots
        /\ v = <<v[1], v[2], v[3], v[4]>> /\ w = <<w[1], w[2], w[3], w[4]>>
    BY <1>1, VirtualPage
  <2>1. \A x, r : x # table /\ r \in Slots => FollowIn(memory', x, r) = FollowIn(memory, x, r)
    BY <1>3 DEF FollowIn
  <2>2. \A r \in Slots : FollowIn(memory', table, r) = IF r = s THEN target[2] ELSE FollowIn(memory, table, r)
    BY <1>1, <1>3 DEF FollowIn
  <2>3. \A m, x :
           /\ PDPIn(m, x) = FollowIn(m, Root, x[1]) /\ PDIn(m, x) = FollowIn(m, PDPIn(m, x), x[2])
           /\ PTIn(m, x) = FollowIn(m, PDIn(m, x), x[3]) /\ PageIn(m, x) = FollowIn(m, PTIn(m, x), x[4])
    BY DEF PDPIn, PDIn, PTIn, PageIn
  <2>4. \A x \in VirtualPages :
           /\ PDPIn(memory, x) \in PDPs \cup {NotPresent} /\ PDIn(memory, x) \in PDs \cup {NotPresent}
           /\ PDPIn(memory, x) \in Tables => PDPIn(memory, x) \in PDPs
           /\ PDIn(memory, x) \in Tables => PDIn(memory, x) \in PDs
    <3> SUFFICES ASSUME NEW x \in VirtualPages
                 PROVE  PDPIn(memory, x) \in PDPs \cup {NotPresent} /\ PDIn(memory, x) \in PDs \cup {NotPresent}
      BY Constants
    <3>1. x[1] \in Slots /\ x[2] \in Slots
      BY VirtualPage
    <3>2. PDPIn(memory, x) \in PDPs \cup {NotPresent}
      BY <3>1 DEF PDPIn, FollowIn, PDPs, Named
    <3>3. PDIn(memory, x) \in PDs \cup {NotPresent}
      BY <3>1, <3>2, Constants DEF PDIn, FollowIn, PDs, Named
    <3> QED
      BY <3>2, <3>3
  <2>5. PDPIn(memory', v) = PDPIn(memory, v) /\ PDIn(memory', v) = PDIn(memory, v) /\ PTIn(memory', v) = PTIn(memory, v)
    <3>1. PDPIn(memory', v) = PDPIn(memory, v) /\ PDPIn(memory, v) # table /\ PDIn(memory, v) # table
      BY <1>1, <1>2, <2>0, <2>1, <2>3, <2>4, Constants
    <3>2. PDIn(memory', v) = PDIn(memory, v)
      BY <2>0, <2>1, <2>3, <3>1
    <3>3. PTIn(memory', v) = PTIn(memory, v)
      BY <2>0, <2>1, <2>3, <3>1, <3>2
    <3> QED
      BY <3>1, <3>2, <3>3
  <2> HIDE DEF w
  <2>6. ASSUME PTIn(memory, v) = table PROVE v[1] = w[1] /\ v[2] = w[2] /\ v[3] = w[3]
    <3>1. PTIn(memory, v) = PTIn(memory, w) /\ PTIn(memory, v) # NotPresent
      BY <1>1, <2>6, Constants
    <3>2. /\ PDIn(memory, v) \in PDs /\ PTIn(memory, v) = memory[PDIn(memory, v)][v[3]]
          /\ PDIn(memory, w) \in PDs /\ PTIn(memory, w) = memory[PDIn(memory, w)][w[3]]
      BY <1>1, <2>3, <2>4, <3>1 DEF FollowIn
    <3>3. PDIn(memory, v) = PDIn(memory, w) /\ v[3] = w[3]
      <4>1. Distinct(PDs)
        BY DEF IInv, Tree
      <4>2. memory[PDIn(memory, v)][v[3]] = memory[PDIn(memory, w)][w[3]] /\ memory[PDIn(memory, v)][v[3]] # NotPresent
        BY <3>1, <3>2
      <4> QED
        BY <2>0, <3>2, <4>1, <4>2, SameEntry
    <3>4. PDIn(memory, v) # NotPresent
      BY <1>2, <3>2, Constants
    <3>5. /\ PDPIn(memory, v) \in PDPs /\ PDIn(memory, v) = memory[PDPIn(memory, v)][v[2]]
          /\ PDPIn(memory, w) \in PDPs /\ PDIn(memory, w) = memory[PDPIn(memory, w)][w[2]]
      BY <1>1, <2>3, <2>4, <3>3, <3>4 DEF FollowIn
    <3>6. PDPIn(memory, v) = PDPIn(memory, w) /\ v[2] = w[2]
      <4>1. Distinct(PDPs)
        BY DEF IInv, Tree
      <4>2. memory[PDPIn(memory, v)][v[2]] = memory[PDPIn(memory, w)][w[2]] /\ memory[PDPIn(memory, v)][v[2]] # NotPresent
        BY <3>3, <3>4, <3>5
      <4> QED
        BY <2>0, <3>5, <4>1, <4>2, SameEntry
    <3>7. PDPIn(memory, v) # NotPresent
      BY <1>2, <3>5, Constants
    <3>8. PDPIn(memory, v) = memory[Root][v[1]] /\ PDPIn(memory, w) = memory[Root][w[1]]
      BY <1>1, <1>2, <2>3 DEF FollowIn
    <3>9. v[1] = w[1]
      BY <2>0, <3>6, <3>7, <3>8 DEF IInv, Tree, Distinct
    <3> QED
      BY <3>3, <3>6, <3>9
  <2>7. CASE v = w
    <3>1. PTIn(memory', v) = table /\ v[4] = s
      BY <1>1, <2>5, <2>7
    <3> QED
      BY <1>1, <2>2, <2>3, <2>7, <3>1
  <2>8. CASE v # w
    <3>1. ~(PTIn(memory, v) = table /\ v[4] = s)
      BY <1>1, <2>0, <2>6, <2>8
    <3> QED
      BY <2>0, <2>1, <2>2, <2>3, <2>5, <2>8, <3>1
  <2> QED
    BY <2>7, <2>8
<1> QED
  BY <1>4, <1>5, <1>6, <1>7, <1>8

\* Enter keeps the invariant.
LEMMA EnterKeeps == IInv /\ Enter => IInv'
<1> SUFFICES ASSUME IInv, Enter PROVE IInv'
  OBVIOUS
<1>1. TypeOK'
  <2>1. /\ memory \in [Tables -> Table] /\ table \in Tables /\ target \in VirtualPages \X PhysicalPages
        /\ level = 1 /\ target[2] \in Entry
    BY Constants DEF IInv, TypeOK, Enter
  <2>2. [memory[table] EXCEPT ![SlotOf(target[1], 1)] = target[2]] \in Table
    BY <2>1 DEF Table
  <2>3. memory' \in [Tables -> Table]
    BY <2>1, <2>2 DEF Enter
  <2> QED
    BY <2>3, Constants DEF IInv, TypeOK, Enter
<1>2. UNCHANGED <<free, owned, failed>> /\ level' = 0
  BY DEF Enter
<1>3. ASSUME failed PROVE InPageZero'
  BY <1>2, <1>3 DEF IInv, InPageZero
<1>4. ASSUME ~failed PROVE Levels' /\ Tree' /\ Uses' /\ OnPath'
  <2>1. PDPs' = PDPs /\ PDs' = PDs /\ PTs' = PTs /\ Tree'
    BY <1>4, EnterKeepsTree
  <2> QED
    BY <1>2, <1>4, <2>1 DEF IInv, Levels, Uses, OnPath
<1> QED
  BY <1>1, <1>2, <1>3, <1>4 DEF IInv

-----------------------------------------------------------------------------
(* The other steps. *)

\* What does not write a table leaves the tree and every translation alone.
LEMMA SameMemory ==
  ASSUME memory' = memory
  PROVE  /\ PDPs' = PDPs /\ PDs' = PDs /\ PTs' = PTs /\ Tree' = Tree
         /\ \A v : PageIn(memory', v) = PageIn(memory, v)
  BY DEF PDPs, PDs, PTs, Named, Tree, Distinct

\* Before anything is mapped the root has no entry.
LEMMA InvInit == Init => IInv
<1> SUFFICES ASSUME Init PROVE IInv
  OBVIOUS
<1>1. Cleared \in Table /\ \A r \in Slots : Cleared[r] = NotPresent
  BY Constants DEF Cleared, Table
<1>2. TypeOK
  <2>1. PICK e \in {NotPresent, Root} :
           memory = [f \in Tables |-> IF f = Root THEN Cleared ELSE [i \in Slots |-> e]]
    BY DEF Init
  <2>2. e \in Entry
    BY Constants DEF Entry
  <2>3. [i \in Slots |-> e] \in Table
    BY <2>2 DEF Table
  <2>4. memory \in [Tables -> Table]
    BY <1>1, <2>1, <2>3
  <2>5. failed \in BOOLEAN
    BY Zenon DEF Init
  <2> QED
    BY <2>4, <2>5, Constants DEF Init, TypeOK
<1>3. \A r \in Slots : memory[Root][r] = NotPresent
  BY <1>1, Constants DEF Init
<1>4. PDPs = {}
  BY <1>3 DEF PDPs, Named
<1>5. PDs = {}
  BY <1>4 DEF PDs, Named
<1>6. PTs = {}
  BY <1>5 DEF PTs, Named
<1>7. Levels /\ Uses /\ OnPath
  BY <1>4, <1>5, <1>6 DEF Init, Levels, Uses, OnPath
<1>8. Tree
  BY <1>3, <1>4, <1>5 DEF Tree, Distinct
<1> QED
  BY <1>2, <1>7, <1>8 DEF Init, IInv

\* A call begins at the root; the frame requested for it becomes the client's.
LEMMA CallKeeps == IInv /\ (MapDevice \/ MapRequested \/ MapRefused) => IInv'
<1> SUFFICES ASSUME IInv, MapDevice \/ MapRequested \/ MapRefused PROVE IInv'
  OBVIOUS
<1>1. /\ memory' = memory /\ ~failed /\ failed' = failed
      /\ level' = 4 /\ table' = Root
  BY DEF MapDevice, MapRequested, MapRefused, Begin
<1>2. target' \in VirtualPages \X PhysicalPages
  BY DEF MapDevice, MapRequested, MapRefused, Begin, PhysicalPages, IInv, TypeOK
<1>3. \/ UNCHANGED <<free, owned>>
      \/ \E f \in free : free' = free \ {f} /\ owned' = owned \cup {f}
  BY DEF MapDevice, MapRequested, MapRefused, Locked
<1>4. free' \subseteq Frames /\ owned' \subseteq Frames
  BY <1>3 DEF IInv, TypeOK
<1>5. TypeOK'
  BY <1>1, <1>2, <1>4, Constants DEF IInv, TypeOK
<1>6. PDPs' = PDPs /\ PDs' = PDs /\ PTs' = PTs /\ Tree'
  BY <1>1, SameMemory DEF IInv
<1>7. free' \cup owned' = free \cup owned /\ free' \cap owned' = {}
  BY <1>1, <1>3 DEF IInv, Uses
<1>8. Levels' /\ Uses' /\ OnPath'
  BY <1>1, <1>6, <1>7 DEF IInv, Levels, Uses, OnPath
<1> QED
  BY <1>1, <1>5, <1>6, <1>8 DEF IInv

\* The step of Descend that follows an entry.
FollowEntry ==
    /\ level > 1 /\ level' = level - 1
    /\ memory[table][SlotOf(target[1], level)] # NotPresent
    /\ table' = memory[table][SlotOf(target[1], level)]
    /\ UNCHANGED <<memory, free, failed, target, owned>>

\* It stays on the path.
LEMMA FollowKeeps == IInv /\ FollowEntry => IInv'
<1> SUFFICES ASSUME IInv, FollowEntry PROVE IInv'
  OBVIOUS
<1> DEFINE s == SlotOf(target[1], level)
<1>1. /\ level \in 2 .. 4 /\ target[1] \in VirtualPages /\ level' = level - 1
      /\ UNCHANGED <<memory, free, failed, target, owned>>
      /\ memory[table][s] # NotPresent /\ table' = memory[table][s]
  BY DEF IInv, TypeOK, FollowEntry
<1>2. s \in Slots
  BY <1>1, VirtualPage DEF SlotOf
<1>3. CASE failed
  <2>1. table' = Null
    BY <1>1, <1>2, <1>3 DEF IInv, InPageZero
  <2>2. TypeOK'
    BY <1>1, <2>1, Constants DEF IInv, TypeOK
  <2>3. InPageZero'
    BY <1>1, <1>3, <2>1 DEF IInv, InPageZero
  <2> QED
    BY <1>1, <1>3, <2>2, <2>3 DEF IInv
<1>4. CASE ~failed
  <2>1. PDPs' = PDPs /\ PDs' = PDs /\ PTs' = PTs /\ Tree'
    BY <1>1, <1>4, SameMemory DEF IInv
  <2>2. /\ level = 4 => table' \in PDPs /\ table' = PDPOf(target[1])
        /\ level = 3 => table' \in PDs /\ table' = PDOf(target[1])
        /\ level = 2 => table' \in PTs /\ table' = PTOf(target[1])
    <3>1. /\ level = 4 => table = Root /\ s = target[1][1]
          /\ level = 3 => table = PDPOf(target[1]) /\ table \in PDPs /\ s = target[1][2]
          /\ level = 2 => table = PDOf(target[1]) /\ table \in PDs /\ s = target[1][3]
          /\ table \in Tables
      BY <1>4 DEF IInv, TypeOK, OnPath, SlotOf
    <3>2. CASE level = 4
      BY <1>1, <1>2, <3>1, <3>2 DEF PDPs, Named, PDPOf, Follow
    <3>3. CASE level = 3
      BY <1>1, <1>2, <3>1, <3>3 DEF PDs, Named, PDOf, Follow
    <3>4. CASE level = 2
      BY <1>1, <1>2, <3>1, <3>4 DEF PTs, Named, PTOf, Follow
    <3> QED
      BY <1>1, <3>2, <3>3, <3>4
  <2>3. /\ PDPOf(target[1])' = PDPOf(target[1]) /\ PDOf(target[1])' = PDOf(target[1])
        /\ PTOf(target[1])' = PTOf(target[1])
    BY <1>1 DEF PDPOf, PDOf, PTOf, Follow
  <2>4. table' \in Tables
    BY <1>1, <1>4, <2>2, Constants DEF IInv, Levels
  <2>5. TypeOK'
    BY <1>1, <2>4 DEF IInv, TypeOK
  <2>6. OnPath'
    BY <1>1, <2>1, <2>2, <2>3 DEF OnPath
  <2>7. Levels' /\ Uses'
    BY <1>1, <1>4, <2>1 DEF IInv, Levels, Uses
  <2> QED
    BY <1>1, <1>4, <2>1, <2>5, <2>6, <2>7 DEF IInv
<1> QED
  BY <1>3, <1>4

\* The step of Descend that gets no frame.
Fail ==
    /\ level > 1 /\ level' = level - 1 /\ free = {}
    /\ LinkTable(Null, SlotOf(target[1], level)) /\ table' = Null /\ failed' = TRUE
    /\ UNCHANGED <<free, target, owned>>

\* It continues in page 0, cleared but for what it enters there itself.
LEMMA FailKeeps == IInv /\ Fail => IInv'
<1> SUFFICES ASSUME IInv, Fail PROVE IInv'
  OBVIOUS
<1> DEFINE s == SlotOf(target[1], level)
<1>1. level \in 2 .. 4 /\ target[1] \in VirtualPages
  BY DEF IInv, TypeOK, Fail
<1>2. s \in Slots
  BY <1>1, VirtualPage DEF SlotOf
<1>3. memory' \in [Tables -> Table] /\ Linked(memory, memory', table, s, Null)
  BY <1>2, LinkTableLinks, Constants DEF IInv, TypeOK, Fail
<1>4. failed' \in BOOLEAN
  BY Zenon DEF Fail
<1>5. TypeOK'
  BY <1>1, <1>3, <1>4, Constants DEF IInv, TypeOK, Fail
<1>6. \A r \in Slots : memory'[Null][r] \in {NotPresent, Null}
  BY <1>3, Constants DEF Linked
<1>7. InPageZero' /\ failed'
  BY <1>6 DEF Fail, InPageZero
<1> QED
  BY <1>5, <1>7 DEF IInv

\* Descend is one of the three.
LEMMA DescendCases ==
  ASSUME IInv, Descend
  PROVE  FollowEntry \/ Fail \/ (~failed /\ \E f \in free : Grow(f))
<1>1. CASE \E f \in free : FirstFree(f)
  BY <1>1 DEF Descend, FollowEntry, Grow, Fail, Present, Locked, IInv, InPageZero
<1>2. CASE ~\E f \in free : FirstFree(f)
  BY <1>2 DEF Descend, FollowEntry, Fail, Present
<1> QED
  BY <1>1, <1>2

\* Every step keeps the invariant.
LEMMA InvNext == IInv /\ [Next]_vars => IInv'
<1> SUFFICES ASSUME IInv, [Next]_vars PROVE IInv'
  OBVIOUS
<1>1. CASE Descend
  BY <1>1, DescendCases, FollowKeeps, FailKeeps, GrowKeeps
<1>2. CASE UNCHANGED vars
  <2>1. UNCHANGED <<memory, free, level, table, target, owned, failed>>
    BY <1>2 DEF vars
  <2>2. TypeOK'
    BY <2>1 DEF IInv, TypeOK
  <2>3. failed' => InPageZero'
    BY <2>1 DEF IInv, InPageZero
  <2>4. CASE ~failed
    <3>1. PDPs' = PDPs /\ PDs' = PDs /\ PTs' = PTs /\ Tree'
      BY <2>1, <2>4, SameMemory DEF IInv
    <3>2. Levels' /\ Uses'
      BY <2>1, <2>4, <3>1 DEF IInv, Levels, Uses
    <3>3. OnPath'
      BY <2>1, <2>4, <3>1 DEF IInv, OnPath, PDPOf, PDOf, PTOf, Follow
    <3> QED
      BY <2>2, <2>3, <3>1, <3>2, <3>3 DEF IInv
  <2> QED
    BY <2>1, <2>2, <2>3, <2>4 DEF IInv
<1> QED
  BY <1>1, <1>2, CallKeeps, EnterKeeps DEF Next

\* The invariant holds in every reachable state.
THEOREM Invariance == Spec => []IInv
  BY InvInit, InvNext, PTL DEF Spec

-----------------------------------------------------------------------------
(* What it says of the tables. *)

\* No frame is the table of two entries or of two levels.
THEOREM TreeHolds == Spec => []TablesFormTree
<1>1. IInv => TablesFormTree
  <2> SUFFICES ASSUME IInv, ~failed
               PROVE  /\ \A k, l \in 1 .. 4 : k # l => TablesAt[k] \cap TablesAt[l] = {}
                      /\ \A l \in 2 .. 4 : \A t, u \in TablesAt[l] : \A r, s \in Slots :
                            memory[t][r] = memory[u][s] /\ memory[t][r] # NotPresent => t = u /\ r = s
    BY DEF TablesFormTree, IInv
  <2>1. TablesAt[1] = PTs /\ TablesAt[2] = PDs /\ TablesAt[3] = PDPs /\ TablesAt[4] = {Root}
    BY DEF TablesAt
  <2>2. /\ PDPs \cap PDs = {} /\ PDPs \cap PTs = {} /\ PDs \cap PTs = {}
        /\ Root \notin PDPs /\ Root \notin PDs /\ Root \notin PTs
    BY Constants DEF IInv, Levels
  <2>3. \A k, l \in {1, 2, 3, 4} : k # l => TablesAt[k] \cap TablesAt[l] = {}
    BY <2>1, <2>2
  <2>4. \A l \in {2, 3, 4} : Distinct(TablesAt[l])
    BY <2>1 DEF IInv, Tree
  <2>5. 1 .. 4 = {1, 2, 3, 4} /\ 2 .. 4 = {2, 3, 4}
    OBVIOUS
  <2> QED
    BY <2>3, <2>4, <2>5 DEF Distinct
<1> QED
  BY <1>1, Invariance, PTL

\* No frame is used twice, and none is lost.
THEOREM OneUseHolds == Spec => []FramesHaveOneUse
<1>1. IInv => FramesHaveOneUse
  BY Constants DEF IInv, TypeOK, Levels, Uses, FramesHaveOneUse, InUse
<1> QED
  BY <1>1, Invariance, PTL

-----------------------------------------------------------------------------
(***************************************************************************)
(* map_memory implements the address space: the last step of a walk is the *)
(* mapping, and no step before it shows.                                   *)
(***************************************************************************)

\* The translations as the processor finds them are those of Translate.
LEMMA TranslatePage ==
  /\ \A v : Translate(v) = PageIn(memory, v)
  /\ [v \in VirtualPages |-> Translate(v)]' = [v \in VirtualPages |-> PageIn(memory', v)]
  BY DEF Translate, PageIn, PTIn, PDIn, PDPIn, Follow, FollowIn

\* Nothing is mapped at the start.
LEMMA SpaceInit == Init => Space!Init
<1> SUFFICES ASSUME Init PROVE Space!Init
  OBVIOUS
<1>1. \A r \in Slots : memory[Root][r] = NotPresent
  BY Constants DEF Init, Cleared
<1>2. ASSUME NEW v \in VirtualPages PROVE Translate(v) = NotPresent
  <2>1. v[1] \in Slots
    BY VirtualPage
  <2> QED
    BY <1>1, <2>1, Constants DEF Translate, Follow
<1>3. (~failed) = TRUE
  BY DEF Init
<1> QED
  BY <1>2, <1>3 DEF Space!Init

\* Steps that keep every translation do nothing.
LEMMA SpaceStutters ==
  ASSUME \A v \in VirtualPages : PageIn(memory', v) = PageIn(memory, v), failed' = failed
  PROVE  UNCHANGED <<[v \in VirtualPages |-> Translate(v)], ~failed>>
<1>1. [v \in VirtualPages |-> Translate(v)]' = [v \in VirtualPages |-> Translate(v)]
  BY TranslatePage
<1> QED
  BY <1>1

\* Every step of map_memory is a mapping, no step, or the end of the frames.
LEMMA SpaceNext ==
  IInv /\ [Next]_vars => [Space!Next]_<<[v \in VirtualPages |-> Translate(v)], ~failed>>
<1> SUFFICES ASSUME IInv, [Next]_vars
             PROVE  \/ Space!Next
                    \/ UNCHANGED <<[v \in VirtualPages |-> Translate(v)], ~failed>>
  OBVIOUS
<1>1. ASSUME failed' PROVE Space!Next
  BY <1>1 DEF Space!Next, Space!OutOfFrames
<1>2. CASE MapDevice \/ MapRequested \/ MapRefused \/ UNCHANGED vars
  <2>1. memory' = memory /\ failed' = failed
    BY <1>2 DEF MapDevice, MapRequested, MapRefused, vars
  <2> QED
    BY <2>1, SpaceStutters
<1>3. CASE Descend
  <2>1. CASE FollowEntry
    <3>1. memory' = memory /\ failed' = failed
      BY <2>1 DEF FollowEntry
    <3> QED
      BY <3>1, SpaceStutters
  <2>2. CASE Fail
    <3>1. failed'
      BY <2>2 DEF Fail
    <3> QED
      BY <1>1, <3>1
  <2>3. ASSUME ~failed, NEW f \in free, Grow(f)
        PROVE  UNCHANGED <<[v \in VirtualPages |-> Translate(v)], ~failed>>
    <3>1. \A v \in VirtualPages : PageIn(memory', v) = PageIn(memory, v)
      BY <2>3, GrowPaths
    <3>2. failed' = failed
      BY <2>3 DEF Grow
    <3> QED
      BY <3>1, <3>2, SpaceStutters
  <2> QED
    BY <1>3, <2>1, <2>2, <2>3, DescendCases
<1>4. CASE Enter /\ ~failed
  <2>1. /\ failed' = failed /\ target[1] \in VirtualPages /\ target[2] \in PhysicalPages
    BY <1>4 DEF Enter, IInv, TypeOK
  <2>2. \A v \in VirtualPages :
           PageIn(memory', v) = IF v = target[1] THEN target[2] ELSE PageIn(memory, v)
    BY <1>4, EnterKeepsTree
  <2>3. [v \in VirtualPages |-> Translate(v)]'
           = [[v \in VirtualPages |-> Translate(v)] EXCEPT ![target[1]] = target[2]]
    BY <2>1, <2>2, TranslatePage
  <2>4. Space!Map(target[1], target[2])
    BY <1>4, <2>1, <2>3 DEF Space!Map
  <2> QED
    BY <2>1, <2>4 DEF Space!Next
<1>5. CASE Enter /\ failed
  <2>1. failed'
    BY <1>5 DEF Enter
  <2> QED
    BY <1>1, <2>1
<1> QED
  BY <1>2, <1>3, <1>4, <1>5 DEF Next

\* For every set of virtual pages, frames and devices map_memory changes the
\* translation of its own page and of no other.
THEOREM Refinement == Spec => ImplementsAddressSpace
  BY SpaceInit, SpaceNext, Invariance, PTL DEF Spec, ImplementsAddressSpace, Space!Spec
=============================================================================
