----------------------------- MODULE HeapProofs -----------------------------
(***************************************************************************)
(* Proofs about Heap, for every size of heap and page, every set of        *)
(* requests and every number of page frames, and about HeapPreemption.     *)
(***************************************************************************)
EXTENDS HeapPreemption, TLAPS

-----------------------------------------------------------------------------
(* Sizes. *)

\* What is rounded up to whole units is no less, and not nothing.
LEMMA RoundUpBounds ==
  ASSUME NEW n \in Nat \ {0}, NEW unit \in Nat \ {0}
  PROVE  RoundUp(n, unit) \in Nat /\ RoundUp(n, unit) >= n /\ RoundUp(n, unit) >= unit
<1> DEFINE q == (n + unit - 1) \div unit
           r == (n + unit - 1) % unit
<1>1. q \in Int /\ r \in 0 .. unit - 1 /\ n + unit - 1 = unit * q + r
  BY Z3
<1> HIDE DEF q, r
<1>2. unit * q >= n
  BY <1>1
<1>3. q >= 1
  BY <1>1, <1>2
<1>4. unit * q >= unit
  BY <1>3, <1>1
<1>5. q * unit = unit * q
  BY <1>1
<1> QED
  BY <1>1, <1>2, <1>4, <1>5 DEF RoundUp, q

-----------------------------------------------------------------------------
(***************************************************************************)
(* A list of blocks: what mem.cpp keeps true of the headers, without       *)
(* reference to who uses them.                                             *)
(***************************************************************************)

\* Headers at addresses of the heap, the first at its start.
Headers(h) ==
    /\ DOMAIN h \subseteq Nat /\ 0 \in DOMAIN h
    /\ h \in [DOMAIN h -> Node]

\* Each block ends where the next one starts, and that one points back.
NextOK(h) ==
    \A a \in DOMAIN h : h[a].next # Null =>
        /\ h[a].next = EndOf(h, a)
        /\ h[a].next \in DOMAIN h
        /\ h[h[a].next].prev = a

\* Only the first block has none before it; the others' predecessor points to them.
PrevOK(h) ==
    \A a \in DOMAIN h :
        /\ h[a].prev = Null <=> a = 0
        /\ h[a].prev # Null => h[a].prev \in DOMAIN h /\ h[h[a].prev].next = a

\* Blocks do not overlap.
Apart(h) == \A a, b \in DOMAIN h : a < b => EndOf(h, a) <= b

\* One block ends the list.
OneLast(h) == \E l \in DOMAIN h : \A a \in DOMAIN h : h[a].next = Null <=> a = l

Chain(h) == Headers(h) /\ NextOK(h) /\ PrevOK(h) /\ Apart(h) /\ OneLast(h)

\* No block reaches past e; the last one ends there.
Below(h, e) == \A a \in DOMAIN h : EndOf(h, a) <= e
EndsAt(h, e) == \A a \in DOMAIN h : h[a].next = Null => EndOf(h, a) = e

\* No free block but those of S is followed by a free one.
NoNeighbours(h, S) ==
    \A a \in DOMAIN h \ S : h[a].next # Null => h[a].used \/ h[h[a].next].used

\* The used blocks are those clients hold, each of just the bytes promised.
Held(h, l) ==
    /\ \A p \in DOMAIN l :
          p - Hdr \in DOMAIN h /\ h[p - Hdr].used /\ l[p] = h[p - Hdr].size
    /\ \A a \in DOMAIN h : h[a].used => a + Hdr \in DOMAIN l

(***************************************************************************)
(* The inductive invariant.  The list says nothing of clients, and clients *)
(* must know that their blocks are used: an unused block could be handed   *)
(* out again.  That the last block ends at the end of the heap holds until *)
(* an expansion loses its pages.                                           *)
(***************************************************************************)
Types ==
    /\ heap_end \in Nat /\ heap_end >= HeapLength
    /\ used_memory_total \in Int /\ frames \in Nat
    /\ want \in Nat \cup {Null} /\ want # 0
    /\ DOMAIN live \subseteq Nat /\ \A p \in DOMAIN live : live[p] \in Nat
    /\ wild \in BOOLEAN

Ungrown == heap_end = HeapLength => NoNeighbours(node, {}) /\ EndsAt(node, heap_end)

IInv == Types /\ Chain(node) /\ Below(node, heap_end) /\ Held(node, live) /\ Ungrown

-----------------------------------------------------------------------------
(***************************************************************************)
(* malloc splits a block.                                                  *)
(***************************************************************************)

\* What Split does to each header, when the block holds s bytes and a header.
LEMMA SplitShape ==
  ASSUME NEW h, Chain(h), NEW b \in DOMAIN h, NEW s \in Nat, h[b].size >= s + Hdr,
         NEW rest, rest = b + Hdr + s, NEW r, r = Split(h, b, s)
  PROVE  /\ rest \in Nat /\ rest > b /\ rest \notin DOMAIN h
         /\ DOMAIN r = DOMAIN h \cup {rest}
         /\ r[b] = [size |-> s, used |-> TRUE, next |-> rest, prev |-> h[b].prev]
         /\ r[rest] = [size |-> h[b].size - s - Hdr, used |-> FALSE,
                       next |-> h[b].next, prev |-> b]
         /\ \A a \in DOMAIN h \ {b} :
               r[a] = IF a = h[b].next THEN [h[a] EXCEPT !.prev = rest] ELSE h[a]
<1>1. b \in Nat /\ h[b] \in Node
  BY DEF Chain, Headers
<1>2. rest \in Nat /\ rest > b /\ EndOf(h, b) > rest
  BY <1>1 DEF EndOf, Node, Hdr
<1>3. rest \notin DOMAIN h
  BY <1>2, <1>1 DEF Chain, Apart, EndOf, Node, Hdr
<1>4. DOMAIN r = DOMAIN h \cup {rest}
  BY DEF Split
<1>5. r[b] = [size |-> s, used |-> TRUE, next |-> rest, prev |-> h[b].prev]
  BY <1>1, <1>2 DEF Split
<1>6. r[rest] = [size |-> h[b].size - s - Hdr, used |-> FALSE, next |-> h[b].next, prev |-> b]
  BY <1>2, <1>1 DEF Split
<1>7. \A a \in DOMAIN h \ {b} :
          r[a] = IF a = h[b].next THEN [h[a] EXCEPT !.prev = rest] ELSE h[a]
  BY <1>3 DEF Split
<1> QED
  BY <1>2, <1>3, <1>4, <1>5, <1>6, <1>7

\* The list after a split is a list, and the rest is its only new free block.
LEMMA SplitChain ==
  ASSUME NEW h, Chain(h), NEW b \in DOMAIN h, NEW s \in Nat, h[b].size >= s + Hdr,
         NEW r, r = Split(h, b, s)
  PROVE  Chain(r)
<1> DEFINE rest == b + Hdr + s
<1>1. /\ rest \in Nat /\ rest > b /\ rest \notin DOMAIN h
      /\ DOMAIN r = DOMAIN h \cup {rest}
      /\ r[b] = [size |-> s, used |-> TRUE, next |-> rest, prev |-> h[b].prev]
      /\ r[rest] = [size |-> h[b].size - s - Hdr, used |-> FALSE,
                    next |-> h[b].next, prev |-> b]
      /\ \A a \in DOMAIN h \ {b} :
            r[a] = IF a = h[b].next THEN [h[a] EXCEPT !.prev = rest] ELSE h[a]
  BY SplitShape
<1>2. Headers(h) /\ NextOK(h) /\ PrevOK(h) /\ Apart(h) /\ OneLast(h)
  BY DEF Chain
<1>3. \A a \in DOMAIN h : a \in Nat /\ h[a] \in Node
  BY <1>2 DEF Headers
<1>4. \A a \in DOMAIN h \ {b} :
          r[a].size = h[a].size /\ r[a].used = h[a].used /\ r[a].next = h[a].next
  BY <1>1, <1>3 DEF Node
<1>5. \A a \in DOMAIN h \ {b} : r[a].prev = IF a = h[b].next THEN rest ELSE h[a].prev
  BY <1>1, <1>3 DEF Node
<1>6. /\ r[b].size = s /\ r[b].next = rest /\ r[b].prev = h[b].prev
      /\ r[rest].size = h[b].size - s - Hdr /\ r[rest].next = h[b].next /\ r[rest].prev = b
  BY <1>1
<1>7. rest = b + Hdr + s /\ b \in Nat
  BY <1>3
<1> HIDE DEF rest
<1>8. Headers(r)
  <2>1. r[b] \in Node
    <3>1. TRUE \in BOOLEAN
      BY Zenon
    <3> QED
      BY <1>1, <1>3, <3>1 DEF Node
  <2>2. r[rest] \in Node
    <3>1. FALSE \in BOOLEAN
      BY Zenon
    <3>2. h[b].size - s - Hdr \in Nat
      BY <1>3 DEF Node, Hdr
    <3> QED
      BY <1>1, <1>3, <3>1, <3>2 DEF Node
  <2>3. \A a \in DOMAIN h \ {b} : r[a] \in Node
    BY <1>1, <1>3 DEF Node
  <2>4. r = [a \in DOMAIN r |-> r[a]]
    BY DEF Split
  <2>5. DOMAIN r \subseteq Nat /\ 0 \in DOMAIN r
    BY <1>1, <1>2 DEF Headers
  <2>6. \A a \in DOMAIN r : r[a] \in Node
    BY <1>1, <2>1, <2>2, <2>3
  <2> QED
    BY <2>4, <2>5, <2>6 DEF Headers
<1>9. NextOK(r)
  <2> SUFFICES ASSUME NEW a \in DOMAIN r, r[a].next # Null
               PROVE  /\ r[a].next = EndOf(r, a) /\ r[a].next \in DOMAIN r
                      /\ r[r[a].next].prev = a
    BY DEF NextOK
  <2>1. CASE a = b
    BY <1>1, <1>6, <1>7, <2>1 DEF EndOf
  <2>2. CASE a = rest
    <3>1. h[b].next = EndOf(h, b) /\ h[b].next \in DOMAIN h
      BY <1>2, <1>6, <2>2 DEF NextOK
    <3>2. h[b].next # b
      BY <1>3, <3>1 DEF EndOf, Node, Hdr
    <3>3. r[h[b].next].prev = rest
      BY <1>5, <3>1, <3>2
    <3>4. EndOf(r, rest) = EndOf(h, b)
      BY <1>3, <1>6, <1>7 DEF EndOf, Node, Hdr
    <3> QED
      BY <1>1, <1>6, <2>2, <3>1, <3>3, <3>4
  <2>3. CASE a # b /\ a # rest
    <3>1. a \in DOMAIN h /\ h[a].next # Null /\ r[a].next = h[a].next
      BY <1>1, <1>4, <2>3
    <3>2. h[a].next = EndOf(h, a) /\ h[a].next \in DOMAIN h /\ h[h[a].next].prev = a
      BY <1>2, <3>1 DEF NextOK
    <3>3. r[h[a].next].prev = a
      <4>1. CASE h[a].next = b
        BY <1>6, <3>2, <4>1
      <4>2. CASE h[a].next # b
        <5>1. h[b].next = h[a].next => h[h[b].next].prev = b
          BY <1>2, <3>1 DEF NextOK
        <5> QED
          BY <1>5, <2>3, <3>2, <4>2, <5>1
      <4> QED
        BY <4>1, <4>2
    <3> QED
      BY <1>1, <1>4, <2>3, <3>1, <3>2, <3>3 DEF EndOf
  <2> QED
    BY <2>1, <2>2, <2>3
<1>10. PrevOK(r)
  <2> SUFFICES ASSUME NEW a \in DOMAIN r
               PROVE  /\ r[a].prev = Null <=> a = 0
                      /\ r[a].prev # Null => r[a].prev \in DOMAIN r /\ r[r[a].prev].next = a
    BY DEF PrevOK
  <2>1. CASE a = b
    <3>1. h[b].prev = Null <=> b = 0
      BY <1>2 DEF PrevOK
    <3>2. ASSUME h[b].prev # Null
          PROVE  h[b].prev \in DOMAIN r /\ r[h[b].prev].next = b
      <4>1. h[b].prev \in DOMAIN h /\ h[h[b].prev].next = b
        BY <1>2, <3>2 DEF PrevOK
      <4>2. h[b].prev # b
        <5>1. h[b].next # b
          BY <1>2, <1>3 DEF NextOK, EndOf, Node, Hdr, Null
        <5> QED
          BY <4>1, <5>1
      <4> QED
        BY <1>1, <1>4, <4>1, <4>2
    <3> QED
      BY <1>6, <2>1, <3>1, <3>2
  <2>2. CASE a = rest
    BY <1>1, <1>6, <1>7, <2>2 DEF Null
  <2>3. CASE a # b /\ a # rest
    <3>1. a \in DOMAIN h
      BY <1>1, <2>3
    <3>2. CASE a = h[b].next
      <4>1. a > b
        BY <1>2, <1>3, <3>1, <3>2 DEF NextOK, EndOf, Node, Hdr, Null
      <4> QED
        BY <1>1, <1>5, <1>6, <1>7, <2>3, <3>1, <3>2, <4>1 DEF Null
    <3>3. CASE a # h[b].next
      <4>1. r[a].prev = h[a].prev
        BY <1>5, <2>3, <3>1, <3>3
      <4>2. h[a].prev # Null => h[a].prev \in DOMAIN h \ {b} /\ h[h[a].prev].next = a
        BY <1>2, <3>1, <3>3 DEF PrevOK
      <4> QED
        BY <1>1, <1>2, <1>4, <3>1, <4>1, <4>2 DEF PrevOK
    <3> QED
      BY <3>2, <3>3
  <2> QED
    BY <2>1, <2>2, <2>3
<1>11. Apart(r)
  <2> SUFFICES ASSUME NEW x \in DOMAIN r, NEW y \in DOMAIN r, x < y PROVE EndOf(r, x) <= y
    BY DEF Apart
  <2>1. \A a \in DOMAIN h \ {b} : EndOf(r, a) = EndOf(h, a)
    BY <1>4 DEF EndOf
  <2>2. /\ EndOf(r, b) = rest /\ EndOf(r, rest) = EndOf(h, b)
        /\ EndOf(h, b) \in Nat /\ EndOf(h, b) > rest
    BY <1>3, <1>6, <1>7 DEF EndOf, Node, Hdr
  <2>3. \A a \in DOMAIN h : b < a => EndOf(h, b) <= a
    BY <1>2 DEF Apart
  <2>4. \A a \in DOMAIN h : a < b => EndOf(h, a) <= b
    BY <1>2 DEF Apart
  <2>5. CASE x = b
    BY <1>1, <1>3, <1>7, <2>2, <2>3, <2>5
  <2>6. CASE x = rest
    BY <1>1, <1>3, <1>7, <2>2, <2>3, <2>6
  <2>7. CASE x # b /\ x # rest
    <3>1. x \in DOMAIN h /\ x \in Nat /\ EndOf(r, x) = EndOf(h, x) /\ EndOf(h, x) \in Nat
      BY <1>1, <1>3, <2>1, <2>7 DEF EndOf, Node, Hdr
    <3>2. CASE y = rest
      <4>1. x < b
        BY <1>1, <1>3, <1>7, <2>2, <2>3, <2>7, <3>1, <3>2
      <4> QED
        BY <1>1, <1>7, <2>4, <3>1, <3>2, <4>1
    <3>3. CASE y # rest
      BY <1>1, <1>2, <3>1, <3>3 DEF Apart
    <3> QED
      BY <3>2, <3>3
  <2> QED
    BY <2>5, <2>6, <2>7
<1>12. OneLast(r)
  <2>1. PICK l \in DOMAIN h : \A a \in DOMAIN h : h[a].next = Null <=> a = l
    BY <1>2 DEF OneLast
  <2>2. rest # Null
    BY <1>1 DEF Null
  <2>3. CASE l = b
    <3>1. \A a \in DOMAIN r : r[a].next = Null <=> a = rest
      BY <1>1, <1>4, <1>6, <2>1, <2>2, <2>3
    <3> QED
      BY <1>1, <3>1 DEF OneLast
  <2>4. CASE l # b
    <3>1. \A a \in DOMAIN r : r[a].next = Null <=> a = l
      BY <1>1, <1>4, <1>6, <2>1, <2>2, <2>4
    <3> QED
      BY <1>1, <2>1, <3>1 DEF OneLast
  <2> QED
    BY <2>3, <2>4
<1> QED
  BY <1>8, <1>9, <1>10, <1>11, <1>12 DEF Chain

\* And what is said of a list besides stays true: where it ends, that no two
\* free blocks are neighbours when the block was free, and which are used.
LEMMA SplitKeeps ==
  ASSUME NEW h, Chain(h), NEW b \in DOMAIN h, NEW s \in Nat, h[b].size >= s + Hdr,
         ~h[b].used, NEW r, r = Split(h, b, s)
  PROVE  /\ \A e \in Int : Below(h, e) => Below(r, e)
         /\ \A e \in Int : EndsAt(h, e) => EndsAt(r, e)
         /\ NoNeighbours(h, {}) => NoNeighbours(r, {})
         /\ r[b].used /\ r[b].size = s
         /\ \A a \in DOMAIN r \ {b} : r[a].used => a \in DOMAIN h /\ h[a].used
         /\ \A a \in DOMAIN h \ {b} : r[a].used = h[a].used /\ r[a].size = h[a].size
         /\ DOMAIN h \subseteq DOMAIN r
<1> DEFINE rest == b + Hdr + s
<1>1. /\ rest \in Nat /\ rest > b /\ rest \notin DOMAIN h
      /\ DOMAIN r = DOMAIN h \cup {rest}
      /\ r[b] = [size |-> s, used |-> TRUE, next |-> rest, prev |-> h[b].prev]
      /\ r[rest] = [size |-> h[b].size - s - Hdr, used |-> FALSE,
                    next |-> h[b].next, prev |-> b]
      /\ \A a \in DOMAIN h \ {b} :
            r[a] = IF a = h[b].next THEN [h[a] EXCEPT !.prev = rest] ELSE h[a]
  <2> rest = b + Hdr + s
    OBVIOUS
  <2> HIDE DEF rest
  <2> QED
    BY SplitShape
<1>2. NextOK(h)
  BY DEF Chain
<1>3. \A a \in DOMAIN h : a \in Nat /\ h[a] \in Node
  BY DEF Chain, Headers
<1>4. \A a \in DOMAIN h \ {b} :
          r[a].size = h[a].size /\ r[a].used = h[a].used /\ r[a].next = h[a].next
  BY <1>1, <1>3 DEF Node
<1>5. /\ r[b].size = s /\ r[b].next = rest /\ r[b].used
      /\ r[rest].size = h[b].size - s - Hdr /\ r[rest].next = h[b].next /\ ~r[rest].used
  BY <1>1
<1>6. rest = b + Hdr + s /\ b \in Nat /\ rest # Null
  BY <1>1, <1>3 DEF Null
<1> HIDE DEF rest
<1>7. /\ \A a \in DOMAIN h \ {b} : EndOf(r, a) = EndOf(h, a)
      /\ EndOf(r, b) = rest /\ EndOf(r, rest) = EndOf(h, b)
      /\ EndOf(h, b) \in Nat /\ EndOf(h, b) > rest
  BY <1>3, <1>4, <1>5, <1>6 DEF EndOf, Node, Hdr
<1>8. ASSUME NEW e \in Int, Below(h, e) PROVE Below(r, e)
  BY <1>1, <1>6, <1>7, <1>8 DEF Below
<1>9. ASSUME NEW e \in Int, EndsAt(h, e) PROVE EndsAt(r, e)
  <2> SUFFICES ASSUME NEW a \in DOMAIN r, r[a].next = Null PROVE EndOf(r, a) = e
    BY DEF EndsAt
  <2>1. a # b
    BY <1>5, <1>6
  <2>2. CASE a = rest
    BY <1>5, <1>7, <1>9, <2>2 DEF EndsAt
  <2>3. CASE a # rest
    BY <1>1, <1>4, <1>7, <1>9, <2>1, <2>3 DEF EndsAt
  <2> QED
    BY <2>2, <2>3
<1>10. ASSUME NoNeighbours(h, {}) PROVE NoNeighbours(r, {})
  <2> SUFFICES ASSUME NEW a \in DOMAIN r, r[a].next # Null, ~r[a].used
               PROVE  r[r[a].next].used
    BY DEF NoNeighbours
  <2>1. CASE a = rest
    <3>1. h[b].next # Null /\ h[h[b].next].used
      BY <1>5, <1>10, <2>1 DEF NoNeighbours
    <3> QED
      BY <1>2, <1>4, <1>5, <2>1, <3>1 DEF NextOK
  <2>2. CASE a # rest
    <3>1. a \in DOMAIN h \ {b} /\ h[a].next # Null /\ ~h[a].used
      BY <1>1, <1>4, <1>5, <2>2
    <3>2. h[a].next \in DOMAIN h /\ h[h[a].next].used
      BY <1>2, <1>10, <3>1 DEF NoNeighbours, NextOK
    <3> QED
      BY <1>4, <1>5, <3>1, <3>2
  <2> QED
    BY <2>1, <2>2
<1> QED
  BY <1>1, <1>4, <1>5, <1>8, <1>9, <1>10

-----------------------------------------------------------------------------
(***************************************************************************)
(* free merges a block with its free neighbours.  A merge with the one     *)
(* below is that block's merge with the next.                              *)
(***************************************************************************)

\* How the list r comes from merging block n, which follows c, into c.
Merged(h, c, n, r) ==
    /\ n \in DOMAIN h /\ n > c /\ n = EndOf(h, c) /\ h[n].prev = c
    /\ h[n].next # Null => h[n].next \in DOMAIN h /\ h[n].next > n /\ h[n].next # c
    /\ DOMAIN r = DOMAIN h \ {n} /\ r = [a \in DOMAIN r |-> r[a]]
    /\ r[c] = [h[c] EXCEPT !.size = @ + h[n].size + Hdr, !.next = h[n].next]
    /\ \A a \in DOMAIN r \ {c} :
          r[a] = IF a = h[n].next THEN [h[a] EXCEPT !.prev = c] ELSE h[a]

\* MergeNext merges the next block into the current one.
LEMMA MergeShape ==
  ASSUME NEW h, Chain(h), NEW c \in DOMAIN h, NextIsFree(h, c)
  PROVE  Merged(h, c, h[c].next, MergeNext(h, c))
<1> DEFINE n == h[c].next
           r == MergeNext(h, c)
<1>1. \A a \in DOMAIN h : a \in Nat /\ h[a] \in Node
  BY DEF Chain, Headers
<1>2. n # Null /\ n \in DOMAIN h /\ n = EndOf(h, c) /\ h[n].prev = c
  BY DEF NextIsFree, Chain, NextOK
<1>3. n > c
  BY <1>1, <1>2 DEF EndOf, Node, Hdr
<1>4. ASSUME h[n].next # Null
      PROVE  h[n].next \in DOMAIN h /\ h[n].next > n /\ h[n].next # c
  <2>1. h[n].next = EndOf(h, n) /\ h[n].next \in DOMAIN h
    BY <1>2, <1>4 DEF Chain, NextOK
  <2>2. h[n].next > n
    BY <1>1, <1>2, <2>1 DEF EndOf, Node, Hdr
  <2> QED
    BY <1>1, <1>2, <1>3, <2>1, <2>2
<1>5. r = [a \in DOMAIN h \ {n} |->
             CASE a = c -> [h[c] EXCEPT !.size = @ + h[n].size + Hdr, !.next = h[n].next]
               [] a = h[n].next /\ a # c -> [h[a] EXCEPT !.prev = c]
               [] OTHER -> h[a]]
  BY DEF MergeNext
<1>6. DOMAIN r = DOMAIN h \ {n} /\ r = [a \in DOMAIN r |-> r[a]]
  BY <1>5
<1>7. r[c] = [h[c] EXCEPT !.size = @ + h[n].size + Hdr, !.next = h[n].next]
  BY <1>1, <1>2, <1>3, <1>5
<1>8. \A a \in DOMAIN r \ {c} :
         r[a] = IF a = h[n].next THEN [h[a] EXCEPT !.prev = c] ELSE h[a]
  BY <1>5, <1>6
<1> QED
  BY <1>2, <1>3, <1>4, <1>6, <1>7, <1>8 DEF Merged

\* The list after a merge is a list.
LEMMA MergeChain ==
  ASSUME NEW h, Chain(h), NEW c \in DOMAIN h, NextIsFree(h, c), NEW r, r = MergeNext(h, c)
  PROVE  Chain(r)
<1> DEFINE n == h[c].next
<1>0. /\ n \in DOMAIN h /\ n > c /\ n = EndOf(h, c) /\ h[n].prev = c
      /\ h[n].next # Null => h[n].next \in DOMAIN h /\ h[n].next > n /\ h[n].next # c
      /\ DOMAIN r = DOMAIN h \ {n} /\ r = [a \in DOMAIN r |-> r[a]]
      /\ r[c] = [h[c] EXCEPT !.size = @ + h[n].size + Hdr, !.next = h[n].next]
      /\ \A a \in DOMAIN r \ {c} :
            r[a] = IF a = h[n].next THEN [h[a] EXCEPT !.prev = c] ELSE h[a]
  <2>1. Merged(h, c, n, r)
    BY MergeShape
  <2> HIDE DEF n
  <2> QED
    BY <2>1 DEF Merged
<1>1. h[c].next = n
  OBVIOUS
<1> HIDE DEF n
<1>2. Headers(h) /\ NextOK(h) /\ PrevOK(h) /\ Apart(h) /\ OneLast(h)
  BY DEF Chain
<1>3. \A a \in DOMAIN h : a \in Nat /\ h[a] \in Node
  BY <1>2 DEF Headers
<1>4. /\ r[c].size = h[c].size + h[n].size + Hdr /\ r[c].next = h[n].next
      /\ r[c].used = h[c].used /\ r[c].prev = h[c].prev
  BY <1>0, <1>3 DEF Node
<1>5. \A a \in DOMAIN r \ {c} : /\ r[a].size = h[a].size /\ r[a].used = h[a].used
                               /\ r[a].next = h[a].next
  BY <1>0, <1>3 DEF Node
<1>6. \A a \in DOMAIN r \ {c} : r[a].prev = IF a = h[n].next THEN c ELSE h[a].prev
  BY <1>0, <1>3 DEF Node
<1>7. /\ c \in DOMAIN r /\ n # c /\ c \in Nat /\ n \in Nat
      /\ \A a \in DOMAIN h : a = c \/ a = n \/ a \in DOMAIN r \ {c}
      /\ \A a \in DOMAIN r : a \in DOMAIN h /\ a # n
  BY <1>0, <1>3
<1>8. Headers(r)
  <2>1. r[c] \in Node
    <3>1. h[c].size + h[n].size + Hdr \in Nat
      BY <1>0, <1>3 DEF Node, Hdr
    <3> QED
      BY <1>0, <1>3, <3>1 DEF Node
  <2>2. \A a \in DOMAIN r \ {c} : r[a] \in Node
    BY <1>0, <1>3, <1>7 DEF Node
  <2>3. DOMAIN r \subseteq Nat /\ 0 \in DOMAIN r
    BY <1>0, <1>2, <1>7 DEF Headers
  <2>4. \A a \in DOMAIN r : r[a] \in Node
    BY <2>1, <2>2
  <2> QED
    BY <1>0, <2>3, <2>4 DEF Headers
<1>9. NextOK(r)
  <2> SUFFICES ASSUME NEW a \in DOMAIN r, r[a].next # Null
               PROVE  /\ r[a].next = EndOf(r, a) /\ r[a].next \in DOMAIN r
                      /\ r[r[a].next].prev = a
    BY DEF NextOK
  <2>1. CASE a = c
    <3>1. h[n].next # Null /\ r[a].next = h[n].next
      BY <1>4, <2>1
    <3>2. h[n].next = EndOf(h, n) /\ h[n].next \in DOMAIN r \ {c}
      BY <1>0, <1>2, <1>3, <1>7, <3>1 DEF NextOK
    <3>3. EndOf(r, c) = EndOf(h, n)
      BY <1>0, <1>3, <1>4, <1>7 DEF EndOf, Node, Hdr
    <3> QED
      BY <1>6, <2>1, <3>1, <3>2, <3>3
  <2>2. CASE a # c
    <3>1. a \in DOMAIN h /\ h[a].next # Null /\ r[a].next = h[a].next
      BY <1>5, <1>7, <2>2
    <3>2. h[a].next = EndOf(h, a) /\ h[a].next \in DOMAIN h /\ h[h[a].next].prev = a
      BY <1>2, <3>1 DEF NextOK
    <3>3. h[a].next # n
      BY <1>0, <2>2, <3>2
    <3>4. r[h[a].next].prev = a
      <4>1. CASE h[a].next = c
        BY <1>4, <3>2, <4>1
      <4>2. CASE h[a].next # c
        <5>1. h[a].next # h[n].next
          <6>1. h[n].next # Null => h[h[n].next].prev = n
            BY <1>0, <1>2 DEF NextOK
          <6> QED
            BY <1>7, <3>1, <3>2, <6>1
        <5> QED
          BY <1>6, <1>7, <3>2, <3>3, <4>2, <5>1
      <4> QED
        BY <4>1, <4>2
    <3> QED
      BY <1>0, <1>5, <2>2, <3>1, <3>2, <3>3, <3>4 DEF EndOf
  <2> QED
    BY <2>1, <2>2
<1>10. PrevOK(r)
  <2> SUFFICES ASSUME NEW a \in DOMAIN r
               PROVE  /\ r[a].prev = Null <=> a = 0
                      /\ r[a].prev # Null => r[a].prev \in DOMAIN r /\ r[r[a].prev].next = a
    BY DEF PrevOK
  <2>1. \A x \in DOMAIN h : h[x].next = a => x = h[a].prev
    BY <1>2, <1>3, <1>7 DEF NextOK, Null
  <2>2. CASE a # c /\ a = h[n].next
    <3>1. a > n
      BY <1>0, <1>3, <1>7, <2>2 DEF Null
    <3> QED
      BY <1>3, <1>4, <1>6, <1>7, <2>2, <3>1 DEF Null
  <2>3. CASE a = c \/ a # h[n].next
    <3>0. a # h[n].next
      BY <1>0, <1>7, <2>3 DEF Null
    <3>1. r[a].prev = h[a].prev /\ a # h[n].next
      BY <1>4, <1>6, <3>0
    <3>2. /\ h[a].prev = Null <=> a = 0
          /\ h[a].prev # Null => h[a].prev \in DOMAIN h /\ h[h[a].prev].next = a
      BY <1>2, <1>7 DEF PrevOK
    <3>3. h[a].prev # n /\ (h[a].prev = c => a = n)
      BY <1>1, <1>7, <3>1, <3>2 DEF Null
    <3> QED
      BY <1>5, <1>7, <3>1, <3>2, <3>3
  <2> QED
    BY <2>2, <2>3
<1>11. Apart(r)
  <2> SUFFICES ASSUME NEW x \in DOMAIN r, NEW y \in DOMAIN r, x < y PROVE EndOf(r, x) <= y
    BY DEF Apart
  <2>1. CASE x = c
    <3>1. EndOf(r, c) = EndOf(h, n)
      BY <1>0, <1>3, <1>4, <1>7 DEF EndOf, Node, Hdr
    <3>2. n < y
      BY <1>0, <1>2, <1>3, <1>7, <2>1 DEF Apart
    <3> QED
      BY <1>0, <1>2, <1>7, <2>1, <3>1, <3>2 DEF Apart
  <2>2. CASE x # c
    BY <1>2, <1>5, <1>7, <2>2 DEF Apart, EndOf
  <2> QED
    BY <2>1, <2>2
<1>12. OneLast(r)
  <2>1. PICK l \in DOMAIN h : \A a \in DOMAIN h : h[a].next = Null <=> a = l
    BY <1>2 DEF OneLast
  <2>2. l # c
    BY <1>0, <1>1, <1>7, <2>1 DEF Null
  <2>3. CASE l = n
    <3>1. \A a \in DOMAIN r : r[a].next = Null <=> a = c
      BY <1>0, <1>4, <1>5, <1>7, <2>1, <2>3
    <3> QED
      BY <1>7, <3>1 DEF OneLast
  <2>4. CASE l # n
    <3>1. l \in DOMAIN r
      BY <1>0, <2>4
    <3>2. ASSUME NEW a \in DOMAIN r PROVE r[a].next = Null <=> a = l
      <4>1. CASE a = c
        BY <1>0, <1>4, <2>1, <2>2, <2>4, <4>1
      <4>2. CASE a # c
        BY <1>5, <1>7, <2>1, <4>2
      <4> QED
        BY <4>1, <4>2
    <3> QED
      BY <3>1, <3>2 DEF OneLast
  <2> QED
    BY <2>3, <2>4
<1> QED
  BY <1>8, <1>9, <1>10, <1>11, <1>12 DEF Chain

\* r is a list that ends where h does and has the used blocks of h, all of them
\* and no others.
Keeps(h, r) ==
    /\ Chain(r)
    /\ \A e \in Int : (Below(h, e) => Below(r, e)) /\ (EndsAt(h, e) => EndsAt(r, e))
    /\ \A a \in DOMAIN h : h[a].used => a \in DOMAIN r /\ r[a].used /\ r[a].size = h[a].size
    /\ \A a \in DOMAIN r : a \in DOMAIN h /\ (r[a].used => h[a].used)

\* A merge of two free blocks keeps the list, and what follows the merged block
\* is used, when it was before.
LEMMA MergeKeeps ==
  ASSUME NEW h, Chain(h), NEW c \in DOMAIN h, NextIsFree(h, c), ~h[c].used,
         NEW r, r = MergeNext(h, c)
  PROVE  /\ Keeps(h, r)
         /\ c \in DOMAIN r /\ ~r[c].used /\ r[c].prev = h[c].prev
         /\ \A S : NoNeighbours(h, S) /\ h[c].next \notin S => NoNeighbours(r, S \ {c})
<1> DEFINE n == h[c].next
<1>0. /\ n \in DOMAIN h /\ n > c /\ n = EndOf(h, c) /\ h[n].prev = c
      /\ h[n].next # Null => h[n].next \in DOMAIN h /\ h[n].next > n /\ h[n].next # c
      /\ DOMAIN r = DOMAIN h \ {n} /\ r = [a \in DOMAIN r |-> r[a]]
      /\ r[c] = [h[c] EXCEPT !.size = @ + h[n].size + Hdr, !.next = h[n].next]
      /\ \A a \in DOMAIN r \ {c} :
            r[a] = IF a = h[n].next THEN [h[a] EXCEPT !.prev = c] ELSE h[a]
  <2>1. Merged(h, c, n, r)
    BY MergeShape
  <2> HIDE DEF n
  <2> QED
    BY <2>1 DEF Merged
<1>1. h[c].next = n /\ ~h[n].used
  BY DEF NextIsFree
<1> HIDE DEF n
<1>2. NextOK(h) /\ Chain(r)
  BY MergeChain DEF Chain
<1>3. \A a \in DOMAIN h : a \in Nat /\ h[a] \in Node
  BY DEF Chain, Headers
<1>4. /\ r[c].size = h[c].size + h[n].size + Hdr /\ r[c].next = h[n].next
      /\ r[c].used = h[c].used /\ r[c].prev = h[c].prev
  BY <1>0, <1>3 DEF Node
<1>5. \A a \in DOMAIN r \ {c} : /\ r[a].size = h[a].size /\ r[a].used = h[a].used
                               /\ r[a].next = h[a].next
  BY <1>0, <1>3 DEF Node
<1>6. /\ c \in DOMAIN r /\ n # c /\ c \in Nat /\ n \in Nat
      /\ \A a \in DOMAIN h : a = c \/ a = n \/ a \in DOMAIN r \ {c}
      /\ \A a \in DOMAIN r : a \in DOMAIN h /\ a # n
  BY <1>0, <1>3
<1>7. EndOf(r, c) = EndOf(h, n) /\ \A a \in DOMAIN r \ {c} : EndOf(r, a) = EndOf(h, a)
  BY <1>0, <1>3, <1>4, <1>5, <1>6 DEF EndOf, Node, Hdr
<1>8. Keeps(h, r)
  <2>1. ASSUME NEW e \in Int, Below(h, e) PROVE Below(r, e)
    BY <1>0, <1>6, <1>7, <2>1 DEF Below
  <2>2. ASSUME NEW e \in Int, EndsAt(h, e) PROVE EndsAt(r, e)
    <3> SUFFICES ASSUME NEW a \in DOMAIN r, r[a].next = Null PROVE EndOf(r, a) = e
      BY DEF EndsAt
    <3>1. CASE a = c
      BY <1>0, <1>4, <1>7, <2>2, <3>1 DEF EndsAt
    <3>2. CASE a # c
      BY <1>5, <1>6, <1>7, <2>2, <3>2 DEF EndsAt
    <3> QED
      BY <3>1, <3>2
  <2>3. \A a \in DOMAIN h : h[a].used => a \in DOMAIN r /\ r[a].used /\ r[a].size = h[a].size
    BY <1>1, <1>5, <1>6
  <2>4. \A a \in DOMAIN r : a \in DOMAIN h /\ (r[a].used => h[a].used)
    BY <1>4, <1>5, <1>6
  <2> QED
    BY <1>2, <2>1, <2>2, <2>3, <2>4 DEF Keeps
<1>9. ASSUME NEW S, NoNeighbours(h, S), n \notin S
      PROVE  NoNeighbours(r, S \ {c})
  <2> SUFFICES ASSUME NEW a \in DOMAIN r, a \notin S \ {c}, r[a].next # Null, ~r[a].used
               PROVE  r[r[a].next].used
    BY DEF NoNeighbours
  <2>1. CASE a = c
    <3>1. h[n].next # Null /\ h[h[n].next].used
      BY <1>0, <1>1, <1>4, <1>9, <2>1 DEF NoNeighbours
    <3> QED
      BY <1>0, <1>1, <1>4, <1>5, <1>6, <2>1, <3>1
  <2>2. CASE a # c
    <3>1. a \in DOMAIN h /\ a \notin S /\ h[a].next # Null /\ ~h[a].used
      BY <1>5, <1>6, <2>2
    <3>2. h[a].next \in DOMAIN h /\ h[h[a].next].used
      BY <1>2, <1>9, <3>1 DEF NoNeighbours, NextOK
    <3> QED
      BY <1>1, <1>4, <1>5, <1>6, <2>2, <3>1, <3>2
  <2> QED
    BY <2>1, <2>2
<1> QED
  BY <1>1, <1>4, <1>6, <1>8, <1>9

\* Merging into the block below is that block's merge with its next.
LEMMA MergePrevIsNext ==
  ASSUME NEW h, Chain(h), NEW c \in DOMAIN h, PrevIsFree(h, c), ~h[c].used
  PROVE  /\ h[c].prev \in DOMAIN h /\ ~h[h[c].prev].used /\ h[h[c].prev].next = c
         /\ NextIsFree(h, h[c].prev)
         /\ MergePrev(h, c) = MergeNext(h, h[c].prev)
<1> DEFINE p == h[c].prev
<1>1. p \in DOMAIN h /\ ~h[p].used /\ h[p].next = c
  BY DEF PrevIsFree, Chain, PrevOK
<1>2. c # Null
  BY DEF Chain, Headers, Null
<1>3. NextIsFree(h, p)
  BY <1>1, <1>2 DEF NextIsFree
<1>4. MergePrev(h, c) = MergeNext(h, p)
  BY <1>1, <1>3 DEF MergePrev, MergeNext
<1> QED
  BY <1>1, <1>3, <1>4

\* Keeping is transitive.
LEMMA KeepsTransitive ==
  ASSUME NEW h, NEW r, NEW t, Keeps(h, r), Keeps(r, t)
  PROVE  Keeps(h, t)
  BY DEF Keeps

\* free marks the block first: that leaves the list as it is, and the only free
\* blocks before free ones are the block itself and the one below it.
LEMMA MarkKeeps ==
  ASSUME NEW h, Chain(h), NEW c \in DOMAIN h, NEW m, m = MarkFree(h, c)
  PROVE  /\ Chain(m) /\ DOMAIN m = DOMAIN h /\ ~m[c].used /\ m[c].prev = h[c].prev
         /\ \A a \in DOMAIN h \ {c} : m[a] = h[a]
         /\ \A e \in Int : (Below(h, e) => Below(m, e)) /\ (EndsAt(h, e) => EndsAt(m, e))
         /\ NoNeighbours(h, {}) => NoNeighbours(m, {c, h[c].prev})
<1>1. Headers(h) /\ NextOK(h) /\ PrevOK(h) /\ Apart(h) /\ OneLast(h)
  BY DEF Chain
<1>2. \A a \in DOMAIN h : a \in Nat /\ h[a] \in Node
  BY <1>1 DEF Headers
<1>3. DOMAIN m = DOMAIN h /\ m = [a \in DOMAIN m |-> m[a]] /\ \A a \in DOMAIN h \ {c} : m[a] = h[a]
  BY <1>1 DEF MarkFree, Headers
<1>4. m[c] = [h[c] EXCEPT !.used = FALSE]
  BY <1>1 DEF MarkFree, Headers
<1>5. /\ m[c].size = h[c].size /\ m[c].next = h[c].next /\ m[c].prev = h[c].prev
      /\ ~m[c].used /\ m[c] \in Node
  <2>1. FALSE \in BOOLEAN
    BY Zenon
  <2> QED
    BY <1>2, <1>4, <2>1 DEF Node
<1>6. \A a \in DOMAIN h : /\ m[a].size = h[a].size /\ m[a].next = h[a].next
                        /\ m[a].prev = h[a].prev /\ m[a] \in Node /\ EndOf(m, a) = EndOf(h, a)
  BY <1>2, <1>3, <1>5 DEF EndOf
<1>7. Chain(m)
  <2>1. Headers(m)
    BY <1>1, <1>3, <1>6 DEF Headers
  <2>2. NextOK(m)
    BY <1>1, <1>3, <1>6 DEF NextOK
  <2>3. PrevOK(m)
    BY <1>1, <1>3, <1>6 DEF PrevOK
  <2>4. Apart(m) /\ OneLast(m)
    BY <1>1, <1>3, <1>6 DEF Apart, OneLast
  <2> QED
    BY <2>1, <2>2, <2>3, <2>4 DEF Chain
<1>8. \A e \in Int : (Below(h, e) => Below(m, e)) /\ (EndsAt(h, e) => EndsAt(m, e))
  BY <1>3, <1>6 DEF Below, EndsAt
<1>9. ASSUME NoNeighbours(h, {}), NEW a \in DOMAIN m \ {c, h[c].prev}, m[a].next # Null
      PROVE  m[a].used \/ m[m[a].next].used
  <2>1. a \in DOMAIN h \ {c} /\ h[a].next # Null /\ h[a].next \in DOMAIN h /\ h[h[a].next].prev = a
    BY <1>1, <1>3, <1>6, <1>9 DEF NextOK
  <2>2. h[a].next # c
    BY <1>9, <2>1
  <2> QED
    BY <1>3, <1>6, <1>9, <2>1, <2>2 DEF NoNeighbours
<1> QED
  BY <1>3, <1>5, <1>7, <1>8, <1>9 DEF NoNeighbours

\* free of a used block keeps the list and all the other used blocks, and leaves
\* no free neighbours.
LEMMA FreeKeeps ==
  ASSUME NEW h, Chain(h), NEW c \in DOMAIN h, h[c].used,
         NEW r, r = MergePrev(MergeNext(MarkFree(h, c), c), c)
  PROVE  /\ Chain(r)
         /\ \A e \in Int : (Below(h, e) => Below(r, e)) /\ (EndsAt(h, e) => EndsAt(r, e))
         /\ NoNeighbours(h, {}) => NoNeighbours(r, {})
         /\ \A a \in DOMAIN h \ {c} :
               h[a].used => a \in DOMAIN r /\ r[a].used /\ r[a].size = h[a].size
         /\ \A a \in DOMAIN r : r[a].used => a \in DOMAIN h \ {c} /\ h[a].used
<1> DEFINE m == MarkFree(h, c)
           t == MergeNext(m, c)
           p == h[c].prev
<1>1. /\ Chain(m) /\ DOMAIN m = DOMAIN h /\ ~m[c].used /\ m[c].prev = p
      /\ \A a \in DOMAIN h \ {c} : m[a] = h[a]
      /\ \A e \in Int : (Below(h, e) => Below(m, e)) /\ (EndsAt(h, e) => EndsAt(m, e))
      /\ NoNeighbours(h, {}) => NoNeighbours(m, {c, p})
  BY MarkKeeps
<1>2. p # c /\ m[c].next # c /\ (m[c].next # Null => m[c].next # p)
  <2>1. \A a \in DOMAIN m : a \in Nat /\ m[a] \in Node /\ (m[a].next # Null => m[a].next > a)
    BY <1>1 DEF Chain, Headers, NextOK, EndOf, Node, Hdr
  <2>2. p # Null => p \in DOMAIN m /\ m[p].next = c
    BY <1>1 DEF Chain, PrevOK
  <2>3. c \in Nat /\ c # Null
    BY <1>1, <2>1 DEF Null
  <2> HIDE DEF m, p
  <2>4. p # Null => p \in Nat /\ p < c
    BY <2>1, <2>2, <2>3
  <2>5. m[c].next # Null => m[c].next > c
    BY <1>1, <2>1
  <2>6. m[c].next \in Nat \cup {Null}
    BY <1>1, <2>1 DEF Node
  <2> QED
    BY <2>3, <2>4, <2>5, <2>6 DEF Null
<1>3. Keeps(m, m)
  BY <1>1 DEF Keeps
<1>4. /\ Keeps(m, t) /\ c \in DOMAIN t /\ ~t[c].used /\ t[c].prev = p
      /\ NoNeighbours(h, {}) => NoNeighbours(t, {p})
  <2> HIDE DEF m, p
  <2>1. CASE NextIsFree(m, c)
    <3>1. /\ Keeps(m, t) /\ c \in DOMAIN t /\ ~t[c].used /\ t[c].prev = m[c].prev
          /\ \A S : NoNeighbours(m, S) /\ m[c].next \notin S => NoNeighbours(t, S \ {c})
      BY <1>1, <2>1, MergeKeeps
    <3>2. m[c].next \notin {c, p} /\ {c, p} \ {c} = {p}
      BY <1>2, <2>1 DEF NextIsFree
    <3> QED
      BY <1>1, <3>1, <3>2
  <2>2. CASE ~NextIsFree(m, c)
    <3>1. t = m
      BY <2>2 DEF MergeNext
    <3>2. m[c].next # Null => m[m[c].next].used
      BY <2>2 DEF NextIsFree
    <3>3. NoNeighbours(m, {c, p}) => NoNeighbours(m, {p})
      BY <3>2 DEF NoNeighbours
    <3> QED
      BY <1>1, <1>3, <3>1, <3>3
  <2> QED
    BY <2>1, <2>2
<1> HIDE DEF m, t, p
<1>5. r = MergePrev(t, c)
  BY DEF m, t
<1>6. Keeps(m, r) /\ (NoNeighbours(h, {}) => NoNeighbours(r, {}))
  <2>1. Chain(t)
    BY <1>4 DEF Keeps
  <2>2. CASE PrevIsFree(t, c)
    <3>1. p \in DOMAIN t /\ ~t[p].used /\ t[p].next = c /\ NextIsFree(t, p) /\ r = MergeNext(t, p)
      BY <1>4, <1>5, <2>1, <2>2, MergePrevIsNext
    <3>2. /\ Keeps(t, r)
          /\ \A S : NoNeighbours(t, S) /\ t[p].next \notin S => NoNeighbours(r, S \ {p})
      BY <2>1, <3>1, MergeKeeps
    <3>3. c \notin {p} /\ {p} \ {p} = {}
      BY <1>2
    <3>4. NoNeighbours(t, {p}) => NoNeighbours(r, {})
      BY <3>1, <3>2, <3>3
    <3> QED
      BY <1>4, <3>2, <3>4, KeepsTransitive
  <2>3. CASE ~PrevIsFree(t, c)
    <3>1. r = t
      BY <1>5, <2>3 DEF MergePrev
    <3>2. p = Null \/ t[p].used
      BY <1>4, <2>3 DEF PrevIsFree
    <3>3. Null \notin DOMAIN t
      BY <2>1 DEF Chain, Headers, Null
    <3>4. NoNeighbours(t, {p}) => NoNeighbours(t, {})
      BY <3>2, <3>3 DEF NoNeighbours
    <3> QED
      BY <1>4, <3>1, <3>4
  <2> QED
    BY <2>2, <2>3
<1> QED
  BY <1>1, <1>6 DEF Keeps

-----------------------------------------------------------------------------
(***************************************************************************)
(* expand_heap appends a block.                                            *)
(***************************************************************************)

\* The list has one last block, and ends where that ends.
LEMMA LastBlockLast ==
  ASSUME Chain(node)
  PROVE  /\ LastBlock \in DOMAIN node
         /\ \A a \in DOMAIN node : node[a].next = Null <=> a = LastBlock
         /\ ListEnd = EndOf(node, LastBlock)
<1>1. PICK l \in DOMAIN node : \A a \in DOMAIN node : node[a].next = Null <=> a = l
  BY DEF Chain, OneLast
<1>2. LastBlock = l
  BY <1>1 DEF LastBlock
<1>3. {EndOf(node, a) : a \in {b \in DOMAIN node : node[b].next = Null}} = {EndOf(node, l)}
  BY <1>1
<1>4. ListEnd = EndOf(node, l)
  BY <1>3 DEF ListEnd
<1> QED
  BY <1>1, <1>2, <1>4

\* An expansion is only linked behind the block that ends at the end of the heap:
\* expand_heap does not find the end of the list otherwise.
LEMMA LinkedAtEnd ==
  ASSUME Chain(node), "linked" \in Outcomes
  PROVE  EndOf(node, LastBlock) = heap_end
<1>1. ListEnd = heap_end
  BY DEF Outcomes
<1> QED
  BY <1>1, LastBlockLast

\* The list with the new block is a list.
LEMMA AppendKeeps ==
  ASSUME Chain(node), Below(node, heap_end), EndOf(node, LastBlock) = heap_end,
         heap_end \in Nat, NEW length \in Nat, length >= Hdr, NEW r, r = Append(length)
  PROVE  /\ Chain(r) /\ Below(r, heap_end + length)
         /\ DOMAIN r = DOMAIN node \cup {heap_end} /\ heap_end \notin DOMAIN node
         /\ r[heap_end].size = length - Hdr /\ ~r[heap_end].used
         /\ \A a \in DOMAIN node : r[a].size = node[a].size /\ r[a].used = node[a].used
<1> DEFINE l == LastBlock
           e == heap_end
<1>1. Headers(node) /\ NextOK(node) /\ PrevOK(node) /\ Apart(node)
  BY DEF Chain
<1>2. \A a \in DOMAIN node : a \in Nat /\ node[a] \in Node
  BY <1>1 DEF Headers
<1>3. l \in DOMAIN node /\ \A a \in DOMAIN node : node[a].next = Null <=> a = l
  BY LastBlockLast
<1>4. \A a \in DOMAIN node : a < e /\ EndOf(node, a) <= e /\ EndOf(node, a) \in Nat
  BY <1>2 DEF Below, EndOf, Node, Hdr
<1>5. e \notin DOMAIN node /\ e # Null /\ e # 0 /\ EndOf(node, l) = e
  BY <1>1, <1>2, <1>4 DEF Null, Headers
<1>6. /\ DOMAIN r = DOMAIN node \cup {e} /\ r = [a \in DOMAIN r |-> r[a]]
      /\ r[e] = [size |-> length - Hdr, used |-> FALSE, next |-> Null, prev |-> l]
      /\ r[l] = [node[l] EXCEPT !.next = e]
      /\ \A a \in DOMAIN node \ {l} : r[a] = node[a]
  BY <1>3, <1>5 DEF Append
<1> HIDE DEF l, e
<1>7. /\ r[l].size = node[l].size /\ r[l].used = node[l].used /\ r[l].next = e
      /\ r[l].prev = node[l].prev
  BY <1>2, <1>3, <1>6 DEF Node
<1>8. /\ r[e].size = length - Hdr /\ ~r[e].used /\ r[e].next = Null /\ r[e].prev = l
  BY <1>6
<1>9. \A a \in DOMAIN node :
         /\ r[a].size = node[a].size /\ r[a].used = node[a].used /\ r[a].prev = node[a].prev
         /\ EndOf(r, a) = EndOf(node, a)
  BY <1>6, <1>7 DEF EndOf
<1>10. EndOf(r, e) = e + length
  BY <1>8 DEF EndOf, Hdr, e
<1>11. Headers(r)
  <2>1. r[e] \in Node
    <3>1. FALSE \in BOOLEAN
      BY Zenon
    <3>2. length - Hdr \in Nat
      BY DEF Hdr
    <3> QED
      BY <1>2, <1>3, <1>6, <3>1, <3>2 DEF Node
  <2>2. r[l] \in Node
    BY <1>2, <1>3, <1>6 DEF Node, e
  <2>3. \A a \in DOMAIN r : r[a] \in Node
    BY <1>2, <1>6, <2>1, <2>2
  <2>4. DOMAIN r \subseteq Nat /\ 0 \in DOMAIN r
    BY <1>1, <1>6 DEF Headers, e
  <2> QED
    BY <1>6, <2>3, <2>4 DEF Headers
<1>12. NextOK(r)
  <2> SUFFICES ASSUME NEW a \in DOMAIN r, r[a].next # Null
               PROVE  /\ r[a].next = EndOf(r, a) /\ r[a].next \in DOMAIN r
                      /\ r[r[a].next].prev = a
    BY DEF NextOK
  <2>1. CASE a = l
    BY <1>3, <1>5, <1>6, <1>7, <1>8, <1>9, <2>1
  <2>2. CASE a # l
    <3>1. a \in DOMAIN node \ {l} /\ r[a].next = node[a].next
      BY <1>6, <1>8, <2>2
    <3>2. /\ node[a].next = EndOf(node, a) /\ node[a].next \in DOMAIN node
          /\ node[node[a].next].prev = a
      BY <1>1, <3>1 DEF NextOK
    <3> QED
      BY <1>6, <1>9, <3>1, <3>2
  <2> QED
    BY <2>1, <2>2
<1>13. PrevOK(r)
  <2> SUFFICES ASSUME NEW a \in DOMAIN r
               PROVE  /\ r[a].prev = Null <=> a = 0
                      /\ r[a].prev # Null => r[a].prev \in DOMAIN r /\ r[r[a].prev].next = a
    BY DEF PrevOK
  <2>1. CASE a = e
    <3>1. l # Null /\ l \in DOMAIN r
      BY <1>2, <1>3, <1>6 DEF Null
    <3>2. r[a].prev = l /\ r[l].next = e /\ a # 0
      BY <1>5, <1>7, <1>8, <2>1
    <3> QED
      BY <2>1, <3>1, <3>2
  <2>2. CASE a # e
    <3>1. a \in DOMAIN node /\ r[a].prev = node[a].prev
      BY <1>6, <1>9, <2>2
    <3>2. /\ node[a].prev = Null <=> a = 0
          /\ node[a].prev # Null => node[a].prev \in DOMAIN node /\ node[node[a].prev].next = a
      BY <1>1, <3>1 DEF PrevOK
    <3>3. node[a].prev # Null => node[a].prev # l
      BY <1>2, <1>3, <3>1, <3>2 DEF Null
    <3> QED
      BY <1>6, <3>1, <3>2, <3>3
  <2> QED
    BY <2>1, <2>2
<1>14. Apart(r)
  <2> SUFFICES ASSUME NEW x \in DOMAIN r, NEW y \in DOMAIN r, x < y PROVE EndOf(r, x) <= y
    BY DEF Apart
  <2>1. e \in Nat
    BY DEF e
  <2>2. x \in DOMAIN node
    BY <1>2, <1>4, <1>6, <2>1
  <2>3. CASE y = e
    BY <1>4, <1>9, <2>2, <2>3
  <2>4. CASE y # e
    BY <1>1, <1>6, <1>9, <2>2, <2>4 DEF Apart
  <2> QED
    BY <2>3, <2>4
<1>15. OneLast(r)
  <2>1. ASSUME NEW a \in DOMAIN r PROVE r[a].next = Null <=> a = e
    <3>1. CASE a = e
      BY <1>8, <3>1
    <3>2. CASE a = l
      BY <1>3, <1>5, <1>7, <3>2
    <3>3. CASE a # e /\ a # l
      BY <1>3, <1>6, <3>3
    <3> QED
      BY <3>1, <3>2, <3>3
  <2> QED
    BY <1>6, <2>1 DEF OneLast
<1>16. Below(r, e + length)
  <2>1. e \in Nat
    BY DEF e
  <2> QED
    BY <1>4, <1>6, <1>9, <1>10, <2>1 DEF Below
<1> QED
  BY <1>5, <1>6, <1>8, <1>9, <1>11, <1>12, <1>13, <1>14, <1>15, <1>16 DEF Chain, e

-----------------------------------------------------------------------------
(* The invariant, action by action. *)

\* init_heap makes one block of all of the heap.
LEMMA InvInit == Init => IInv
<1> SUFFICES ASSUME Init PROVE IInv
  OBVIOUS
<1>1. /\ DOMAIN node = {0} /\ node = [a \in {0} |-> node[a]]
      /\ node[0] = [size |-> HeapLength - Hdr, used |-> FALSE, next |-> Null, prev |-> Null]
  BY DEF Init
<1>2. HeapLength \in Nat /\ HeapLength > Hdr
  BY HeapAssumption
<1>3. node[0] \in Node
  <2>1. FALSE \in BOOLEAN
    BY Zenon
  <2>2. HeapLength - Hdr \in Nat
    BY <1>2 DEF Hdr
  <2> DEFINE first == [size |-> HeapLength - Hdr, used |-> FALSE, next |-> Null, prev |-> Null]
  <2>3. first \in Node
    BY <2>1, <2>2, Zenon DEF Node
  <2> QED
    BY <1>1, <2>3
<1>4. /\ EndOf(node, 0) = HeapLength /\ ~node[0].used
      /\ node[0].next = Null /\ node[0].prev = Null
  BY <1>1, <1>2 DEF EndOf, Hdr
<1>5. Chain(node)
  BY <1>1, <1>3, <1>4 DEF Chain, Headers, NextOK, PrevOK, Apart, OneLast, Null
<1>6. Below(node, heap_end) /\ Ungrown
  <2>1. Below(node, HeapLength) /\ EndsAt(node, HeapLength)
    BY <1>1, <1>2, <1>4 DEF Below, EndsAt
  <2>2. NoNeighbours(node, {})
    BY <1>1, <1>4 DEF NoNeighbours
  <2> QED
    BY <2>1, <2>2 DEF Init, Ungrown
<1>7. Held(node, live)
  BY <1>1, <1>4 DEF Init, Held
<1>8. Types
  <2>1. wild \in BOOLEAN
    BY Zenon DEF Init
  <2> QED
    BY <1>2, <2>1, HeapAssumption DEF Init, Types, Null
<1> QED
  BY <1>5, <1>6, <1>7, <1>8 DEF IInv

\* malloc hands out a block that was free: no client held anything there.
LEMMA MallocReturnKeeps == IInv /\ MallocReturn => IInv'
<1> SUFFICES ASSUME IInv, MallocReturn PROVE IInv'
  OBVIOUS
<1>1. PICK b \in DOMAIN node : /\ BestFit(node, want, b)
                             /\ node' = Split(node, b, want)
                             /\ live' = HandOut(b + Hdr, want)
  BY DEF MallocReturn
<1>2. want \in Nat /\ ~node[b].used /\ node[b].size >= want + Hdr
  BY <1>1 DEF IInv, Types, MallocReturn, BestFit, Fits
<1>3. Chain(node')
  BY <1>1, <1>2, SplitChain DEF IInv
<1>4. /\ \A e \in Int : Below(node, e) => Below(node', e)
      /\ \A e \in Int : EndsAt(node, e) => EndsAt(node', e)
      /\ NoNeighbours(node, {}) => NoNeighbours(node', {})
      /\ node'[b].used /\ node'[b].size = want
      /\ \A a \in DOMAIN node' \ {b} : node'[a].used => a \in DOMAIN node /\ node[a].used
      /\ \A a \in DOMAIN node \ {b} : node'[a].used = node[a].used /\ node'[a].size = node[a].size
      /\ DOMAIN node \subseteq DOMAIN node'
  BY <1>1, <1>2, SplitKeeps DEF IInv
<1>5. heap_end' = heap_end /\ heap_end \in Int
  BY DEF IInv, Types, MallocReturn
<1>6. Below(node', heap_end') /\ Ungrown'
  BY <1>4, <1>5 DEF IInv, Ungrown
<1>7. PICK p \in Nat : p = b + Hdr /\ p - Hdr = b /\ \A q \in Nat : q # p => q - Hdr # b
  <2>1. b \in Nat
    BY DEF IInv, Chain, Headers
  <2> QED
    BY <2>1 DEF Hdr
<1>8. p \notin DOMAIN live
  <2> SUFFICES ASSUME p \in DOMAIN live PROVE FALSE
    OBVIOUS
  <2>1. node[p - Hdr].used
    BY DEF IInv, Held
  <2> QED
    BY <1>2, <1>7, <2>1
<1>9. /\ DOMAIN live' = DOMAIN live \cup {p} /\ live'[p] = want
      /\ \A q \in DOMAIN live : live'[q] = live[q]
  BY <1>1, <1>2, <1>7, <1>8 DEF HandOut, IInv, Types
<1>10. Held(node', live')
  <2>1. ASSUME NEW q \in DOMAIN live'
        PROVE  q - Hdr \in DOMAIN node' /\ node'[q - Hdr].used /\ live'[q] = node'[q - Hdr].size
    <3>1. CASE q = p
      <4>1. q - Hdr = b /\ live'[q] = want
        BY <1>7, <1>9, <3>1
      <4>2. b \in DOMAIN node'
        BY <1>4
      <4> QED
        BY <1>4, <4>1, <4>2
    <3>2. CASE q # p
      <4>1. q \in DOMAIN live /\ q \in Nat
        BY <1>9, <3>2 DEF IInv, Types
      <4>2. q - Hdr # b
        BY <1>7, <3>2, <4>1
      <4> QED
        BY <1>4, <1>9, <4>1, <4>2 DEF IInv, Held
    <3> QED
      BY <3>1, <3>2
  <2>2. \A a \in DOMAIN node' : node'[a].used => a + Hdr \in DOMAIN live'
    BY <1>4, <1>7, <1>9 DEF IInv, Held
  <2> QED
    BY <2>1, <2>2 DEF Held
<1>11. Types'
  BY <1>2, <1>7, <1>9 DEF IInv, Types, MallocReturn, Null, Hdr
<1> QED
  BY <1>3, <1>6, <1>10, <1>11 DEF IInv

\* free takes one block from the clients and leaves the others' alone.
LEMMA FreeKeepsInv == ASSUME IInv, NEW p \in DOMAIN live, Free(p) PROVE IInv'
<1> DEFINE c == p - Hdr
<1>1. c \in DOMAIN node /\ node[c].used /\ c + Hdr = p /\ c \in Nat
  BY DEF IInv, Held, Types, Chain, Headers, Hdr
<1>2. /\ node' = MergePrev(MergeNext(MarkFree(node, c), c), c)
      /\ live' = [q \in DOMAIN live \ {p} |-> live[q]]
      /\ used_memory_total' = used_memory_total - node[c].size
      /\ UNCHANGED <<heap_end, frames, want, wild>>
  BY DEF Free, FreedSize
<1> HIDE DEF c
<1>3. /\ Chain(node')
      /\ \A e \in Int : (Below(node, e) => Below(node', e)) /\ (EndsAt(node, e) => EndsAt(node', e))
      /\ NoNeighbours(node, {}) => NoNeighbours(node', {})
      /\ \A a \in DOMAIN node \ {c} :
            node[a].used => a \in DOMAIN node' /\ node'[a].used /\ node'[a].size = node[a].size
      /\ \A a \in DOMAIN node' : node'[a].used => a \in DOMAIN node \ {c} /\ node[a].used
  BY <1>1, <1>2, FreeKeeps DEF IInv
<1>4. heap_end' = heap_end /\ heap_end \in Int
  BY <1>2 DEF IInv, Types
<1>5. Below(node', heap_end') /\ Ungrown'
  BY <1>3, <1>4 DEF IInv, Ungrown
<1>6. Held(node', live')
  <2>1. ASSUME NEW q \in DOMAIN live'
        PROVE  q - Hdr \in DOMAIN node' /\ node'[q - Hdr].used /\ live'[q] = node'[q - Hdr].size
    <3>1. q \in DOMAIN live /\ q # p /\ live'[q] = live[q] /\ q \in Nat /\ p \in Nat
      BY <1>2 DEF IInv, Types
    <3>2. q - Hdr # c
      BY <3>1 DEF c, Hdr
    <3> QED
      BY <1>3, <3>1, <3>2 DEF IInv, Held
  <2>2. ASSUME NEW a \in DOMAIN node', node'[a].used PROVE a + Hdr \in DOMAIN live'
    <3>1. a \in DOMAIN node /\ a # c /\ a + Hdr \in DOMAIN live /\ a \in Nat
      BY <1>3, <2>2 DEF IInv, Held, Chain, Headers
    <3>2. a + Hdr # p
      BY <1>1, <3>1 DEF Hdr
    <3> QED
      BY <1>2, <3>1, <3>2
  <2> QED
    BY <2>1, <2>2 DEF Held
<1>7. Types'
  <2>1. node[c].size \in Nat
    BY <1>1 DEF IInv, Chain, Headers, Node
  <2> QED
    BY <1>2, <2>1 DEF IInv, Types
<1> QED
  BY <1>3, <1>5, <1>6, <1>7 DEF IInv

\* An expansion is as long as a page, and longer than nothing.
LEMMA ExpansionLength ==
  ASSUME NEW n \in Nat \ {0}
  PROVE  Expansion(n) \in Nat /\ Expansion(n) > Hdr /\ Expansion(n) >= n
<1>1. PageSize \in Nat \ {0} /\ PageSize > Hdr
  BY HeapAssumption DEF Hdr
<1> QED
  BY <1>1, RoundUpBounds DEF Expansion, Hdr

\* The pages are linked behind the list or lost to it; the list is kept.
LEMMA ExpandKeeps == IInv /\ ExpandHeap => IInv'
<1> SUFFICES ASSUME IInv, ExpandHeap PROVE IInv'
  OBVIOUS
<1> DEFINE length == Expansion(want)
<1>1. want \in Nat \ {0} /\ heap_end \in Nat /\ heap_end >= HeapLength /\ HeapLength \in Nat
  BY HeapAssumption DEF IInv, Types, ExpandHeap
<1>2. length \in Nat /\ length > Hdr
  BY <1>1, ExpansionLength
<1>3. /\ heap_end' = heap_end + length /\ frames >= length \div PageSize
      /\ frames' = frames - length \div PageSize
      /\ UNCHANGED <<used_memory_total, want, live>>
  BY DEF ExpandHeap
<1>4. PICK outcome \in Outcomes :
         /\ wild' = (outcome = "wild")
         /\ node' = IF outcome = "linked" THEN Append(length) ELSE node
  BY DEF ExpandHeap
<1>5. frames' \in Nat
  <2>1. length \div PageSize \in Int
    BY <1>2, HeapAssumption DEF Hdr
  <2> HIDE DEF length
  <2> QED
    BY <1>3, <2>1 DEF IInv, Types
<1> HIDE DEF length
<1>6. heap_end' \in Nat /\ heap_end' > heap_end /\ heap_end' # HeapLength
  BY <1>1, <1>2, <1>3 DEF Hdr
<1>7. Ungrown'
  BY <1>6 DEF Ungrown
<1>8. Types'
  <2>1. wild' \in BOOLEAN
    BY <1>4, Zenon
  <2> QED
    BY <1>1, <1>3, <1>5, <1>6, <2>1 DEF IInv, Types
<1>9. Chain(node') /\ Below(node', heap_end') /\ Held(node', live')
  <2>1. CASE outcome = "linked"
    <3>1. EndOf(node, LastBlock) = heap_end
      BY <2>1, LinkedAtEnd DEF IInv
    <3>0. node' = Append(length) /\ length >= Hdr
      BY <1>2, <1>4, <2>1 DEF Hdr
    <3>2. /\ Chain(node') /\ Below(node', heap_end + length)
          /\ DOMAIN node' = DOMAIN node \cup {heap_end} /\ ~node'[heap_end].used
          /\ \A a \in DOMAIN node : node'[a].size = node[a].size /\ node'[a].used = node[a].used
      BY <1>1, <1>2, <3>0, <3>1, AppendKeeps DEF IInv
    <3>3. Held(node', live')
      BY <1>3, <3>2 DEF IInv, Held
    <3> QED
      BY <1>3, <3>2, <3>3
  <2>2. CASE outcome # "linked"
    <3>1. node' = node
      BY <1>4, <2>2
    <3>2. Below(node', heap_end')
      <4>1. \A a \in DOMAIN node : EndOf(node, a) \in Int
        BY DEF IInv, Chain, Headers, EndOf, Node, Hdr
      <4> QED
        BY <1>1, <1>6, <3>1, <4>1 DEF IInv, Below, EndOf
    <3> QED
      BY <1>3, <3>1, <3>2 DEF IInv
  <2> QED
    BY <2>1, <2>2
<1> QED
  BY <1>7, <1>8, <1>9 DEF IInv

\* Every step keeps the invariant.
LEMMA InvNext == IInv /\ [Next]_vars => IInv'
<1> SUFFICES ASSUME IInv, [Next]_vars PROVE IInv'
  OBVIOUS
<1>1. ASSUME UNCHANGED <<node, heap_end, live>>, Types' PROVE IInv'
  BY <1>1 DEF IInv, Ungrown, Below, EndOf
<1>2. CASE MallocCall
  <2>1. want' \in Nat \ {0}
    <3>1. PICK size \in Requests : want' = RoundUp(size, Granule)
      BY <1>2 DEF MallocCall
    <3>2. size \in Nat \ {0} /\ Granule \in Nat \ {0}
      BY HeapAssumption DEF Granule
    <3> QED
      BY <3>1, <3>2, RoundUpBounds
  <2>2. Types'
    BY <1>2, <2>1 DEF MallocCall, IInv, Types
  <2> QED
    BY <1>1, <1>2, <2>2 DEF MallocCall
<1>3. CASE ExpandHeapFails
  BY <1>1, <1>3 DEF ExpandHeapFails, IInv, Types
<1>4. CASE UNCHANGED vars
  BY <1>1, <1>4 DEF vars, IInv, Types
<1> QED
  BY <1>2, <1>3, <1>4, MallocReturnKeeps, FreeKeepsInv, ExpandKeeps DEF Next

\* The invariant holds in every reachable state.
THEOREM Invariance == Spec => []IInv
  BY InvInit, InvNext, PTL DEF Spec

-----------------------------------------------------------------------------
(* What the invariant says of the heap. *)

\* The list stays exact through every split, merge and expansion.
THEOREM ListHolds == Spec => []ListWellFormed
<1>1. IInv => ListWellFormed
  <2> SUFFICES ASSUME IInv PROVE ListWellFormed
    OBVIOUS
  <2>1. TypeOK
    BY DEF IInv, Types, Chain, Headers, TypeOK
  <2>2. 0 \in DOMAIN node
    BY DEF IInv, Chain, Headers
  <2>3. \A a \in DOMAIN node :
           /\ node[a].next # Null =>
                 /\ node[a].next = EndOf(node, a)
                 /\ node[a].next \in DOMAIN node
                 /\ node[node[a].next].prev = a
           /\ node[a].prev # Null =>
                 /\ node[a].prev \in DOMAIN node
                 /\ node[node[a].prev].next = a
           /\ node[a].prev = Null <=> a = 0
           /\ EndOf(node, a) <= heap_end
    BY DEF IInv, Chain, NextOK, PrevOK, Below
  <2>4. \A a, b \in DOMAIN node :
           /\ a < b => EndOf(node, a) <= b
           /\ node[a].next = Null /\ node[b].next = Null => a = b
    BY DEF IInv, Chain, Apart, OneLast
  <2> QED
    BY <2>1, <2>2, <2>3, <2>4 DEF ListWellFormed
<1> QED
  BY <1>1, Invariance, PTL

\* No byte in a client's hands is another client's or a header's.
THEOREM DisjointHolds == Spec => []AllocationsDisjoint
<1>1. IInv => AllocationsDisjoint
  <2> SUFFICES ASSUME IInv PROVE AllocationsDisjoint
    OBVIOUS
  <2>1. ASSUME NEW p \in DOMAIN live
        PROVE  /\ p \in Nat /\ p - Hdr \in DOMAIN node /\ node[p - Hdr].used
               /\ live[p] = node[p - Hdr].size /\ live[p] \in Nat
    BY DEF IInv, Held, Types
  <2>2. ASSUME NEW p \in DOMAIN live, NEW q \in DOMAIN live, p < q
        PROVE  p + live[p] + Hdr <= q
    <3>1. p - Hdr < q - Hdr
      BY <2>1, <2>2 DEF Hdr
    <3>2. EndOf(node, p - Hdr) <= q - Hdr
      BY <2>1, <3>1 DEF IInv, Chain, Apart
    <3> QED
      BY <2>1, <3>2 DEF EndOf, Hdr
  <2>3. \A p \in DOMAIN live : node[p - Hdr].size >= live[p]
    BY <2>1
  <2> QED
    BY <2>1, <2>2, <2>3 DEF AllocationsDisjoint
<1> QED
  BY <1>1, Invariance, PTL

\* free leaves no two free blocks side by side, and an idle heap whole.
THEOREM NoAdjacentHolds == Spec => []NoAdjacentFree
<1>1. IInv => NoAdjacentFree
  <2> SUFFICES ASSUME IInv, heap_end = HeapLength
               PROVE  /\ \A a \in DOMAIN node :
                            node[a].next # Null => node[a].used \/ node[node[a].next].used
                      /\ DOMAIN live = {} =>
                            DOMAIN node = {0} /\ node[0].size = HeapLength - Hdr
    BY DEF NoAdjacentFree
  <2>1. NoNeighbours(node, {}) /\ EndsAt(node, HeapLength)
    BY DEF IInv, Ungrown
  <2>2. ASSUME DOMAIN live = {}
        PROVE  DOMAIN node = {0} /\ node[0].size = HeapLength - Hdr
    <3>1. \A a \in DOMAIN node : ~node[a].used
      BY <2>2 DEF IInv, Held
    <3>2. \A a \in DOMAIN node : node[a].next = Null
      BY <2>1, <3>1 DEF NoNeighbours, IInv, Chain, NextOK
    <3>3. DOMAIN node = {0}
      BY <3>2 DEF IInv, Chain, OneLast, Headers
    <3>4. EndOf(node, 0) = HeapLength
      BY <2>1, <3>2, <3>3 DEF EndsAt
    <3>5. node[0].size \in Nat
      BY <3>3 DEF IInv, Chain, Headers, Node
    <3> QED
      BY <3>3, <3>4, <3>5, HeapAssumption DEF EndOf, Hdr
  <2> QED
    BY <2>1, <2>2 DEF NoNeighbours
<1> QED
  BY <1>1, Invariance, PTL

\* A linked expansion serves the malloc that made it: nothing fitted before, so
\* the new block is the best of those that fit.
THEOREM ExpansionHolds == Spec => ExpansionServes
<1> DEFINE Serves == heap_end' # heap_end /\ heap_end \in DOMAIN node'
                        /\ Expansion(want) >= want + 2 * Hdr
                     => \E b \in DOMAIN node' : BestFit(node', want, b)
<1>1. IInv /\ [Next]_vars => [Serves]_vars
  <2> SUFFICES ASSUME IInv, Next, heap_end' # heap_end, heap_end \in DOMAIN node',
                      Expansion(want) >= want + 2 * Hdr
               PROVE  \E b \in DOMAIN node' : BestFit(node', want, b)
    OBVIOUS
  <2> DEFINE length == Expansion(want)
  <2>1. ExpandHeap
    BY DEF Next, MallocCall, MallocReturn, Free, ExpandHeapFails
  <2>2. want \in Nat \ {0} /\ heap_end \in Nat /\ length \in Nat /\ length > Hdr
    BY <2>1, ExpansionLength DEF IInv, Types, ExpandHeap
  <2>3. PICK outcome \in Outcomes : node' = IF outcome = "linked" THEN Append(length) ELSE node
    BY <2>1 DEF ExpandHeap
  <2> HIDE DEF length
  <2>4. heap_end \notin DOMAIN node
    <3>1. \A a \in DOMAIN node : a \in Nat /\ EndOf(node, a) > a /\ EndOf(node, a) <= heap_end
                                /\ EndOf(node, a) \in Nat
      BY DEF IInv, Chain, Headers, Below, EndOf, Node, Hdr
    <3> QED
      BY <2>2, <3>1
  <2>5. outcome = "linked" /\ node' = Append(length) /\ length >= Hdr
    BY <2>2, <2>3, <2>4 DEF Hdr
  <2>6. EndOf(node, LastBlock) = heap_end
    BY <2>5, LinkedAtEnd DEF IInv
  <2>7. /\ DOMAIN node' = DOMAIN node \cup {heap_end}
        /\ node'[heap_end].size = length - Hdr /\ ~node'[heap_end].used
        /\ \A a \in DOMAIN node : node'[a].size = node[a].size /\ node'[a].used = node[a].used
    BY <2>2, <2>5, <2>6, AppendKeeps DEF IInv
  <2>8. Fits(node, want) = {}
    BY <2>1 DEF ExpandHeap
  <2>9. node'[heap_end].size >= want + Hdr
    BY <2>2, <2>7 DEF Hdr, length
  <2>10. Fits(node', want) = {heap_end}
    BY <2>7, <2>8, <2>9 DEF Fits
  <2> QED
    BY <2>2, <2>7, <2>10 DEF BestFit
<1>2. Spec => [][Serves]_vars
  BY <1>1, Invariance, PTL DEF Spec
<1> QED
  BY <1>2 DEF ExpansionServes
-----------------------------------------------------------------------------
(***************************************************************************)
(* HeapPreemption.  The runs show that memory in use is handed out when    *)
(* malloc in the keyboard interrupt comes between the two halves of a      *)
(* malloc of the main flow, and when it comes between the merges of a      *)
(* free.  If it comes into neither (NoneInEither: interrupts off from      *)
(* where malloc looks for a block to where it returns, and from where free *)
(* marks the block to where it returns), malloc keeps its promise, for     *)
(* every heap.                                                             *)
(***************************************************************************)
MaskedNext == Main \/ (~Allocating /\ ~Merging /\ IrqMalloc)

\* The block that free was called with is used until it is marked, though no
\* client holds it; until then no malloc can have taken it.
AtFree ==
    /\ pc \in {"idle", "found", "mark", "next", "prev"}
    /\ pc = "found" => want # Null /\ cur \in DOMAIN node /\ BestFit(node, want, cur)
    /\ pc = "mark" => cur \in DOMAIN node /\ node[cur].used /\ cur + Hdr \notin DOMAIN live
    /\ Merging => cur \in DOMAIN node /\ ~node[cur].used

\* The used blocks are those clients hold, and the one that is about to be marked.
HeldOrFreed ==
    /\ \A p \in DOMAIN live :
          p - Hdr \in DOMAIN node /\ node[p - Hdr].used /\ live[p] = node[p - Hdr].size
    /\ \A a \in DOMAIN node :
          node[a].used => a + Hdr \in DOMAIN live \/ (pc = "mark" /\ a = cur)

\* The free blocks that may have free neighbours before they are merged.
Unmerged ==
    CASE pc = "next" -> {cur, node[cur].prev}
      [] pc = "prev" -> {node[cur].prev}
      [] OTHER -> {}

MInv ==
    /\ Types /\ heap_end = HeapLength
    /\ Chain(node) /\ Below(node, heap_end) /\ EndsAt(node, heap_end)
    /\ AtFree /\ HeldOrFreed /\ NoNeighbours(node, Unmerged)
    /\ ~clash

\* init_heap.
LEMMA MaskedInit == PInit => MInv
<1> SUFFICES ASSUME PInit PROVE MInv
  OBVIOUS
<1>1. IInv
  BY InvInit DEF PInit
<1>2. heap_end = HeapLength /\ pc = "idle" /\ clash = FALSE
  BY DEF PInit, Init
<1>3. AtFree
  BY <1>2 DEF AtFree, Merging
<1>4. Unmerged = {}
  BY <1>2 DEF Unmerged
<1> QED
  BY <1>1, <1>2, <1>3, <1>4 DEF IInv, Held, HeldOrFreed, Ungrown, MInv

\* A free block that malloc takes while no merge is under way meets no memory that
\* a client holds, and the list and the clients agree afterwards.
LEMMA TakingKeeps ==
  ASSUME MInv, ~Merging, NEW s \in Nat, NEW b \in DOMAIN node, BestFit(node, s, b),
         node' = Split(node, b, s), live' = HandOut(b + Hdr, s), UNCHANGED heap_end,
         \/ ~Allocating /\ UNCHANGED <<pc, cur>>
         \/ Allocating /\ pc' = "idle"
  PROVE  /\ ~Meets(b, s)
         /\ Chain(node') /\ Below(node', heap_end') /\ EndsAt(node', heap_end')
         /\ AtFree' /\ HeldOrFreed' /\ NoNeighbours(node', Unmerged')
         /\ DOMAIN live' \subseteq Nat /\ \A p \in DOMAIN live' : live'[p] \in Nat
<1>1. ~node[b].used /\ node[b].size >= s + Hdr
  BY DEF BestFit, Fits
<1>2. Chain(node) /\ heap_end \in Int
  BY DEF MInv, Types
<1>3. Chain(node')
  BY <1>1, <1>2, SplitChain
<1>4. Unmerged = {} /\ Unmerged' = {}
  BY DEF MInv, AtFree, Merging, Allocating, Unmerged
<1>5. /\ \A e \in Int : Below(node, e) => Below(node', e)
      /\ \A e \in Int : EndsAt(node, e) => EndsAt(node', e)
      /\ NoNeighbours(node, {}) => NoNeighbours(node', {})
      /\ node'[b].used /\ node'[b].size = s
      /\ \A a \in DOMAIN node' \ {b} : node'[a].used => a \in DOMAIN node /\ node[a].used
      /\ \A a \in DOMAIN node \ {b} : node'[a].used = node[a].used /\ node'[a].size = node[a].size
      /\ DOMAIN node \subseteq DOMAIN node'
  BY <1>1, <1>2, SplitKeeps
<1>6. Below(node', heap_end') /\ EndsAt(node', heap_end') /\ NoNeighbours(node', Unmerged')
  BY <1>2, <1>4, <1>5 DEF MInv
<1>7. PICK p \in Nat : p = b + Hdr /\ p - Hdr = b /\ \A q \in Nat : q # p => q - Hdr # b
  <2>1. b \in Nat
    BY <1>2 DEF Chain, Headers
  <2> QED
    BY <2>1 DEF Hdr
<1>8. \A q \in DOMAIN live : q \in Nat /\ live[q] \in Nat /\ q - Hdr \in DOMAIN node
                            /\ node[q - Hdr].used /\ live[q] = node[q - Hdr].size
  BY DEF MInv, Types, HeldOrFreed
<1>9. p \notin DOMAIN live
  BY <1>1, <1>7, <1>8
<1>10. /\ DOMAIN live' = DOMAIN live \cup {p} /\ live'[p] = s
       /\ \A q \in DOMAIN live : live'[q] = live[q]
  BY <1>7, <1>8, <1>9 DEF HandOut
<1>11. AtFree'
  <2>1. CASE pc = "mark"
    <3>1. cur \in DOMAIN node /\ node[cur].used /\ cur + Hdr \notin DOMAIN live /\ cur # b
      BY <1>1, <2>1 DEF MInv, AtFree
    <3>2. cur \in Nat
      BY <1>2, <3>1 DEF Chain, Headers
    <3>3. cur + Hdr # p
      BY <1>7, <3>1, <3>2 DEF Hdr
    <3> QED
      BY <1>5, <1>10, <2>1, <3>1, <3>3 DEF AtFree, Merging, Allocating
  <2>2. CASE pc \in {"idle", "found"}
    BY <2>2 DEF AtFree, Merging, Allocating
  <2> QED
    BY <2>1, <2>2 DEF MInv, AtFree, Merging
<1>12. HeldOrFreed'
  <2>1. ASSUME NEW q \in DOMAIN live'
        PROVE  q - Hdr \in DOMAIN node' /\ node'[q - Hdr].used /\ live'[q] = node'[q - Hdr].size
    <3>1. CASE q = p
      BY <1>5, <1>7, <1>10, <3>1
    <3>2. CASE q # p
      <4>1. q \in DOMAIN live /\ q \in Nat
        BY <1>8, <1>10, <3>2
      <4>2. q - Hdr # b
        BY <1>7, <3>2, <4>1
      <4> QED
        BY <1>5, <1>8, <1>10, <4>1, <4>2
    <3> QED
      BY <3>1, <3>2
  <2>2. ASSUME NEW a \in DOMAIN node', node'[a].used
        PROVE  a + Hdr \in DOMAIN live' \/ (pc' = "mark" /\ a = cur')
    BY <1>5, <1>7, <1>10, <2>2 DEF MInv, HeldOrFreed, Allocating
  <2> QED
    BY <2>1, <2>2 DEF HeldOrFreed
<1>13. ~Meets(b, s)
  <2> SUFFICES ASSUME NEW q \in DOMAIN live, q < b + Hdr + s, b + Hdr < q + live[q]
               PROVE  FALSE
    BY DEF Meets
  <2>1. PICK a \in DOMAIN node : a = q - Hdr /\ node[a].used /\ live[q] = node[a].size
    BY <1>8
  <2>2. a \in Nat /\ b \in Nat /\ a # b /\ node[a].size \in Nat /\ node[b].size \in Nat
    BY <1>1, <1>2, <2>1 DEF Chain, Headers, Node
  <2>3. (a < b => EndOf(node, a) <= b) /\ (b < a => EndOf(node, b) <= a)
    BY <1>2, <2>1 DEF Chain, Apart
  <2>4. q = a + Hdr
    BY <1>8, <2>1, <2>2 DEF Hdr
  <2> QED
    BY <1>1, <2>1, <2>2, <2>3, <2>4 DEF EndOf, Hdr
<1>14. DOMAIN live' \subseteq Nat /\ \A q \in DOMAIN live' : live'[q] \in Nat
  BY <1>8, <1>10
<1> QED
  BY <1>3, <1>6, <1>11, <1>12, <1>13, <1>14

\* The blocks next to a block are other blocks, and not the same.
LEMMA Neighbours ==
  ASSUME NEW h, Chain(h), NEW c \in DOMAIN h
  PROVE  h[c].prev # c /\ (h[c].next # Null => h[c].next \notin {c, h[c].prev})
<1>1. \A a \in DOMAIN h : a \in Nat /\ h[a] \in Node /\ (h[a].next # Null => h[a].next > a)
  BY DEF Chain, Headers, NextOK, EndOf, Node, Hdr
<1>2. h[c].prev # Null => h[c].prev \in DOMAIN h /\ h[h[c].prev].next = c
  BY DEF Chain, PrevOK
<1>3. c \in Nat /\ c # Null
  BY <1>1 DEF Null
<1>4. h[c].prev # Null => h[c].prev \in Nat /\ h[c].prev < c
  BY <1>1, <1>2, <1>3
<1>5. h[c].next # Null => h[c].next > c
  BY <1>1
<1>6. h[c].next \in Nat \cup {Null}
  BY <1>1 DEF Node
<1> QED
  BY <1>3, <1>4, <1>5, <1>6 DEF Null

\* Merging two free blocks disturbs no client.
LEMMA HeldThroughMerge ==
  ASSUME HeldOrFreed, pc # "mark", pc' # "mark", Keeps(node, node'), UNCHANGED live
  PROVE  HeldOrFreed'
  BY DEF HeldOrFreed, Keeps

\* Every step of NoneInEither keeps the invariant.
LEMMA MaskedKeeps == MInv /\ [MaskedNext]_pvars => MInv'
<1> SUFFICES ASSUME MInv, [MaskedNext]_pvars PROVE MInv'
  OBVIOUS
<1>1. CASE MainMalloc
  <2>1. want' \in Nat \ {0}
    <3>1. PICK size \in Requests : want' = RoundUp(size, Granule)
      BY <1>1 DEF MainMalloc, MallocCall
    <3>2. size \in Nat \ {0} /\ Granule \in Nat \ {0}
      BY HeapAssumption DEF Granule
    <3> QED
      BY <3>1, <3>2, RoundUpBounds
  <2>2. Types'
    BY <1>1, <2>1 DEF MainMalloc, MallocCall, MInv, Types
  <2>3. pc = "idle" /\ UNCHANGED <<node, heap_end, live, pc, cur, clash>>
    BY <1>1 DEF MallocCall, MainMalloc
  <2> QED
    BY <2>2, <2>3 DEF MInv, AtFree, Merging, HeldOrFreed, Unmerged, Below, EndsAt, EndOf
<1>2. CASE MainFind
  <2>1. /\ pc = "idle" /\ pc' = "found" /\ want # Null
        /\ UNCHANGED <<node, heap_end, used_memory_total, frames, want, live, wild, clash>>
    BY <1>2 DEF MainFind, vars
  <2>2. cur' \in DOMAIN node /\ BestFit(node, want, cur')
    BY <1>2 DEF MainFind
  <2>3. AtFree'
    BY <2>1, <2>2 DEF AtFree, Merging, BestFit, Fits
  <2>4. HeldOrFreed' /\ Unmerged = {} /\ Unmerged' = {} /\ Types'
    BY <2>1 DEF MInv, HeldOrFreed, Unmerged, Types
  <2> QED
    BY <2>1, <2>3, <2>4 DEF MInv, Below, EndsAt, EndOf
<1>3. CASE MainSplit
  <2>1. /\ pc = "found" /\ pc' = "idle" /\ want' = Null
        /\ node' = Split(node, cur, want) /\ live' = HandOut(cur + Hdr, want)
        /\ clash' = (clash \/ Meets(cur, want))
        /\ used_memory_total' = used_memory_total + want + Hdr
        /\ UNCHANGED <<heap_end, frames, wild>>
    BY <1>3 DEF MainSplit
  <2>2. want \in Nat /\ cur \in DOMAIN node /\ BestFit(node, want, cur) /\ ~Merging /\ Allocating
    BY <2>1 DEF MInv, AtFree, Types, Merging, Allocating
  <2>3. /\ ~Meets(cur, want)
        /\ Chain(node') /\ Below(node', heap_end') /\ EndsAt(node', heap_end')
        /\ AtFree' /\ HeldOrFreed' /\ NoNeighbours(node', Unmerged')
        /\ DOMAIN live' \subseteq Nat /\ \A p \in DOMAIN live' : live'[p] \in Nat
    BY <2>1, <2>2, TakingKeeps
  <2>4. Types' /\ heap_end' = HeapLength
    BY <2>1, <2>2, <2>3 DEF MInv, Types, Null, Hdr
  <2> QED
    BY <2>1, <2>3, <2>4 DEF MInv
<1>4. CASE MainSplitTaken
  BY <1>4 DEF MainSplitTaken, MInv, AtFree, BestFit, Fits
<1>5. CASE ~Allocating /\ ~Merging /\ IrqMalloc
  <2>1. PICK size \in Requests, b \in DOMAIN node :
           LET s == RoundUp(size, Granule)
           IN  /\ BestFit(node, s, b)
               /\ node' = Split(node, b, s)
               /\ live' = HandOut(b + Hdr, s)
               /\ clash' = (clash \/ Meets(b, s))
               /\ used_memory_total' = used_memory_total + s + Hdr
    BY <1>5 DEF IrqMalloc
  <2> DEFINE s == RoundUp(size, Granule)
  <2>2. s \in Nat
    <3>1. size \in Nat \ {0} /\ Granule \in Nat \ {0}
      BY HeapAssumption DEF Granule
    <3> QED
      BY <3>1, RoundUpBounds
  <2>3. UNCHANGED <<heap_end, frames, want, wild, pc, cur>>
    BY <1>5 DEF IrqMalloc
  <2> HIDE DEF s
  <2>4. /\ BestFit(node, s, b) /\ node' = Split(node, b, s) /\ live' = HandOut(b + Hdr, s)
        /\ clash' = (clash \/ Meets(b, s)) /\ used_memory_total' = used_memory_total + s + Hdr
    BY <2>1 DEF s
  <2>5. /\ ~Meets(b, s)
        /\ Chain(node') /\ Below(node', heap_end') /\ EndsAt(node', heap_end')
        /\ AtFree' /\ HeldOrFreed' /\ NoNeighbours(node', Unmerged')
        /\ DOMAIN live' \subseteq Nat /\ \A p \in DOMAIN live' : live'[p] \in Nat
    BY <1>5, <2>2, <2>3, <2>4, TakingKeeps
  <2>6. Types' /\ heap_end' = HeapLength
    BY <2>2, <2>3, <2>4, <2>5 DEF MInv, Types, Hdr
  <2> QED
    BY <2>4, <2>5, <2>6 DEF MInv
<1>6. CASE FreeBegin
  <2>1. PICK p \in DOMAIN live :
           /\ p - Hdr \in DOMAIN node /\ cur' = p - Hdr
           /\ live' = [q \in DOMAIN live \ {p} |-> live[q]]
           /\ used_memory_total' = used_memory_total - FreedSize(node, p - Hdr)
    BY <1>6 DEF FreeBegin
  <2>2. /\ pc = "idle" /\ pc' = "mark"
        /\ UNCHANGED <<node, heap_end, frames, want, wild, clash>>
    BY <1>6 DEF FreeBegin
  <2>3. PICK c \in DOMAIN node : c = p - Hdr /\ cur' = c /\ c + Hdr = p /\ node[c].used
    BY <2>1 DEF MInv, Types, HeldOrFreed, Hdr
  <2>4. c \in Nat /\ node[c].size \in Nat
    BY DEF MInv, Chain, Headers, Node
  <2>5. Types' /\ heap_end' = HeapLength
    BY <2>1, <2>2, <2>3, <2>4 DEF MInv, Types, FreedSize
  <2>6. AtFree'
    BY <2>1, <2>2, <2>3 DEF AtFree, Merging
  <2>7. HeldOrFreed'
    <3>1. ASSUME NEW a \in DOMAIN node, node[a].used, a # c PROVE a + Hdr \in DOMAIN live'
      <4>1. a + Hdr \in DOMAIN live /\ a \in Nat
        BY <2>2, <3>1 DEF MInv, HeldOrFreed, Chain, Headers
      <4>2. a + Hdr # p
        BY <2>3, <2>4, <3>1, <4>1 DEF Hdr
      <4> QED
        BY <2>1, <4>1, <4>2
    <3> QED
      BY <2>1, <2>2, <2>3, <3>1 DEF MInv, HeldOrFreed
  <2>8. Unmerged = {} /\ Unmerged' = {}
    BY <2>2 DEF Unmerged
  <2> QED
    BY <2>2, <2>5, <2>6, <2>7, <2>8 DEF MInv, Below, EndsAt, EndOf
<1>7. CASE FreeMark
  <2>1. /\ pc = "mark" /\ pc' = "next" /\ node' = MarkFree(node, cur)
        /\ UNCHANGED <<heap_end, used_memory_total, frames, want, live, wild, cur, clash>>
    BY <1>7 DEF FreeMark
  <2>2. cur \in DOMAIN node /\ node[cur].used /\ cur + Hdr \notin DOMAIN live /\ Chain(node)
    BY <2>1 DEF MInv, AtFree
  <2>3. /\ Chain(node') /\ DOMAIN node' = DOMAIN node /\ ~node'[cur].used
        /\ node'[cur].prev = node[cur].prev
        /\ \A a \in DOMAIN node \ {cur} : node'[a] = node[a]
        /\ \A e \in Int : (Below(node, e) => Below(node', e)) /\ (EndsAt(node, e) => EndsAt(node', e))
        /\ NoNeighbours(node, {}) => NoNeighbours(node', {cur, node[cur].prev})
    <3>1. PICK h, c, m : h = node /\ c = cur /\ m = MarkFree(h, c)
      BY <2>2
    <3>2. /\ Chain(m) /\ DOMAIN m = DOMAIN h /\ ~m[c].used /\ m[c].prev = h[c].prev
          /\ \A a \in DOMAIN h \ {c} : m[a] = h[a]
          /\ \A e \in Int : (Below(h, e) => Below(m, e)) /\ (EndsAt(h, e) => EndsAt(m, e))
          /\ NoNeighbours(h, {}) => NoNeighbours(m, {c, h[c].prev})
      <4>1. Chain(h) /\ c \in DOMAIN h
        BY <2>2, <3>1
      <4> QED
        BY <3>1, <4>1, MarkKeeps
    <3>3. node' = m
      BY <2>1, <3>1
    <3> QED
      BY <3>1, <3>2, <3>3
  <2>4. Types' /\ heap_end' = HeapLength /\ ~clash' /\ heap_end \in Int
    BY <2>1 DEF MInv, Types
  <2>5. Unmerged = {} /\ Unmerged' = {cur, node[cur].prev}
    BY <2>1, <2>3 DEF Unmerged
  <2>6. AtFree'
    BY <2>1, <2>2, <2>3 DEF AtFree, Merging
  <2>7. HeldOrFreed'
    <3>1. ASSUME NEW p \in DOMAIN live PROVE p - Hdr # cur
      <4>1. p \in Nat /\ cur \in Nat
        BY <2>2 DEF MInv, Types, Chain, Headers
      <4> QED
        BY <2>2, <4>1 DEF Hdr
    <3> QED
      BY <2>1, <2>3, <3>1 DEF MInv, HeldOrFreed
  <2> QED
    BY <2>1, <2>3, <2>4, <2>5, <2>6, <2>7 DEF MInv
<1>8. CASE FreeMergeNext
  <2>1. /\ pc = "next" /\ pc' = "prev" /\ node' = MergeNext(node, cur)
        /\ UNCHANGED <<heap_end, used_memory_total, frames, want, live, wild, cur, clash>>
    BY <1>8 DEF FreeMergeNext
  <2>2. cur \in DOMAIN node /\ ~node[cur].used /\ Chain(node)
    BY <2>1 DEF MInv, AtFree, Merging
  <2>3. NoNeighbours(node, {cur, node[cur].prev})
    BY <2>1 DEF MInv, Unmerged
  <2>4. /\ Keeps(node, node') /\ cur \in DOMAIN node' /\ ~node'[cur].used
        /\ node'[cur].prev = node[cur].prev /\ NoNeighbours(node', {node[cur].prev})
    <3>1. CASE NextIsFree(node, cur)
      <4>1. /\ Keeps(node, node') /\ cur \in DOMAIN node' /\ ~node'[cur].used
            /\ node'[cur].prev = node[cur].prev
            /\ \A S : NoNeighbours(node, S) /\ node[cur].next \notin S
                        => NoNeighbours(node', S \ {cur})
        BY <2>1, <2>2, <3>1, MergeKeeps
      <4>2. node[cur].next \notin {cur, node[cur].prev} /\ node[cur].prev # cur
        BY <2>2, <3>1, Neighbours DEF NextIsFree
      <4>3. {cur, node[cur].prev} \ {cur} = {node[cur].prev}
        BY <4>2
      <4> QED
        BY <2>3, <4>1, <4>2, <4>3
    <3>2. CASE ~NextIsFree(node, cur)
      <4>1. node' = node
        BY <2>1, <3>2 DEF MergeNext
      <4>2. node[cur].next # Null => node[node[cur].next].used
        BY <3>2 DEF NextIsFree
      <4>3. NoNeighbours(node, {node[cur].prev})
        BY <2>3, <4>2 DEF NoNeighbours
      <4>4. Keeps(node, node)
        BY <2>2 DEF Keeps
      <4> QED
        BY <2>2, <4>1, <4>3, <4>4
    <3> QED
      BY <3>1, <3>2
  <2>5. Types' /\ heap_end' = HeapLength /\ ~clash' /\ heap_end \in Int
    BY <2>1 DEF MInv, Types
  <2>6. HeldOrFreed'
    BY <2>1, <2>4, HeldThroughMerge DEF MInv
  <2>7. AtFree' /\ Unmerged' = {node[cur].prev}
    BY <2>1, <2>4 DEF AtFree, Merging, Unmerged
  <2> QED
    BY <2>1, <2>4, <2>5, <2>6, <2>7 DEF MInv, Keeps
<1>9. CASE FreeMergePrev
  <2>1. /\ pc = "prev" /\ pc' = "idle" /\ node' = MergePrev(node, cur)
        /\ UNCHANGED <<heap_end, used_memory_total, frames, want, live, wild, clash>>
    BY <1>9 DEF FreeMergePrev
  <2>2. cur \in DOMAIN node /\ ~node[cur].used /\ Chain(node)
    BY <2>1 DEF MInv, AtFree, Merging
  <2>3. NoNeighbours(node, {node[cur].prev})
    BY <2>1 DEF MInv, Unmerged
  <2>4. Keeps(node, node') /\ NoNeighbours(node', {})
    <3>1. CASE PrevIsFree(node, cur)
      <4>1. PICK p : p = node[cur].prev
        OBVIOUS
      <4>2. p \in DOMAIN node /\ ~node[p].used /\ node[p].next = cur /\ NextIsFree(node, p)
            /\ node' = MergeNext(node, p)
        BY <2>1, <2>2, <3>1, <4>1, MergePrevIsNext
      <4>3. /\ Keeps(node, node')
            /\ \A S : NoNeighbours(node, S) /\ node[p].next \notin S => NoNeighbours(node', S \ {p})
        BY <2>2, <4>2, MergeKeeps
      <4>4. cur # p
        BY <2>2, <4>2 DEF Chain, Headers, NextOK, EndOf, Node, Hdr, Null
      <4>5. cur \notin {p} /\ {p} \ {p} = {}
        BY <4>4
      <4> QED
        BY <2>3, <4>1, <4>2, <4>3, <4>5
    <3>2. CASE ~PrevIsFree(node, cur)
      <4>1. node' = node
        BY <2>1, <3>2 DEF MergePrev
      <4>2. node[cur].prev = Null \/ node[node[cur].prev].used
        BY <3>2 DEF PrevIsFree
      <4>3. Null \notin DOMAIN node
        BY <2>2 DEF Chain, Headers, Null
      <4>4. NoNeighbours(node, {})
        BY <2>3, <4>2, <4>3 DEF NoNeighbours
      <4>5. Keeps(node, node)
        BY <2>2 DEF Keeps
      <4> QED
        BY <4>1, <4>4, <4>5
    <3> QED
      BY <3>1, <3>2
  <2>5. Types' /\ heap_end' = HeapLength /\ ~clash' /\ heap_end \in Int
    BY <2>1 DEF MInv, Types
  <2>6. HeldOrFreed'
    BY <2>1, <2>4, HeldThroughMerge DEF MInv
  <2>7. AtFree' /\ Unmerged' = {}
    BY <2>1 DEF AtFree, Merging, Unmerged
  <2> QED
    BY <2>1, <2>4, <2>5, <2>6, <2>7 DEF MInv, Keeps
<1>10. CASE UNCHANGED pvars
  BY <1>10 DEF pvars, vars, MInv, Types, AtFree, Merging, HeldOrFreed, Unmerged, Below, EndsAt, EndOf
<1> QED
  BY <1>1, <1>2, <1>3, <1>4, <1>5, <1>6, <1>7, <1>8, <1>9, <1>10 DEF MaskedNext, Main

\* If the keyboard interrupt comes neither between the two halves of a malloc of the
\* main flow nor between the marking and the merges of a free, nothing malloc
\* returns to either of them is in a client's hands.
THEOREM MaskedCallsSuffice == NoneInEither => []MallocReturnsNewMemory
<1>1. MInv => MallocReturnsNewMemory
  BY DEF MInv, MallocReturnsNewMemory
<1> QED
  BY <1>1, MaskedInit, MaskedKeeps, PTL DEF NoneInEither, MaskedNext
=============================================================================
