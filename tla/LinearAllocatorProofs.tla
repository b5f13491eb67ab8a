------------------------ MODULE LinearAllocatorProofs ------------------------
(***************************************************************************)
(* Proofs about the kernel heap, for every heap size, every header size of  *)
(* at least 16 bytes, every set of requests and every alignment up to 16.   *)
(***************************************************************************)
EXTENDS LinearAllocator, TLAPS

(* nd is a list of chunks: headers of their types, linked, tiling the heap. *)
List(nd) ==
    /\ nd \in [DOMAIN nd -> MemoryNode]
    /\ DOMAIN nd \subseteq HeapStart .. (HeapEnd - NodeSize)
    /\ WellFormed(nd)

-----------------------------------------------------------------------------
(* The address malloc rounds up to is at most 15 bytes higher, so that the  *)
(* uint8_t padding is exact.                                                *)
LEMMA PaddingExact ==
    ASSUME NEW a \in Nat, NEW al \in Alignments
    PROVE  /\ Padding(a, al) \in 0 .. 15
           /\ AlignedAddr(a, al) = a + NodeSize + Padding(a, al)
           /\ al = 1 => Padding(a, al) = 0
<1> DEFINE x == a + NodeSize
<1>0. x \in Nat /\ al \in {1, 2, 4, 8, 16}
  BY HeapAssumption
<1>1. RoundUp(x, al) \in x .. (x + 15) /\ (al = 1 => RoundUp(x, al) = x)
  <2>1. CASE al = 1
    BY <1>0, <2>1 DEF RoundUp
  <2>2. CASE al = 2
    BY <1>0, <2>2 DEF RoundUp
  <2>3. CASE al = 4
    BY <1>0, <2>3 DEF RoundUp
  <2>4. CASE al = 8
    BY <1>0, <2>4 DEF RoundUp
  <2>5. CASE al = 16
    BY <1>0, <2>5 DEF RoundUp
  <2> QED
    BY <1>0, <2>1, <2>2, <2>3, <2>4, <2>5
<1>2. AlignedAddr(a, al) = RoundUp(x, al)
  BY DEF AlignedAddr
<1>3. Padding(a, al) = (RoundUp(x, al) - x) % 256
  BY DEF Padding, AlignedAddr
<1> HIDE DEF x
<1>4. RoundUp(x, al) - x \in 0 .. 15
  BY <1>0, <1>1
<1>5. Padding(a, al) = RoundUp(x, al) - x
  BY <1>3, <1>4
<1> QED
  BY <1>0, <1>1, <1>2, <1>4, <1>5 DEF x

-----------------------------------------------------------------------------
(* What every chunk of a list satisfies: it lies in the heap, and links to  *)
(* chunks on its two sides.                                                 *)
LEMMA ListFacts ==
    ASSUME NEW nd, List(nd), NEW a \in DOMAIN nd
    PROVE  /\ a \in Nat /\ a >= HeapStart /\ a # NULL
           /\ nd[a] \in MemoryNode
           /\ End(nd, a) \in Nat /\ a < End(nd, a) /\ End(nd, a) <= HeapEnd
           /\ nd[a].next # NULL => /\ nd[a].next \in DOMAIN nd
                                   /\ nd[a].next = End(nd, a)
                                   /\ nd[nd[a].next].prev = a
           /\ nd[a].next = NULL => End(nd, a) = HeapEnd
           /\ nd[a].prev # NULL => /\ nd[a].prev \in DOMAIN nd
                                   /\ nd[a].prev < a
                                   /\ nd[nd[a].prev].next = a
           /\ nd[a].prev = NULL => a = HeapStart
           /\ \A c \in DOMAIN nd : a < c => End(nd, a) <= c
<1>1. a \in HeapStart .. (HeapEnd - NodeSize) /\ HeapEnd - NodeSize \in Int
  BY HeapAssumption DEF List, HeapEnd
<1>2. a \in Nat /\ a >= HeapStart /\ a # NULL
  BY <1>1, HeapAssumption DEF NULL
<1>3. nd[a] \in MemoryNode
  BY DEF List
<1>4. End(nd, a) \in Nat /\ a < End(nd, a)
  BY <1>2, <1>3, HeapAssumption DEF End, MemoryNode
<1>5. LinksOK(nd, a) /\ \A c \in DOMAIN nd : a < c => End(nd, a) <= c
  BY DEF List, WellFormed, Separate
<1>6. End(nd, a) <= HeapEnd
  <2>1. CASE nd[a].next = NULL
    BY <1>4, <1>5, <2>1, HeapAssumption DEF LinksOK, HeapEnd
  <2>2. CASE nd[a].next # NULL
    BY <1>4, <1>5, <2>2, HeapAssumption DEF LinksOK, HeapEnd, List
  <2> QED
    BY <2>1, <2>2
<1> QED
  BY <1>2, <1>3, <1>4, <1>5, <1>6 DEF LinksOK

-----------------------------------------------------------------------------
(* Splitting a chunk: what the headers are afterwards. *)
LEMMA SplitFacts ==
    ASSUME NEW nd, List(nd), NEW a \in DOMAIN nd, NEW n \in Nat, NEW t,
           t = a + NodeSize + n, nd[a].size >= n + NodeSize + 1,
           NEW m, m = Split(nd, a, n, t)
    PROVE  /\ t \notin DOMAIN nd /\ t # NULL /\ a < t /\ t < End(nd, a)
           /\ t \in HeapStart .. (HeapEnd - NodeSize)
           /\ m \in [DOMAIN nd \cup {t} -> MemoryNode]
           /\ DOMAIN m = DOMAIN nd \cup {t}
           /\ m[t].next = nd[a].next /\ m[t].prev = a /\ ~m[t].allocated
           /\ m[t].size = nd[a].size - n - NodeSize /\ m[t].offset = 0
           /\ m[a].next = t /\ m[a].size = n
           /\ \A c \in DOMAIN nd :
                 /\ m[c].allocated = nd[c].allocated /\ m[c].offset = nd[c].offset
                 /\ m[c].prev = IF c = nd[a].next THEN t ELSE nd[c].prev
                 /\ c # a => m[c].size = nd[c].size /\ m[c].next = nd[c].next
<1>1. /\ a \in Nat /\ a >= HeapStart /\ nd[a] \in MemoryNode /\ a # NULL
      /\ End(nd, a) = a + NodeSize + nd[a].size /\ End(nd, a) <= HeapEnd
      /\ nd[a].next # NULL => nd[a].next = End(nd, a)
  BY ListFacts DEF End
<1>2. nd[a].size \in Nat /\ nd[a].next \in Nat
  BY <1>1 DEF MemoryNode
<1>3. t \in Nat /\ a < t /\ t < End(nd, a) /\ t + NodeSize <= HeapEnd
  BY <1>1, <1>2, HeapAssumption DEF HeapEnd
<1>4. t \notin DOMAIN nd
  <2> SUFFICES ASSUME t \in DOMAIN nd PROVE FALSE
    OBVIOUS
  <2>1. End(nd, a) <= t
    BY <1>3, ListFacts
  <2> QED
    BY <2>1, <1>1, <1>2, <1>3, HeapAssumption
<1>5. t \in HeapStart .. (HeapEnd - NodeSize) /\ t # NULL
  BY <1>1, <1>3, HeapAssumption DEF HeapEnd, NULL
<1>6. a # t /\ a # nd[a].next
  <2>1. CASE nd[a].next = NULL
    BY <2>1, <1>1, <1>3, <1>5
  <2>2. CASE nd[a].next # NULL
    BY <2>2, <1>1, <1>2, <1>3, HeapAssumption
  <2> QED
    BY <2>1, <2>2
<1>7. nd[a].size - n - NodeSize \in Nat
  BY <1>2, HeapAssumption
<1>8. /\ DOMAIN m = DOMAIN nd \cup {t}
      /\ m = [c \in DOMAIN nd \cup {t} |-> m[c]]
      /\ m[t] = [next |-> nd[a].next, prev |-> a, allocated |-> FALSE,
                 size |-> nd[a].size - n - NodeSize, offset |-> 0]
      /\ m[a] = [nd[a] EXCEPT !.size = n, !.next = t]
  BY <1>4, <1>6 DEF Split
<1>9. \A c \in DOMAIN nd : c # a =>
         m[c] = IF c = nd[a].next THEN [nd[c] EXCEPT !.prev = t] ELSE nd[c]
  BY <1>4, <1>6 DEF Split
<1>10. m[t] \in MemoryNode
  <2> DEFINE z == nd[a].size - n - NodeSize
             y == nd[a].next
             g == m[t]
  <2>1. /\ z \in Nat /\ y \in Nat
        /\ g = [next |-> y, prev |-> a, allocated |-> FALSE, size |-> z, offset |-> 0]
    BY <1>2, <1>7, <1>8
  <2> HIDE DEF z, y, g
  <2>2. g \in MemoryNode
    BY <2>1, <1>1 DEF MemoryNode
  <2> QED
    BY <2>2 DEF g
<1>11. /\ m[a] \in MemoryNode /\ m[a].next = t /\ m[a].size = n
       /\ m[a].allocated = nd[a].allocated /\ m[a].offset = nd[a].offset
       /\ m[a].prev = nd[a].prev
  <2> DEFINE f == nd[a]
             g == m[a]
  <2>1. f \in MemoryNode /\ g = [f EXCEPT !.size = n, !.next = t]
    BY <1>1, <1>8, ListFacts
  <2> HIDE DEF f, g
  <2>2. /\ g \in MemoryNode /\ g.next = t /\ g.size = n
        /\ g.allocated = f.allocated /\ g.offset = f.offset /\ g.prev = f.prev
    BY <2>1, <1>1, <1>3 DEF MemoryNode
  <2> QED
    BY <2>2 DEF f, g
<1>12. ASSUME NEW c \in DOMAIN nd, c # a
       PROVE  /\ m[c] \in MemoryNode
              /\ m[c].allocated = nd[c].allocated /\ m[c].offset = nd[c].offset
              /\ m[c].prev = IF c = nd[a].next THEN t ELSE nd[c].prev
              /\ m[c].size = nd[c].size /\ m[c].next = nd[c].next
  <2>1. nd[c] \in MemoryNode
    BY ListFacts
  <2>2. CASE c = nd[a].next
    <3>1. m[c] = [nd[c] EXCEPT !.prev = t]
      BY <1>9, <1>12, <2>2
    <3> QED
      BY <2>1, <2>2, <3>1, <1>3 DEF MemoryNode
  <2>3. CASE c # nd[a].next
    BY <1>12, <2>1, <2>3, <1>9
  <2> QED
    BY <2>2, <2>3
<1>13. m \in [DOMAIN nd \cup {t} -> MemoryNode]
  BY <1>8, <1>10, <1>11, <1>12
<1>14. m[t].next = nd[a].next /\ m[t].prev = a /\ ~m[t].allocated
       /\ m[t].size = nd[a].size - n - NodeSize /\ m[t].offset = 0
  BY <1>8
<1> QED
  BY <1>3, <1>4, <1>5, <1>6, <1>8, <1>11, <1>12, <1>13, <1>14

(* Splitting a chunk of a list gives a list. *)
LEMMA SplitList ==
    ASSUME NEW nd, List(nd), NEW a \in DOMAIN nd, NEW n \in Nat, NEW t,
           t = a + NodeSize + n, nd[a].size >= n + NodeSize + 1
    PROVE  List(Split(nd, a, n, t))
<1> SUFFICES ASSUME NEW m, m = Split(nd, a, n, t) PROVE List(m)
  OBVIOUS
<1>f. /\ t \notin DOMAIN nd /\ t # NULL /\ a < t /\ t < End(nd, a)
      /\ t \in HeapStart .. (HeapEnd - NodeSize)
      /\ m \in [DOMAIN nd \cup {t} -> MemoryNode]
      /\ DOMAIN m = DOMAIN nd \cup {t}
      /\ m[t].next = nd[a].next /\ m[t].prev = a /\ ~m[t].allocated
      /\ m[t].size = nd[a].size - n - NodeSize /\ m[t].offset = 0
      /\ m[a].next = t /\ m[a].size = n
      /\ \A c \in DOMAIN nd :
            /\ m[c].allocated = nd[c].allocated /\ m[c].offset = nd[c].offset
            /\ m[c].prev = IF c = nd[a].next THEN t ELSE nd[c].prev
            /\ c # a => m[c].size = nd[c].size /\ m[c].next = nd[c].next
  BY SplitFacts
<1>a. /\ a \in Nat /\ a # NULL /\ nd[a] \in MemoryNode /\ t \in Nat /\ a < t
      /\ End(nd, a) = a + NodeSize + nd[a].size
      /\ nd[a].size \in Nat /\ nd[a].next \in Nat
  BY <1>f, ListFacts, HeapAssumption DEF End, MemoryNode
<1>3. DOMAIN m \subseteq HeapStart .. (HeapEnd - NodeSize)
  BY <1>f DEF List
<1>4. /\ End(m, t) = End(nd, a) /\ End(m, a) = t
      /\ \A c \in DOMAIN nd : c # a => End(m, c) = End(nd, c)
  BY <1>f, <1>a, HeapAssumption DEF End
<1>5. Separate(m)
  <2> SUFFICES ASSUME NEW c \in DOMAIN m, NEW d \in DOMAIN m, c < d
               PROVE  End(m, c) <= d
    BY DEF Separate
  <2>1. CASE c = t
    <3>1. a < d /\ d \in DOMAIN nd
      BY <2>1, <1>a, <1>f, ListFacts
    <3> QED
      BY <2>1, <3>1, <1>4, ListFacts
  <2>2. CASE c = a
    <3>1. CASE d = t
      BY <2>2, <3>1, <1>4, <1>a
    <3>2. CASE d # t
      <4>1. End(nd, a) <= d /\ d \in Nat /\ End(nd, a) \in Nat
        BY <2>2, <3>2, <1>f, ListFacts
      <4> QED
        BY <2>2, <4>1, <1>4, <1>f, <1>a
    <3> QED
      BY <3>1, <3>2
  <2>3. CASE c # t /\ c # a
    <3>1. c \in DOMAIN nd /\ End(m, c) = End(nd, c)
      BY <2>3, <1>4, <1>f
    <3>2. CASE d = t
      <4>1. c < a
        <5>1. c \in Nat /\ c # a
          BY <3>1, <2>3, ListFacts
        <5>2. a < c => End(nd, a) <= c
          BY <3>1, ListFacts
        <5>3. End(nd, a) \in Nat
          BY ListFacts
        <5> QED
          BY <5>1, <5>2, <5>3, <3>2, <1>a, <1>f
      <4>2. End(nd, c) <= a /\ End(nd, c) \in Nat
        BY <4>1, <3>1, ListFacts
      <4> QED
        BY <4>2, <3>1, <3>2, <1>a
    <3>3. CASE d # t
      BY <3>1, <3>3, <1>f, ListFacts
    <3> QED
      BY <3>2, <3>3
  <2> QED
    BY <2>1, <2>2, <2>3
<1>6. ASSUME NEW c \in DOMAIN m PROVE LinksOK(m, c)
  <2>1. CASE c = t
    <3>1. nd[a].next # NULL => /\ nd[a].next \in DOMAIN nd
                               /\ nd[a].next = End(m, t) /\ m[nd[a].next].prev = t
      BY <1>4, <1>f, ListFacts
    <3>2. nd[a].next = NULL => End(m, t) = HeapEnd
      BY <1>4, ListFacts
    <3> QED
      BY <2>1, <3>1, <3>2, <1>f, <1>a DEF LinksOK
  <2>2. CASE c = a
    <3>1. a # nd[a].next
      BY <1>a, ListFacts
    <3>2. m[a].next = t /\ m[t].prev = a /\ m[a].prev = nd[a].prev
      BY <1>f, <3>1
    <3>3. nd[a].prev # NULL => /\ nd[a].prev \in DOMAIN nd /\ nd[a].prev < a
                               /\ m[nd[a].prev].next = a
      BY <1>f, <1>a, ListFacts
    <3> QED
      BY <2>2, <3>2, <3>3, <1>4, <1>f, <1>a, ListFacts DEF LinksOK
  <2>3. CASE c # t /\ c # a
    <3>1. /\ c \in DOMAIN nd /\ c # NULL
          /\ m[c].next = nd[c].next /\ End(m, c) = End(nd, c)
      BY <2>3, <1>f, <1>4, ListFacts
    <3>2. nd[c].next # NULL => m[nd[c].next].prev = c
      <4> SUFFICES ASSUME nd[c].next # NULL PROVE m[nd[c].next].prev = c
        OBVIOUS
      <4>1. nd[c].next \in DOMAIN nd /\ nd[nd[c].next].prev = c
        BY <3>1, ListFacts
      <4>2. nd[c].next # nd[a].next
        BY <4>1, <3>1, <2>3, ListFacts
      <4> QED
        BY <4>1, <4>2, <1>f
    <3>3. CASE c = nd[a].next
      <4>1. m[c].prev = t /\ m[t].next = c /\ t < c
        BY <3>1, <3>3, <1>f, ListFacts
      <4> QED
        BY <4>1, <3>1, <3>2, <1>f, ListFacts DEF LinksOK
    <3>4. CASE c # nd[a].next
      <4>1. nd[c].prev # NULL => m[nd[c].prev].next = c
        <5> SUFFICES ASSUME nd[c].prev # NULL PROVE m[nd[c].prev].next = c
          OBVIOUS
        <5>1. nd[c].prev \in DOMAIN nd /\ nd[nd[c].prev].next = c
          BY <3>1, ListFacts
        <5>2. nd[c].prev # a
          BY <5>1, <3>4
        <5> QED
          BY <5>1, <5>2, <1>f
      <4> QED
        BY <4>1, <3>1, <3>2, <3>4, <1>f, ListFacts DEF LinksOK
    <3> QED
      BY <3>3, <3>4
  <2> QED
    BY <2>1, <2>2, <2>3
<1> QED
  BY <1>f, <1>3, <1>5, <1>6 DEF List, WellFormed

-----------------------------------------------------------------------------
(* m is nd with chunk c, which follows chunk p, made part of p.              *)
Absorbed(nd, p, c, m) ==
    /\ c \in DOMAIN nd /\ p < c
    /\ m \in [DOMAIN nd \ {c} -> MemoryNode]
    /\ DOMAIN m = DOMAIN nd \ {c}
    /\ m[p].next = nd[c].next /\ m[p].size = nd[p].size + nd[c].size + NodeSize
    /\ \A x \in DOMAIN nd \ {c} :
          /\ m[x].allocated = nd[x].allocated /\ m[x].offset = nd[x].offset
          /\ m[x].prev = IF x = nd[c].next THEN p ELSE nd[x].prev
          /\ x # p => m[x].size = nd[x].size /\ m[x].next = nd[x].next

(* Merging a chunk with the next one: what the headers are afterwards. *)
LEMMA AbsorbFacts ==
    ASSUME NEW nd, List(nd), NEW p \in DOMAIN nd, nd[p].next # NULL,
           NEW c, c = nd[p].next, NEW m, m = Absorb(nd, p, c)
    PROVE  Absorbed(nd, p, c, m)
<1>1. /\ c \in DOMAIN nd /\ nd[c] \in MemoryNode /\ nd[p] \in MemoryNode
      /\ p \in Nat /\ c \in Nat /\ p < c /\ p # NULL /\ c # NULL
      /\ nd[c].next # NULL => c < nd[c].next
  BY ListFacts
<1>2. /\ nd[p].size \in Nat /\ nd[c].size \in Nat /\ nd[c].next \in Nat
      /\ nd[p].size + nd[c].size + NodeSize \in Nat
  BY <1>1, HeapAssumption DEF MemoryNode
<1>3. p # c /\ p # nd[c].next
  BY <1>1
<1>4. /\ DOMAIN m = DOMAIN nd \ {c}
      /\ m = [x \in DOMAIN nd \ {c} |-> m[x]]
      /\ m[p] = [nd[p] EXCEPT !.size = @ + nd[c].size + NodeSize, !.next = nd[c].next]
      /\ \A x \in DOMAIN nd \ {c} : x # p =>
            m[x] = IF x = nd[c].next THEN [nd[x] EXCEPT !.prev = p] ELSE nd[x]
  BY <1>1, <1>3 DEF Absorb
<1>5. /\ m[p] \in MemoryNode /\ m[p].next = nd[c].next
      /\ m[p].size = nd[p].size + nd[c].size + NodeSize
      /\ m[p].allocated = nd[p].allocated /\ m[p].offset = nd[p].offset
      /\ m[p].prev = nd[p].prev
  <2> DEFINE f == nd[p]
             g == m[p]
             n == nd[p].size + nd[c].size + NodeSize
             k == nd[c].next
  <2>1. f \in MemoryNode /\ n \in Nat /\ k \in Nat /\ g = [f EXCEPT !.size = n, !.next = k]
    BY <1>1, <1>2, <1>4
  <2> HIDE DEF f, g, n, k
  <2>2. /\ g \in MemoryNode /\ g.next = k /\ g.size = n
        /\ g.allocated = f.allocated /\ g.offset = f.offset /\ g.prev = f.prev
    BY <2>1 DEF MemoryNode
  <2> QED
    BY <2>2 DEF f, g, n, k
<1>6. ASSUME NEW x \in DOMAIN nd \ {c}, x # p
      PROVE  /\ m[x] \in MemoryNode
             /\ m[x].allocated = nd[x].allocated /\ m[x].offset = nd[x].offset
             /\ m[x].prev = IF x = nd[c].next THEN p ELSE nd[x].prev
             /\ m[x].size = nd[x].size /\ m[x].next = nd[x].next
  <2>1. nd[x] \in MemoryNode
    BY ListFacts
  <2>2. CASE x = nd[c].next
    <3> DEFINE f == nd[x]
               g == m[x]
    <3>1. f \in MemoryNode /\ g = [f EXCEPT !.prev = p]
      BY <1>4, <1>6, <2>1, <2>2
    <3> HIDE DEF f, g
    <3>2. /\ g \in MemoryNode /\ g.prev = p /\ g.next = f.next
          /\ g.allocated = f.allocated /\ g.offset = f.offset /\ g.size = f.size
      BY <3>1, <1>1 DEF MemoryNode
    <3> QED
      BY <2>2, <3>2 DEF f, g
  <2>3. CASE x # nd[c].next
    BY <1>4, <1>6, <2>1, <2>3
  <2> QED
    BY <2>2, <2>3
<1>7. m \in [DOMAIN nd \ {c} -> MemoryNode]
  BY <1>4, <1>5, <1>6
<1>8. ASSUME NEW x \in DOMAIN nd \ {c}
      PROVE  /\ m[x].allocated = nd[x].allocated /\ m[x].offset = nd[x].offset
             /\ m[x].prev = IF x = nd[c].next THEN p ELSE nd[x].prev
             /\ x # p => m[x].size = nd[x].size /\ m[x].next = nd[x].next
  <2>1. CASE x = p
    BY <2>1, <1>3, <1>5
  <2>2. CASE x # p
    BY <2>2, <1>6
  <2> QED
    BY <2>1, <2>2
<1> QED
  BY <1>1, <1>4, <1>5, <1>7, <1>8 DEF Absorbed

(* Merging two neighbours of a list gives a list. *)
LEMMA AbsorbList ==
    ASSUME NEW nd, List(nd), NEW p \in DOMAIN nd, nd[p].next # NULL,
           NEW c, c = nd[p].next
    PROVE  List(Absorb(nd, p, c))
<1> SUFFICES ASSUME NEW m, m = Absorb(nd, p, c) PROVE List(m)
  OBVIOUS
<1>m. Absorbed(nd, p, c, m)
  BY AbsorbFacts
<1>f. /\ c \in DOMAIN nd /\ p < c
      /\ m \in [DOMAIN nd \ {c} -> MemoryNode]
      /\ DOMAIN m = DOMAIN nd \ {c}
      /\ m[p].next = nd[c].next /\ m[p].size = nd[p].size + nd[c].size + NodeSize
      /\ \A x \in DOMAIN nd \ {c} :
            /\ m[x].allocated = nd[x].allocated /\ m[x].offset = nd[x].offset
            /\ m[x].prev = IF x = nd[c].next THEN p ELSE nd[x].prev
            /\ x # p => m[x].size = nd[x].size /\ m[x].next = nd[x].next
  BY <1>m DEF Absorbed
<1>a. /\ p \in Nat /\ c \in Nat /\ p # c /\ p # NULL /\ c # NULL
      /\ nd[p].size \in Nat /\ nd[c].size \in Nat
      /\ c = End(nd, p) /\ nd[c].prev = p
  BY <1>f, ListFacts DEF MemoryNode
<1>1. DOMAIN m \subseteq HeapStart .. (HeapEnd - NodeSize)
  BY <1>f DEF List
<1>2. /\ End(m, p) = End(nd, c)
      /\ \A x \in DOMAIN nd \ {c} : x # p => End(m, x) = End(nd, x)
  BY <1>f, <1>a, HeapAssumption DEF End
<1>3. Separate(m)
  <2> SUFFICES ASSUME NEW x \in DOMAIN m, NEW y \in DOMAIN m, x < y
               PROVE  End(m, x) <= y
    BY DEF Separate
  <2>1. CASE x # p
    BY <2>1, <1>2, <1>f, ListFacts
  <2>2. CASE x = p
    <3>1. End(nd, p) <= y /\ y # c /\ y \in Nat
      BY <2>2, <1>f, ListFacts
    <3>2. c < y
      BY <3>1, <1>a
    <3>3. End(nd, c) <= y
      BY <3>2, <1>f, ListFacts
    <3> QED
      BY <2>2, <3>3, <1>2
  <2> QED
    BY <2>1, <2>2
<1>4. ASSUME NEW x \in DOMAIN m PROVE LinksOK(m, x)
  <2>0. x \in DOMAIN nd /\ x # c /\ x \in Nat /\ x # NULL
    BY <1>f, ListFacts
  <2>1. /\ m[x].next = NULL => End(m, x) = HeapEnd
        /\ m[x].next # NULL => /\ m[x].next \in DOMAIN m /\ m[x].next = End(m, x)
                               /\ m[m[x].next].prev = x
    <3>1. CASE x = p
      <4>1. /\ nd[c].next = NULL => End(nd, c) = HeapEnd
            /\ nd[c].next # NULL => /\ nd[c].next \in DOMAIN nd /\ nd[c].next # c
                                    /\ nd[c].next = End(nd, c)
        BY <1>f, ListFacts
      <4> QED
        BY <3>1, <4>1, <1>2, <1>f
    <3>2. CASE x # p
      <4>1. m[x].next = nd[x].next /\ End(m, x) = End(nd, x)
        BY <2>0, <3>2, <1>2, <1>f
      <4>2. nd[x].next # NULL => /\ nd[x].next \in DOMAIN nd
                                 /\ nd[x].next = End(nd, x)
                                 /\ nd[nd[x].next].prev = x
        BY <2>0, ListFacts
      <4>3. nd[x].next # NULL => nd[x].next # c /\ nd[x].next # nd[c].next
        BY <4>2, <2>0, <3>2, <1>a, <1>f, ListFacts
      <4> QED
        BY <4>1, <4>2, <4>3, <2>0, <1>f, ListFacts
    <3> QED
      BY <3>1, <3>2
  <2>2. /\ m[x].prev = NULL => x = HeapStart
        /\ m[x].prev # NULL => /\ m[x].prev \in DOMAIN m /\ m[x].prev < x
                               /\ m[m[x].prev].next = x
    <3>1. CASE x = nd[c].next
      <4>1. m[x].prev = p
        BY <2>0, <3>1, <1>f
      <4>2. c < x
        BY <2>0, <3>1, <1>f, ListFacts
      <4> QED
        BY <3>1, <4>1, <4>2, <2>0, <1>f, <1>a
    <3>2. CASE x # nd[c].next
      <4>1. m[x].prev = nd[x].prev
        BY <2>0, <3>2, <1>f
      <4>2. nd[x].prev # NULL => /\ nd[x].prev \in DOMAIN nd /\ nd[x].prev < x
                                 /\ nd[nd[x].prev].next = x
        BY <2>0, ListFacts
      <4>3. nd[x].prev # NULL => nd[x].prev # c /\ nd[x].prev # p
        BY <4>2, <2>0, <3>2, <1>a
      <4> QED
        BY <4>1, <4>2, <4>3, <2>0, <1>f, ListFacts
    <3> QED
      BY <3>1, <3>2
  <2> QED
    BY <2>1, <2>2 DEF LinksOK
<1> QED
  BY <1>f, <1>1, <1>3, <1>4 DEF List, WellFormed

-----------------------------------------------------------------------------
(* Headers that differ in their flags only make the same list. *)
LEMMA FlagsList ==
    ASSUME NEW nd, List(nd), NEW m, m \in [DOMAIN nd -> MemoryNode],
           \A x \in DOMAIN nd : /\ m[x].next = nd[x].next /\ m[x].prev = nd[x].prev
                                /\ m[x].size = nd[x].size
    PROVE  List(m)
<1>1. DOMAIN m = DOMAIN nd
  OBVIOUS
<1>2. \A x \in DOMAIN nd : End(m, x) = End(nd, x)
  BY DEF End
<1>3. Separate(m)
  BY <1>1, <1>2 DEF List, WellFormed, Separate
<1>4. ASSUME NEW x \in DOMAIN m PROVE LinksOK(m, x)
  <2>1. LinksOK(nd, x)
    BY <1>1 DEF List, WellFormed
  <2> QED
    BY <2>1, <1>1, <1>2 DEF LinksOK
<1> QED
  BY <1>1, <1>3, <1>4 DEF List, WellFormed

(* Claiming a chunk sets its flags and nothing else. *)
LEMMA ClaimFacts ==
    ASSUME NEW nd, List(nd), NEW h \in DOMAIN nd, NEW pad, pad \in 0 .. 255,
           NEW m, m = Claim(nd, h, pad)
    PROVE  /\ List(m) /\ DOMAIN m = DOMAIN nd
           /\ m[h].allocated /\ m[h].offset = pad
           /\ \A x \in DOMAIN nd \ {h} : m[x] = nd[x]
           /\ \A x \in DOMAIN nd : /\ m[x].size = nd[x].size
                                  /\ m[x].next = nd[x].next
                                  /\ m[x].prev = nd[x].prev
<1>1. nd \in [DOMAIN nd -> MemoryNode] /\ nd[h] \in MemoryNode
  BY DEF List
<1> DEFINE c == [nd[h] EXCEPT !.allocated = TRUE, !.offset = pad]
<1>2. /\ c \in MemoryNode /\ c.allocated /\ c.offset = pad /\ c.size = nd[h].size
      /\ c.next = nd[h].next /\ c.prev = nd[h].prev
  BY <1>1 DEF MemoryNode
<1>3. m = [nd EXCEPT ![h] = c]
  BY DEF Claim
<1> HIDE DEF c
<1>4. /\ m \in [DOMAIN nd -> MemoryNode] /\ m[h] = c
      /\ \A x \in DOMAIN nd \ {h} : m[x] = nd[x]
  BY <1>1, <1>2, <1>3
<1>5. \A x \in DOMAIN nd : /\ m[x].size = nd[x].size /\ m[x].next = nd[x].next
                          /\ m[x].prev = nd[x].prev
  BY <1>2, <1>4
<1>6. List(m)
  BY <1>4, <1>5, FlagsList
<1> QED
  BY <1>2, <1>4, <1>5, <1>6

(* Releasing a chunk clears its flag and nothing else. *)
LEMMA ReleaseFacts ==
    ASSUME NEW nd, List(nd), NEW h \in DOMAIN nd, NEW m, m = Release(nd, h)
    PROVE  /\ List(m) /\ DOMAIN m = DOMAIN nd
           /\ ~m[h].allocated /\ m[h].offset = nd[h].offset
           /\ \A x \in DOMAIN nd \ {h} : m[x] = nd[x]
           /\ \A x \in DOMAIN nd : /\ m[x].size = nd[x].size
                                  /\ m[x].next = nd[x].next
                                  /\ m[x].prev = nd[x].prev
<1>1. nd \in [DOMAIN nd -> MemoryNode] /\ nd[h] \in MemoryNode
  BY DEF List
<1> DEFINE c == [nd[h] EXCEPT !.allocated = FALSE]
<1>2. /\ c \in MemoryNode /\ ~c.allocated /\ c.offset = nd[h].offset /\ c.size = nd[h].size
      /\ c.next = nd[h].next /\ c.prev = nd[h].prev
  BY <1>1 DEF MemoryNode
<1>3. m = [nd EXCEPT ![h] = c]
  BY DEF Release
<1> HIDE DEF c
<1>4. /\ m \in [DOMAIN nd -> MemoryNode] /\ m[h] = c
      /\ \A x \in DOMAIN nd \ {h} : m[x] = nd[x]
  BY <1>1, <1>2, <1>3
<1>5. \A x \in DOMAIN nd : /\ m[x].size = nd[x].size /\ m[x].next = nd[x].next
                          /\ m[x].prev = nd[x].prev
  BY <1>2, <1>4
<1>6. List(m)
  BY <1>4, <1>5, FlagsList
<1> QED
  BY <1>2, <1>4, <1>5, <1>6

-----------------------------------------------------------------------------
(* Offsets are shorter than a header, so bytes within NodeSize of a header   *)
(* belong to one chunk only: a pointer determines the chunk it came from.    *)
LEMMA HeaderUnique ==
    ASSUME NEW nd, List(nd), NEW a \in DOMAIN nd, NEW c \in DOMAIN nd,
           NEW i, i \in 0 .. 15, NEW j, j \in 0 .. 15, a + i = c + j
    PROVE  a = c
<1>1. a \in Nat /\ c \in Nat
  BY ListFacts
<1>2. nd[a].size \in Nat /\ nd[c].size \in Nat
  BY ListFacts DEF MemoryNode
<1>3. (a < c => a + NodeSize + nd[a].size <= c) /\ (c < a => c + NodeSize + nd[c].size <= a)
  BY ListFacts DEF End
<1> QED
  BY <1>1, <1>2, <1>3, HeapAssumption

-----------------------------------------------------------------------------
(* The invariant, for a list nd and the blocks lv that callers hold.         *)
Offsets(nd) ==
    \A a \in DOMAIN nd : nd[a].offset \in 0 .. 15
                         /\ (Alignments \subseteq {1} => nd[a].offset = 0)

(* The chunks of nd leave no byte of the heap out.                           *)
Covered(nd) ==
    HeapSize >= NodeSize =>
        \A y \in HeapStart .. (HeapEnd - 1) :
            \E a \in DOMAIN nd : a <= y /\ y < End(nd, a)

(* No chunk outside E is free and followed by a free chunk.                  *)
CoalescedBut(nd, E) ==
    \A a \in DOMAIN nd \ E :
        ~nd[a].allocated /\ nd[a].next # NULL => nd[nd[a].next].allocated

From(nd, b, a) == nd[a].allocated /\ b.ptr = a + NodeSize + nd[a].offset

(* An allocated chunk is as long as its block, up to the padding and to the  *)
(* remainder that was too short to split off.                                *)
Extent(nd, b, a) ==
    /\ \/ b.ptr + b.size <= End(nd, a)
       \/ b.ptr + b.size < End(nd, a) + nd[a].offset
    /\ nd[a].size <= b.size + nd[a].offset + NodeSize

Owned(nd, lv) ==
    /\ lv \subseteq [ptr : Nat, size : Requests]
    /\ \A b \in lv : \E a \in DOMAIN nd : From(nd, b, a)
    /\ \A a \in DOMAIN nd : nd[a].allocated => \E b \in lv : From(nd, b, a)
    /\ \A b, d \in lv : b.ptr = d.ptr => b = d
    /\ \A b \in lv, a \in DOMAIN nd : From(nd, b, a) => Extent(nd, b, a)

Heaped(nd, lv) ==
    /\ List(nd)
    /\ Offsets(nd)
    /\ Covered(nd)
    /\ CoalescedBut(nd, {})
    /\ Owned(nd, lv)

LastOK ==
    last \in [call : {"none", "malloc", "free"}, size : Requests \cup {0}, ptr : Nat]

HeapInv == Heaped(node, live) /\ LastOK

-----------------------------------------------------------------------------
(* What carving s bytes and their padding out of chunk a does to the list.   *)
LEMMA CarveFacts ==
    ASSUME NEW nd, List(nd), Offsets(nd), Covered(nd), NEW a \in DOMAIN nd,
           NEW s \in Nat, NEW al \in Alignments,
           NEW pad, pad = Padding(a, al), NEW k, k = Carve(nd, a, s, al)
    PROVE  /\ List(k) /\ Offsets(k) /\ Covered(k)
           /\ DOMAIN nd \subseteq DOMAIN k
           /\ \/ k[a].size = s + pad
              \/ k[a].size = nd[a].size /\ nd[a].size <= s + pad + NodeSize
           /\ \A x \in DOMAIN nd \ {a} :
                 /\ k[x].allocated = nd[x].allocated /\ k[x].offset = nd[x].offset
                 /\ k[x].size = nd[x].size /\ k[x].next = nd[x].next
           /\ \A x \in DOMAIN k \ DOMAIN nd :
                 ~k[x].allocated /\ k[x].next = nd[a].next
<1>1. /\ a \in Nat /\ pad \in 0 .. 15
      /\ AlignedAddr(a, al) = a + NodeSize + pad /\ nd[a].size \in Nat
  BY ListFacts, PaddingExact DEF MemoryNode
<1>2. CASE nd[a].size >= s + pad + NodeSize + 1
  <2>0. PICK n, t : n = s + pad /\ t = a + NodeSize + n
    OBVIOUS
  <2>1. n \in Nat /\ t \in Nat /\ t = AlignedAddr(a, al) + s /\ nd[a].size >= n + NodeSize + 1
    BY <2>0, <1>1, <1>2, HeapAssumption
  <2>2. k = Split(nd, a, n, t)
    BY <2>0, <2>1, <1>1, <1>2 DEF Carve
  <2>3. List(k)
    BY <2>0, <2>1, <2>2, SplitList
  <2>4. /\ t \notin DOMAIN nd /\ a < t /\ t < End(nd, a)
        /\ DOMAIN k = DOMAIN nd \cup {t}
        /\ k[t].next = nd[a].next /\ ~k[t].allocated
        /\ k[t].size = nd[a].size - n - NodeSize /\ k[t].offset = 0
        /\ k[a].next = t /\ k[a].size = n
        /\ \A c \in DOMAIN nd :
              /\ k[c].allocated = nd[c].allocated /\ k[c].offset = nd[c].offset
              /\ c # a => k[c].size = nd[c].size /\ k[c].next = nd[c].next
    BY <2>0, <2>1, <2>2, SplitFacts
  <2>5. Offsets(k)
    BY <2>4 DEF Offsets
  <2>6. Covered(k)
    <3>1. /\ End(k, a) = t /\ End(k, t) = End(nd, a)
          /\ \A c \in DOMAIN nd \ {a} : End(k, c) = End(nd, c)
      BY <2>0, <2>1, <2>4, <1>1, HeapAssumption DEF End
    <3> SUFFICES ASSUME HeapSize >= NodeSize, NEW y \in HeapStart .. (HeapEnd - 1)
                 PROVE  \E c \in DOMAIN k : c <= y /\ y < End(k, c)
      BY DEF Covered
    <3>2. PICK c \in DOMAIN nd : c <= y /\ y < End(nd, c)
      BY DEF Covered
    <3>3. CASE c # a
      BY <3>1, <3>2, <3>3, <2>4
    <3>4. CASE c = a /\ y < t
      BY <3>1, <3>2, <3>4, <2>4
    <3>5. CASE c = a /\ ~(y < t)
      <4>1. t <= y
        BY <3>5, <2>1, HeapAssumption DEF HeapEnd
      <4> QED
        BY <3>1, <3>2, <3>5, <4>1, <2>4
    <3> QED
      BY <3>3, <3>4, <3>5
  <2> QED
    BY <2>0, <2>3, <2>4, <2>5, <2>6
<1>3. CASE ~(nd[a].size >= s + pad + NodeSize + 1)
  <2>1. k = nd
    BY <1>3, <1>1 DEF Carve
  <2>2. nd[a].size <= s + pad + NodeSize
    BY <1>3, <1>1, HeapAssumption
  <2> QED
    BY <2>1, <2>2
<1> QED
  BY <1>2, <1>3

(* What malloc does to the list when it takes chunk a for s bytes.           *)
LEMMA MallocFacts ==
    ASSUME NEW nd, List(nd), Offsets(nd), Covered(nd), NEW a \in DOMAIN nd,
           NEW s \in Nat, NEW al \in Alignments, NEW pad, pad = Padding(a, al),
           NEW m, m = Claim(Carve(nd, a, s, al), a, pad)
    PROVE  /\ List(m) /\ Offsets(m) /\ Covered(m)
           /\ DOMAIN nd \subseteq DOMAIN m
           /\ m[a].allocated /\ m[a].offset = pad
           /\ \/ m[a].size = s + pad
              \/ m[a].size = nd[a].size /\ nd[a].size <= s + pad + NodeSize
           /\ \A x \in DOMAIN nd \ {a} :
                 /\ m[x].allocated = nd[x].allocated /\ m[x].offset = nd[x].offset
                 /\ m[x].size = nd[x].size /\ m[x].next = nd[x].next
           /\ \A x \in DOMAIN m \ DOMAIN nd :
                 ~m[x].allocated /\ m[x].next = nd[a].next
<1> SUFFICES ASSUME NEW k, k = Carve(nd, a, s, al), m = Claim(k, a, pad)
             PROVE  /\ List(m) /\ Offsets(m) /\ Covered(m)
                    /\ DOMAIN nd \subseteq DOMAIN m
                    /\ m[a].allocated /\ m[a].offset = pad
                    /\ \/ m[a].size = s + pad
                       \/ m[a].size = nd[a].size /\ nd[a].size <= s + pad + NodeSize
                    /\ \A x \in DOMAIN nd \ {a} :
                         /\ m[x].allocated = nd[x].allocated
                         /\ m[x].offset = nd[x].offset
                         /\ m[x].size = nd[x].size /\ m[x].next = nd[x].next
                    /\ \A x \in DOMAIN m \ DOMAIN nd :
                         ~m[x].allocated /\ m[x].next = nd[a].next
  OBVIOUS
<1>1. a \in Nat /\ pad \in 0 .. 15 /\ (al = 1 => pad = 0) /\ pad \in 0 .. 255
  BY ListFacts, PaddingExact
<1>2. /\ List(k) /\ Offsets(k) /\ Covered(k)
      /\ DOMAIN nd \subseteq DOMAIN k
      /\ \/ k[a].size = s + pad
         \/ k[a].size = nd[a].size /\ nd[a].size <= s + pad + NodeSize
      /\ \A x \in DOMAIN nd \ {a} :
            /\ k[x].allocated = nd[x].allocated /\ k[x].offset = nd[x].offset
            /\ k[x].size = nd[x].size /\ k[x].next = nd[x].next
      /\ \A x \in DOMAIN k \ DOMAIN nd :
            ~k[x].allocated /\ k[x].next = nd[a].next
  BY CarveFacts
<1>3. a \in DOMAIN k
  BY <1>2
<1>4. /\ List(m) /\ DOMAIN m = DOMAIN k
      /\ \A x \in DOMAIN k \ {a} : m[x] = k[x]
      /\ m[a].allocated /\ m[a].offset = pad
      /\ \A x \in DOMAIN k : m[x].size = k[x].size /\ m[x].next = k[x].next
  BY <1>1, <1>2, <1>3, ClaimFacts
<1>5. Offsets(m)
  <2>1. Alignments \subseteq {1} => pad = 0
    BY <1>1
  <2> QED
    BY <2>1, <1>1, <1>2, <1>4 DEF Offsets
<1>6. Covered(m)
  <2>1. \A x \in DOMAIN k : End(m, x) = End(k, x)
    BY <1>4 DEF End
  <2> QED
    BY <2>1, <1>2, <1>4 DEF Covered
<1>7. \A x \in DOMAIN m \ DOMAIN nd : ~m[x].allocated /\ m[x].next = nd[a].next
  BY <1>2, <1>4
<1>8. \A x \in DOMAIN nd \ {a} :
         /\ m[x].allocated = nd[x].allocated /\ m[x].offset = nd[x].offset
         /\ m[x].size = nd[x].size /\ m[x].next = nd[x].next
  BY <1>2, <1>4
<1> QED
  BY <1>2, <1>3, <1>4, <1>5, <1>6, <1>7, <1>8

-----------------------------------------------------------------------------
(* malloc keeps the invariant.                                               *)
LEMMA MallocHeaped ==
    ASSUME NEW nd, NEW lv, Heaped(nd, lv), NEW a \in DOMAIN nd,
           ~nd[a].allocated, NEW s \in Requests, s < nd[a].size,
           NEW al \in Alignments, NEW pad, pad = Padding(a, al),
           NEW m, m = Claim(Carve(nd, a, s, al), a, pad),
           NEW b, b = [ptr |-> a + NodeSize + pad, size |-> s]
    PROVE  Heaped(m, lv \cup {b})
<1>0. s \in Nat /\ List(nd) /\ Offsets(nd) /\ Covered(nd) /\ Owned(nd, lv)
  BY HeapAssumption DEF Heaped
<1>1. /\ List(m) /\ Offsets(m) /\ Covered(m)
      /\ DOMAIN nd \subseteq DOMAIN m
      /\ m[a].allocated /\ m[a].offset = pad
      /\ \/ m[a].size = s + pad
         \/ m[a].size = nd[a].size /\ nd[a].size <= s + pad + NodeSize
      /\ \A x \in DOMAIN nd \ {a} :
            /\ m[x].allocated = nd[x].allocated /\ m[x].offset = nd[x].offset
            /\ m[x].size = nd[x].size /\ m[x].next = nd[x].next
      /\ \A x \in DOMAIN m \ DOMAIN nd :
            ~m[x].allocated /\ m[x].next = nd[a].next
  BY <1>0, MallocFacts
<1>2. a \in Nat /\ nd[a].size \in Nat /\ pad \in 0 .. 15
  BY <1>0, ListFacts, PaddingExact DEF MemoryNode
<1>3. b.ptr = a + NodeSize + pad /\ b.size = s /\ b \in [ptr : Nat, size : Requests]
  BY <1>2, HeapAssumption
<1>4. CoalescedBut(m, {})
  <2> SUFFICES ASSUME NEW x \in DOMAIN m, ~m[x].allocated, m[x].next # NULL
               PROVE  m[m[x].next].allocated
    BY DEF CoalescedBut
  <2>1. \A y \in DOMAIN nd : ~nd[y].allocated /\ nd[y].next # NULL =>
           nd[y].next \in DOMAIN nd /\ nd[nd[y].next].allocated
    BY <1>0, ListFacts DEF Heaped, CoalescedBut
  <2>2. CASE x \in DOMAIN nd
    BY <2>1, <2>2, <1>1
  <2>3. CASE x \notin DOMAIN nd
    BY <2>1, <2>3, <1>1
  <2> QED
    BY <2>2, <2>3
<1>5. \A d \in lv, x \in DOMAIN nd : From(nd, d, x) => x # a /\ From(m, d, x)
  BY <1>1 DEF From
<1>6. \A d \in lv, x \in DOMAIN m : From(m, d, x) => x \in DOMAIN nd
  BY <1>1 DEF From
<1>7. From(m, b, a) /\ \A x \in DOMAIN m : From(m, b, x) => x = a
  <2>1. From(m, b, a)
    BY <1>1, <1>3 DEF From
  <2> SUFFICES ASSUME NEW x \in DOMAIN m, From(m, b, x) PROVE x = a
    BY <2>1
  <2>2. m[x].offset \in 0 .. 15 /\ x \in Nat
    BY <1>1, ListFacts DEF Offsets
  <2>3. b.ptr = x + NodeSize + m[x].offset
    BY DEF From
  <2>4. a + pad = x + m[x].offset
    BY <2>2, <2>3, <1>2, <1>3, HeapAssumption
  <2> QED
    BY <2>2, <2>4, <1>1, <1>2, HeaderUnique
<1>8. \A d \in lv : ~From(m, d, a)
  <2> SUFFICES ASSUME NEW d \in lv, From(m, d, a) PROVE FALSE
    OBVIOUS
  <2>1. PICK x \in DOMAIN nd : From(nd, d, x)
    BY <1>0 DEF Owned
  <2>2. x # a /\ From(m, d, x) /\ x \in DOMAIN m
    BY <2>1, <1>1, <1>5
  <2>3. d.ptr = x + NodeSize + m[x].offset /\ d.ptr = a + NodeSize + pad
    BY <2>2, <1>1 DEF From
  <2>4. m[x].offset \in 0 .. 15 /\ x \in Nat
    BY <2>2, <1>1, ListFacts DEF Offsets
  <2>5. a + pad = x + m[x].offset
    BY <2>3, <2>4, <1>2, HeapAssumption
  <2> QED
    BY <2>2, <2>4, <2>5, <1>1, <1>2, HeaderUnique
<1>9. \A d \in lv, x \in DOMAIN m : From(m, d, x) =>
         x \in DOMAIN nd \ {a} /\ From(nd, d, x) /\ Extent(m, d, x)
  <2> SUFFICES ASSUME NEW d \in lv, NEW x \in DOMAIN m, From(m, d, x)
               PROVE  x \in DOMAIN nd \ {a} /\ From(nd, d, x) /\ Extent(m, d, x)
    OBVIOUS
  <2>1. x \in DOMAIN nd \ {a}
    BY <1>6, <1>8
  <2>2. From(nd, d, x)
    BY <2>1, <1>1 DEF From
  <2>3. Extent(nd, d, x)
    BY <2>1, <2>2, <1>0 DEF Owned
  <2>4. m[x].size = nd[x].size /\ m[x].offset = nd[x].offset
    BY <2>1, <1>1
  <2> QED
    BY <2>1, <2>2, <2>3, <2>4 DEF Extent, End
<1>10. Extent(m, b, a)
  <2>1. End(m, a) = a + NodeSize + m[a].size
    BY DEF End
  <2>2. CASE m[a].size = s + pad
    BY <2>1, <2>2, <1>0, <1>1, <1>2, <1>3, HeapAssumption DEF Extent
  <2>3. CASE m[a].size = nd[a].size /\ nd[a].size <= s + pad + NodeSize
    BY <2>1, <2>3, <1>0, <1>1, <1>2, <1>3, HeapAssumption DEF Extent
  <2> QED
    BY <2>2, <2>3, <1>1
<1>11. Owned(m, lv \cup {b})
  <2>1. lv \cup {b} \subseteq [ptr : Nat, size : Requests]
    BY <1>0, <1>3 DEF Owned
  <2>2. \A d \in lv \cup {b} : \E x \in DOMAIN m : From(m, d, x)
    BY <1>0, <1>1, <1>5, <1>7 DEF Owned
  <2>3. \A x \in DOMAIN m : m[x].allocated => \E d \in lv \cup {b} : From(m, d, x)
    <3> SUFFICES ASSUME NEW x \in DOMAIN m, m[x].allocated
                 PROVE  \E d \in lv \cup {b} : From(m, d, x)
      OBVIOUS
    <3>1. CASE x = a
      BY <3>1, <1>7
    <3>2. CASE x # a
      <4>1. x \in DOMAIN nd /\ nd[x].allocated
        BY <3>2, <1>1
      <4>2. PICK d \in lv : From(nd, d, x)
        BY <4>1, <1>0 DEF Owned
      <4> QED
        BY <4>1, <4>2, <1>5
    <3> QED
      BY <3>1, <3>2
  <2>4. \A d, e \in lv \cup {b} : d.ptr = e.ptr => d = e
    <3>1. \A d \in lv : d.ptr # b.ptr
      <4> SUFFICES ASSUME NEW d \in lv, d.ptr = b.ptr PROVE FALSE
        OBVIOUS
      <4>1. From(m, d, a)
        BY <1>7 DEF From
      <4> QED
        BY <4>1, <1>8
    <3> QED
      BY <3>1, <1>0 DEF Owned
  <2>5. \A d \in lv \cup {b}, x \in DOMAIN m : From(m, d, x) => Extent(m, d, x)
    BY <1>7, <1>9, <1>10
  <2> QED
    BY <2>1, <2>2, <2>3, <2>4, <2>5 DEF Owned
<1> QED
  BY <1>1, <1>4, <1>11 DEF Heaped

-----------------------------------------------------------------------------
(* m is nd after merges of free chunks: the allocated ones are all there.    *)
Keeps(nd, m) ==
    /\ List(m) /\ Covered(m)
    /\ DOMAIN m \subseteq DOMAIN nd
    /\ \A x \in DOMAIN m : m[x].allocated = nd[x].allocated
                           /\ m[x].offset = nd[x].offset
    /\ \A x \in DOMAIN nd : nd[x].allocated =>
                               x \in DOMAIN m /\ m[x].size = nd[x].size

(* Merging a free chunk p with its free neighbour.  If at most p and its     *)
(* neighbours break coalescing before, at most p breaks it after.            *)
LEMMA AbsorbKeeps ==
    ASSUME NEW nd, List(nd), Covered(nd), NEW p \in DOMAIN nd,
           nd[p].next # NULL, NEW c, c = nd[p].next,
           ~nd[p].allocated, ~nd[c].allocated,
           NEW m, m = Absorb(nd, p, c)
    PROVE  /\ Keeps(nd, m) /\ p \in DOMAIN m /\ ~m[p].allocated
           /\ CoalescedBut(nd, {p, c}) => CoalescedBut(m, {p})
           /\ CoalescedBut(nd, {p}) => CoalescedBut(m, {})
<1>m. Absorbed(nd, p, c, m)
  BY AbsorbFacts
<1>1. /\ c \in DOMAIN nd /\ p < c
      /\ m \in [DOMAIN nd \ {c} -> MemoryNode]
      /\ DOMAIN m = DOMAIN nd \ {c}
      /\ m[p].next = nd[c].next /\ m[p].size = nd[p].size + nd[c].size + NodeSize
      /\ \A x \in DOMAIN nd \ {c} :
            /\ m[x].allocated = nd[x].allocated /\ m[x].offset = nd[x].offset
            /\ m[x].prev = IF x = nd[c].next THEN p ELSE nd[x].prev
            /\ x # p => m[x].size = nd[x].size /\ m[x].next = nd[x].next
  BY <1>m DEF Absorbed
<1>2. List(m)
  BY AbsorbList
<1>3. /\ p \in Nat /\ c \in Nat /\ p # c /\ c = End(nd, p) /\ nd[c].prev = p
      /\ nd[p].size \in Nat /\ nd[c].size \in Nat
  BY <1>1, ListFacts DEF MemoryNode
<1>4. /\ End(m, p) = End(nd, c) /\ p < End(nd, p)
      /\ End(nd, p) \in Nat /\ End(nd, c) \in Nat /\ End(nd, p) < End(nd, c)
      /\ \A x \in DOMAIN nd \ {c} : x # p => End(m, x) = End(nd, x)
  <2>1. \A x \in DOMAIN nd \ {c} : x # p => End(m, x) = End(nd, x)
    BY <1>1 DEF End
  <2>2. End(m, p) = End(nd, c)
    BY <1>1, <1>3, HeapAssumption DEF End
  <2> QED
    BY <2>1, <2>2, <1>1, <1>3, ListFacts
<1>5. Covered(m)
  <2> SUFFICES ASSUME HeapSize >= NodeSize, NEW y \in HeapStart .. (HeapEnd - 1)
               PROVE  \E x \in DOMAIN m : x <= y /\ y < End(m, x)
    BY DEF Covered
  <2>1. PICK x \in DOMAIN nd : x <= y /\ y < End(nd, x)
    BY DEF Covered
  <2>2. y \in Int
    OBVIOUS
  <2>3. CASE x = c
    <3>1. p <= y
      BY <2>1, <2>2, <2>3, <1>1, <1>3
    <3> QED
      BY <2>1, <2>3, <3>1, <1>1, <1>3, <1>4
  <2>4. CASE x = p
    <3>1. y < End(m, p)
      BY <2>1, <2>2, <2>4, <1>4
    <3> QED
      BY <2>1, <2>4, <3>1, <1>1, <1>3
  <2>5. CASE x # c /\ x # p
    BY <2>1, <2>5, <1>1, <1>4
  <2> QED
    BY <2>3, <2>4, <2>5
<1>6. Keeps(nd, m)
  BY <1>1, <1>2, <1>3, <1>5 DEF Keeps
<1>7. p \in DOMAIN m /\ ~m[p].allocated
  BY <1>1, <1>3
<1>8. \A x \in DOMAIN nd \ {c} : x # p /\ nd[x].next # NULL =>
         nd[x].next \in DOMAIN nd \ {c}
  <2> SUFFICES ASSUME NEW x \in DOMAIN nd \ {c}, x # p, nd[x].next # NULL
               PROVE  nd[x].next \in DOMAIN nd \ {c}
    OBVIOUS
  <2>1. nd[x].next \in DOMAIN nd /\ nd[nd[x].next].prev = x
    BY ListFacts
  <2> QED
    BY <2>1, <1>3
<1>9. CoalescedBut(nd, {p, c}) => CoalescedBut(m, {p})
  BY <1>1, <1>8 DEF CoalescedBut
<1>10. CoalescedBut(nd, {p}) => CoalescedBut(m, {})
  <2> SUFFICES ASSUME CoalescedBut(nd, {p}), NEW x \in DOMAIN m,
                      ~m[x].allocated, m[x].next # NULL
               PROVE  m[m[x].next].allocated
    BY DEF CoalescedBut
  <2>1. CASE x = p
    <3>1. nd[c].next # NULL /\ nd[nd[c].next].allocated
      BY <2>1, <1>1, <1>3 DEF CoalescedBut
    <3>2. nd[c].next \in DOMAIN nd \ {c}
      BY <3>1, <1>1, ListFacts
    <3> QED
      BY <2>1, <3>1, <3>2, <1>1
  <2>2. CASE x # p
    <3>1. x \in DOMAIN nd \ {c} /\ ~nd[x].allocated /\ nd[x].next # NULL
          /\ m[x].next = nd[x].next
      BY <2>2, <1>1
    <3>2. nd[nd[x].next].allocated /\ nd[x].next \in DOMAIN nd \ {c}
      BY <2>2, <3>1, <1>8 DEF CoalescedBut
    <3> QED
      BY <3>1, <3>2, <1>1
  <2> QED
    BY <2>1, <2>2
<1> QED
  BY <1>6, <1>7, <1>9, <1>10

(* What free does to the list when it frees chunk h.                         *)
LEMMA FreeFacts ==
    ASSUME NEW nd, List(nd), Covered(nd), CoalescedBut(nd, {}),
           NEW h \in DOMAIN nd, nd[h].allocated,
           NEW r, r = Release(nd, h),
           NEW m, m = MergeNext(MergePrev(r, h), Survivor(r, h))
    PROVE  Keeps(r, m) /\ CoalescedBut(m, {})
<1>1. /\ List(r) /\ DOMAIN r = DOMAIN nd
      /\ ~r[h].allocated /\ r[h].offset = nd[h].offset
      /\ \A x \in DOMAIN nd \ {h} : r[x] = nd[x]
      /\ \A x \in DOMAIN nd : /\ r[x].size = nd[x].size /\ r[x].next = nd[x].next
                              /\ r[x].prev = nd[x].prev
  BY ReleaseFacts
<1>2. Covered(r)
  <2>1. \A x \in DOMAIN nd : End(r, x) = End(nd, x)
    BY <1>1 DEF End
  <2> QED
    BY <2>1, <1>1 DEF Covered
<1>3. Keeps(r, r)
  BY <1>1, <1>2 DEF Keeps
<1>4. \A x \in DOMAIN r : ~r[x].allocated /\ r[x].next # NULL /\ x # h /\ r[x].next # h
         => r[r[x].next].allocated
  <2> SUFFICES ASSUME NEW x \in DOMAIN r, ~r[x].allocated, r[x].next # NULL,
                      x # h, r[x].next # h
               PROVE  r[r[x].next].allocated
    OBVIOUS
  <2>1. r[x].next \in DOMAIN r
    BY <1>1, ListFacts
  <2>2. ~nd[x].allocated /\ nd[x].next = r[x].next /\ nd[nd[x].next].allocated
    BY <1>1 DEF CoalescedBut
  <2> QED
    BY <2>1, <2>2, <1>1
<1>5. \A x \in DOMAIN r : r[x].next = h => r[h].prev = x
  <2>1. h # NULL
    BY ListFacts
  <2> QED
    BY <2>1, <1>1, ListFacts
<1> DEFINE v == Survivor(r, h)
           k == MergePrev(r, h)
<1>6. v \in DOMAIN k /\ ~k[v].allocated /\ Keeps(r, k) /\ CoalescedBut(k, {v})
  <2>1. CASE IsFree(r, r[h].prev)
    <3>1. v = r[h].prev /\ k = Absorb(r, v, h) /\ v # NULL /\ ~r[v].allocated
      BY <2>1 DEF Survivor, MergePrev, IsFree
    <3> HIDE DEF v, k
    <3>2. v \in DOMAIN r /\ r[v].next = h /\ h # NULL
      BY <3>1, <1>1, ListFacts
    <3>3. CoalescedBut(r, {v, h})
      BY <3>1, <3>2, <1>4, <1>5 DEF CoalescedBut
    <3> QED
      BY <3>1, <3>2, <3>3, <1>1, <1>2, AbsorbKeeps
  <2>2. CASE ~IsFree(r, r[h].prev)
    <3>1. v = h /\ k = r
      BY <2>2 DEF Survivor, MergePrev
    <3>2. \A x \in DOMAIN r : ~r[x].allocated => r[x].next # h
      <4> SUFFICES ASSUME NEW x \in DOMAIN r, ~r[x].allocated, r[x].next = h
                   PROVE  FALSE
        OBVIOUS
      <4>1. r[h].prev = x /\ x # NULL
        BY <1>1, <1>5, ListFacts
      <4> QED
        BY <2>2, <4>1 DEF IsFree
    <3>3. CoalescedBut(r, {h})
      BY <3>2, <1>4 DEF CoalescedBut
    <3> QED
      BY <3>1, <3>3, <1>1, <1>3
  <2> QED
    BY <2>1, <2>2
<1> HIDE DEF v, k
<1>7. m = MergeNext(k, v)
  BY DEF k, v
<1>8. CASE IsFree(k, k[v].next)
  <2>1. k[v].next # NULL /\ ~k[k[v].next].allocated /\ m = Absorb(k, v, k[v].next)
    BY <1>7, <1>8 DEF MergeNext, IsFree
  <2>2. List(k) /\ Covered(k)
    BY <1>6 DEF Keeps
  <2>3. Keeps(k, m) /\ CoalescedBut(m, {})
    BY <2>1, <2>2, <1>6, AbsorbKeeps
  <2>4. Keeps(r, m)
    BY <2>3, <1>6 DEF Keeps
  <2> QED
    BY <2>3, <2>4
<1>9. CASE ~IsFree(k, k[v].next)
  <2>1. m = k
    BY <1>7, <1>9 DEF MergeNext
  <2>2. CoalescedBut(k, {})
    BY <1>6, <1>9 DEF CoalescedBut, IsFree
  <2> QED
    BY <2>1, <2>2, <1>6
<1> QED
  BY <1>8, <1>9

(* The chunk that free finds below a pointer is the one malloc carved it     *)
(* from, whenever it finds a header there at all.                            *)
LEMMA HeaderFound ==
    ASSUME NEW nd, NEW lv, Heaped(nd, lv), NEW b \in lv,
           b.ptr - NodeSize \in DOMAIN nd,
           NEW h, h = b.ptr - NodeSize - nd[b.ptr - NodeSize].offset
    PROVE  h \in DOMAIN nd /\ From(nd, b, h)
<1>1. List(nd) /\ Offsets(nd) /\ b.ptr \in Nat
  BY DEF Heaped, Owned
<1>2. PICK a \in DOMAIN nd : From(nd, b, a)
  BY DEF Heaped, Owned
<1>3. a \in Nat /\ nd[a].offset \in 0 .. 15 /\ b.ptr = a + NodeSize + nd[a].offset
  BY <1>1, <1>2, ListFacts DEF Offsets, From
<1>0. PICK c : c = b.ptr - NodeSize
  OBVIOUS
<1>4. c \in DOMAIN nd /\ c \in Nat /\ c = a + nd[a].offset
  BY <1>0, <1>1, <1>3, HeapAssumption
<1>5. h = c - nd[c].offset
  BY <1>0
<1>6. c = a
  <2>1. PICK i, j : i = 0 /\ j = nd[a].offset
    OBVIOUS
  <2>2. i \in 0 .. 15 /\ j \in 0 .. 15 /\ c + i = a + j
    BY <2>1, <1>3, <1>4
  <2> QED
    BY <2>2, <1>1, <1>4, HeaderUnique
<1> QED
  BY <1>2, <1>3, <1>4, <1>5, <1>6

(* free keeps the invariant.                                                 *)
LEMMA FreeHeaped ==
    ASSUME NEW nd, NEW lv, Heaped(nd, lv), NEW b \in lv,
           NEW h \in DOMAIN nd, From(nd, b, h), NEW r, r = Release(nd, h),
           NEW m, m = MergeNext(MergePrev(r, h), Survivor(r, h))
    PROVE  Heaped(m, lv \ {b})
<1>1. List(nd) /\ Offsets(nd) /\ Covered(nd) /\ CoalescedBut(nd, {}) /\ Owned(nd, lv)
      /\ nd[h].allocated
  BY DEF Heaped, From
<1>2. /\ List(r) /\ DOMAIN r = DOMAIN nd
      /\ ~r[h].allocated /\ r[h].offset = nd[h].offset
      /\ \A x \in DOMAIN nd \ {h} : r[x] = nd[x]
      /\ \A x \in DOMAIN nd : /\ r[x].size = nd[x].size /\ r[x].next = nd[x].next
                              /\ r[x].prev = nd[x].prev
  BY <1>1, ReleaseFacts
<1>3. Keeps(r, m) /\ CoalescedBut(m, {})
  BY <1>1, FreeFacts
<1>4. /\ List(m) /\ Covered(m) /\ DOMAIN m \subseteq DOMAIN nd
      /\ \A x \in DOMAIN m : /\ m[x].offset = nd[x].offset
                             /\ m[x].allocated => nd[x].allocated /\ x # h
      /\ \A x \in DOMAIN nd : nd[x].allocated /\ x # h =>
            x \in DOMAIN m /\ m[x].allocated /\ m[x].size = nd[x].size
  BY <1>2, <1>3 DEF Keeps
<1>5. Offsets(m)
  BY <1>1, <1>4 DEF Offsets
<1>6. \A d \in lv, x \in DOMAIN m : From(m, d, x) => From(nd, d, x) /\ x # h
  BY <1>4 DEF From
<1>7. \A d \in lv, x \in DOMAIN nd : From(nd, d, x) /\ x # h => x \in DOMAIN m /\ From(m, d, x)
  BY <1>4 DEF From
<1>8. \A d \in lv : From(nd, d, h) => d = b
  BY <1>1 DEF From, Owned
<1>9. ASSUME NEW x \in DOMAIN nd, From(nd, b, x) PROVE x = h
  <2>1. /\ x \in Nat /\ h \in Nat
        /\ nd[x].offset \in 0 .. 15 /\ nd[h].offset \in 0 .. 15
    BY <1>1, ListFacts DEF Offsets
  <2> DEFINE i == nd[x].offset
             j == nd[h].offset
  <2>2. x + NodeSize + i = h + NodeSize + j
    BY <1>9 DEF From
  <2> HIDE DEF i, j
  <2>3. i \in 0 .. 15 /\ j \in 0 .. 15
    BY <2>1 DEF i, j
  <2>4. x + i = h + j
    BY <2>1, <2>2, <2>3, HeapAssumption
  <2> QED
    BY <2>3, <2>4, <1>1, HeaderUnique
<1>10. Owned(m, lv \ {b})
  <2>1. lv \ {b} \subseteq [ptr : Nat, size : Requests]
    BY <1>1 DEF Owned
  <2>2. \A d \in lv \ {b} : \E x \in DOMAIN m : From(m, d, x)
    BY <1>1, <1>7, <1>8 DEF Owned
  <2>3. \A x \in DOMAIN m : m[x].allocated => \E d \in lv \ {b} : From(m, d, x)
    <3> SUFFICES ASSUME NEW x \in DOMAIN m, m[x].allocated
                 PROVE  \E d \in lv \ {b} : From(m, d, x)
      OBVIOUS
    <3>1. x \in DOMAIN nd /\ nd[x].allocated /\ x # h
      BY <1>4
    <3>2. PICK d \in lv : From(nd, d, x)
      BY <3>1, <1>1 DEF Owned
    <3>3. d # b
      BY <3>1, <3>2, <1>9
    <3> QED
      BY <3>1, <3>2, <3>3, <1>7
  <2>4. \A d, e \in lv \ {b} : d.ptr = e.ptr => d = e
    BY <1>1 DEF Owned
  <2>5. \A d \in lv \ {b}, x \in DOMAIN m : From(m, d, x) => Extent(m, d, x)
    <3> SUFFICES ASSUME NEW d \in lv, NEW x \in DOMAIN m, From(m, d, x)
                 PROVE  Extent(m, d, x)
      OBVIOUS
    <3>1. x \in DOMAIN nd /\ From(nd, d, x) /\ x # h
      BY <1>4, <1>6
    <3>2. Extent(nd, d, x) /\ nd[x].allocated
      BY <3>1, <1>1 DEF Owned, From
    <3>3. m[x].size = nd[x].size /\ m[x].offset = nd[x].offset
      BY <3>1, <3>2, <1>4
    <3> QED
      BY <3>2, <3>3 DEF Extent, End
  <2> QED
    BY <2>1, <2>2, <2>3, <2>4, <2>5 DEF Owned
<1> QED
  BY <1>3, <1>4, <1>5, <1>10 DEF Heaped

-----------------------------------------------------------------------------
(* The constructor establishes the invariant.                                *)
LEMMA InitHeaped == Init => HeapInv
<1> SUFFICES ASSUME Init PROVE HeapInv
  OBVIOUS
<1>1. CASE HeapSize < NodeSize
  <2>1. DOMAIN node = {} /\ node = [x \in {} |-> node[x]] /\ live = {}
    BY <1>1 DEF Init, InitialNodes
  <2>2. List(node)
    BY <2>1 DEF List, WellFormed, Separate
  <2>3. Covered(node)
    BY <1>1, HeapAssumption DEF Covered
  <2>4. Offsets(node) /\ CoalescedBut(node, {}) /\ Owned(node, live)
    BY <2>1 DEF Offsets, CoalescedBut, Owned
  <2> QED
    BY <2>2, <2>3, <2>4 DEF Init, HeapInv, Heaped, LastOK, NULL
<1>2. CASE ~(HeapSize < NodeSize)
  <2>1. HeapSize - NodeSize \in Nat /\ HeapStart \in Nat /\ HeapStart # NULL
    BY <1>2, HeapAssumption DEF NULL
  <2>2. /\ DOMAIN node = {HeapStart} /\ live = {}
        /\ node = [x \in {HeapStart} |-> node[x]]
        /\ node[HeapStart] = [next |-> NULL, prev |-> NULL, allocated |-> FALSE,
                              size |-> HeapSize - NodeSize, offset |-> 0]
    BY <1>2 DEF Init, InitialNodes
  <2>3. node[HeapStart] \in MemoryNode
    <3>1. ASSUME NEW z \in Nat
          PROVE  [next |-> NULL, prev |-> NULL, allocated |-> FALSE, size |-> z,
                  offset |-> 0] \in MemoryNode
      BY DEF MemoryNode, NULL
    <3> QED
      BY <2>1, <2>2, <3>1
  <2>4. End(node, HeapStart) = HeapEnd
    BY <2>1, <2>2, HeapAssumption DEF End, HeapEnd
  <2>5. HeapStart \in HeapStart .. (HeapEnd - NodeSize)
    BY <2>1, HeapAssumption DEF HeapEnd
  <2>6. List(node)
    <3>1. LinksOK(node, HeapStart)
      BY <2>2, <2>4 DEF LinksOK
    <3>2. Separate(node)
      BY <2>1, <2>2 DEF Separate
    <3> QED
      BY <2>2, <2>3, <2>5, <3>1, <3>2 DEF List, WellFormed
  <2>7. Covered(node)
    BY <2>1, <2>2, <2>4, HeapAssumption DEF Covered, HeapEnd
  <2>8. Offsets(node) /\ CoalescedBut(node, {}) /\ Owned(node, live)
    BY <2>2 DEF Offsets, CoalescedBut, Owned
  <2> QED
    BY <2>6, <2>7, <2>8 DEF Init, HeapInv, Heaped, LastOK, NULL
<1> QED
  BY <1>1, <1>2

(* Every call keeps it.                                                      *)
LEMMA StepHeaped == HeapInv /\ [Next]_vars => HeapInv'
<1> SUFFICES ASSUME HeapInv, [Next]_vars PROVE HeapInv'
  OBVIOUS
<1>0. Heaped(node, live) /\ LastOK
  BY DEF HeapInv
<1>1. ASSUME NEW s \in Requests, NEW al \in Alignments, Malloc(s, al)
      PROVE  HeapInv'
  <2>1. PICK a \in DOMAIN node :
           /\ FirstFit(a, s)
           /\ node' = Claim(Carve(node, a, s, al), a, Padding(a, al))
           /\ live' = live \cup {[ptr |-> AlignedAddr(a, al), size |-> s]}
           /\ last' = [call |-> "malloc", size |-> s, ptr |-> AlignedAddr(a, al)]
    BY <1>1 DEF Malloc
  <2>2. PICK pad, b : /\ pad = Padding(a, al)
                      /\ b = [ptr |-> a + NodeSize + pad, size |-> s]
    OBVIOUS
  <2>3. a \in Nat /\ pad \in 0 .. 15 /\ AlignedAddr(a, al) = a + NodeSize + pad
    BY <1>0, <2>2, ListFacts, PaddingExact DEF Heaped
  <2>4. ~node[a].allocated /\ s < node[a].size
    BY <2>1 DEF FirstFit, Fits
  <2>5. node' = Claim(Carve(node, a, s, al), a, pad) /\ live' = live \cup {b}
    BY <2>1, <2>2, <2>3
  <2>6. Heaped(node', live')
    BY <1>0, <2>2, <2>4, <2>5, MallocHeaped
  <2>7. LastOK'
    BY <2>1, <2>3, HeapAssumption DEF LastOK
  <2> QED
    BY <2>6, <2>7 DEF HeapInv
<1>2. ASSUME NEW s \in Requests, MallocFails(s) PROVE HeapInv'
  <2>1. LastOK'
    BY <1>2 DEF MallocFails, LastOK, NULL
  <2> QED
    BY <1>0, <1>2, <2>1 DEF MallocFails, HeapInv
<1>3. ASSUME NEW b \in live, Free(b) PROVE HeapInv'
  <2>1. PICK h, r : h = Header(b) /\ r = Release(node, h)
    OBVIOUS
  <2>2. /\ b.ptr - NodeSize \in DOMAIN node
        /\ node' = MergeNext(MergePrev(r, h), Survivor(r, h))
        /\ live' = live \ {b}
        /\ last' = [call |-> "free", size |-> 0, ptr |-> b.ptr]
    BY <1>3, <2>1 DEF Free
  <2>3. h \in DOMAIN node /\ From(node, b, h)
    BY <1>0, <2>1, <2>2, HeaderFound DEF Header
  <2>4. Heaped(node', live')
    BY <1>0, <2>1, <2>2, <2>3, FreeHeaped
  <2>5. LastOK'
    BY <1>0, <2>2 DEF LastOK, Heaped, Owned
  <2> QED
    BY <2>4, <2>5 DEF HeapInv
<1>4. CASE UNCHANGED vars
  BY <1>0, <1>4 DEF vars, HeapInv, LastOK
<1> QED
  BY <1>1, <1>2, <1>3, <1>4 DEF Next

(* In every state the kernel can reach, the list is well formed and the      *)
(* blocks callers hold are the allocated chunks.                             *)
THEOREM Invariance == Spec => []HeapInv
<1> QED
  BY InitHeaped, StepHeaped, PTL DEF Spec

-----------------------------------------------------------------------------
(* What the invariant gives a reader of the heap.                            *)

(* Every block lies where its chunk's header says, and a pointer and a chunk *)
(* determine each other.                                                     *)
LEMMA BlockFacts ==
    ASSUME HeapInv, NEW b \in live
    PROVE  /\ b.ptr \in Nat /\ b.size \in Nat /\ b.size \in Requests
           /\ \E a \in DOMAIN node :
                /\ From(node, b, a) /\ Extent(node, b, a)
                /\ node[a].offset \in 0 .. 15 /\ node[a].size \in Nat /\ a \in Nat
                /\ node[a].offset <= MaxPadding /\ MaxPadding \in 0 .. 15
                /\ HeapStart <= a /\ End(node, a) <= HeapEnd
                /\ End(node, a) = a + NodeSize + node[a].size
<1>1. List(node) /\ Offsets(node) /\ Owned(node, live)
  BY DEF HeapInv, Heaped
<1>2. b.ptr \in Nat /\ b.size \in Nat /\ b.size \in Requests
  BY <1>1, HeapAssumption DEF Owned
<1>3. PICK a \in DOMAIN node : From(node, b, a)
  BY <1>1 DEF Owned
<1>4. Extent(node, b, a)
  BY <1>1, <1>3 DEF Owned
<1>5. /\ node[a].offset \in 0 .. 15
      /\ node[a].offset <= MaxPadding /\ MaxPadding \in 0 .. 15
  BY <1>1 DEF Offsets, MaxPadding
<1>6. /\ node[a].size \in Nat /\ a \in Nat /\ HeapStart <= a /\ End(node, a) <= HeapEnd
      /\ End(node, a) = a + NodeSize + node[a].size
  BY <1>1, ListFacts DEF MemoryNode, End
<1> QED
  BY <1>2, <1>3, <1>4, <1>5, <1>6

LEMMA TypeFact == HeapInv => TypeOK
<1> SUFFICES ASSUME HeapInv PROVE TypeOK
  OBVIOUS
<1>1. List(node) /\ Owned(node, live) /\ LastOK
  BY DEF HeapInv, Heaped
<1>2. ASSUME NEW b \in live PROVE b.ptr \in HeapStart .. (HeapEnd + 255)
  <2>1. PICK a \in DOMAIN node :
           /\ From(node, b, a) /\ node[a].offset \in 0 .. 15
           /\ node[a].size \in Nat /\ a \in Nat
           /\ HeapStart <= a /\ End(node, a) <= HeapEnd
           /\ End(node, a) = a + NodeSize + node[a].size
    BY BlockFacts
  <2> QED
    BY <2>1, HeapAssumption DEF From, HeapEnd
<1>3. live \subseteq [ptr : HeapStart .. (HeapEnd + 255), size : Requests]
  BY <1>1, <1>2 DEF Owned
<1> QED
  BY <1>1, <1>3 DEF TypeOK, List, LastOK

LEMMA OwnershipFact == HeapInv => NoLeak
<1> SUFFICES ASSUME HeapInv PROVE NoLeak
  OBVIOUS
<1>1. Owned(node, live)
  BY DEF HeapInv, Heaped
<1>2. ASSUME NEW a \in DOMAIN node, node[a].allocated
      PROVE  \E b \in live : {d \in live : CarvedFrom(d, a)} = {b}
  <2>1. PICK b \in live : From(node, b, a)
    BY <1>1, <1>2 DEF Owned
  <2>2. \A d \in live : CarvedFrom(d, a) <=> d = b
    BY <1>1, <2>1 DEF Owned, From, CarvedFrom
  <2> QED
    BY <2>2
<1>3. ASSUME NEW b \in live
      PROVE  \E a \in DOMAIN node : node[a].allocated /\ CarvedFrom(b, a)
  BY <1>1 DEF Owned, From, CarvedFrom
<1> QED
  BY <1>2, <1>3 DEF NoLeak

(* Two blocks share no byte, nor do an unpadded block and a header.          *)
LEMMA DisjointFact == HeapInv => BlocksDisjoint
<1> SUFFICES ASSUME HeapInv PROVE BlocksDisjoint
  OBVIOUS
<1>1. List(node) /\ Owned(node, live)
  BY DEF HeapInv, Heaped
<1>0. MaxPadding \in 0 .. 15
  BY DEF MaxPadding
<1>2. ASSUME NEW b \in live
      PROVE  \E a \in DOMAIN node :
                /\ a \in Nat /\ a + NodeSize <= b.ptr
                /\ b.ptr <= a + NodeSize + MaxPadding
                /\ b.ptr + b.size <= End(node, a) + MaxPadding
                /\ End(node, a) <= HeapEnd /\ From(node, b, a)
  <2>1. PICK a \in DOMAIN node :
           /\ From(node, b, a) /\ Extent(node, b, a)
           /\ node[a].size \in Nat /\ a \in Nat /\ node[a].offset \in 0 .. 15
           /\ node[a].offset <= MaxPadding
           /\ End(node, a) <= HeapEnd
           /\ End(node, a) = a + NodeSize + node[a].size
    BY BlockFacts
  <2>2. b.ptr \in Nat /\ b.size \in Nat
    BY BlockFacts
  <2>3. b.ptr = a + NodeSize + node[a].offset
    BY <2>1 DEF From
  <2>4. b.ptr + b.size <= End(node, a) + MaxPadding
    BY <2>1, <2>2, <1>0, HeapAssumption DEF Extent
  <2>5. a + NodeSize <= b.ptr /\ b.ptr <= a + NodeSize + MaxPadding
    BY <2>1, <2>3, <1>0, HeapAssumption
  <2> QED
    BY <2>1, <2>4, <2>5
<1>3. ASSUME NEW a \in DOMAIN node, NEW c \in DOMAIN node, a < c
      PROVE  a \in Nat /\ c \in Nat /\ End(node, a) \in Nat /\ End(node, a) <= c
  BY <1>1, <1>3, ListFacts
<1>4. ASSUME NEW b \in live PROVE b.ptr + b.size <= HeapEnd + MaxPadding
  <2>1. b.ptr \in Nat /\ b.size \in Nat
    BY BlockFacts
  <2>2. PICK a \in DOMAIN node :
           b.ptr + b.size <= End(node, a) + MaxPadding /\ End(node, a) <= HeapEnd
    BY <1>2
  <2>3. End(node, a) \in Nat /\ HeapEnd \in Nat
    BY <1>1, ListFacts, HeapAssumption DEF HeapEnd
  <2> QED
    BY <2>1, <2>2, <2>3, <1>0
<1>5. ASSUME NEW b \in live, NEW d \in live, b # d
      PROVE  b.ptr # d.ptr /\ (b.ptr + b.size <= d.ptr \/ d.ptr + d.size <= b.ptr)
  <2>1. b.ptr # d.ptr /\ b.ptr \in Nat /\ b.size \in Nat /\ d.ptr \in Nat /\ d.size \in Nat
    BY <1>1, <1>5, BlockFacts DEF Owned
  <2>2. PICK a \in DOMAIN node :
           /\ a \in Nat /\ a + NodeSize <= b.ptr /\ From(node, b, a)
           /\ b.ptr + b.size <= End(node, a) + MaxPadding
    BY <1>2
  <2>3. PICK c \in DOMAIN node :
           /\ c \in Nat /\ c + NodeSize <= d.ptr /\ From(node, d, c)
           /\ d.ptr + d.size <= End(node, c) + MaxPadding
    BY <1>2
  <2>4. a # c
    BY <2>1, <2>2, <2>3 DEF From
  <2>5. CASE a < c
    <3>1. End(node, a) \in Nat /\ End(node, a) <= c
      BY <1>3, <2>5
    <3> QED
      BY <3>1, <2>1, <2>2, <2>3, <1>0, HeapAssumption
  <2>6. CASE c < a
    <3>1. End(node, c) \in Nat /\ End(node, c) <= a
      BY <1>3, <2>6
    <3> QED
      BY <3>1, <2>1, <2>2, <2>3, <1>0, HeapAssumption
  <2> QED
    BY <2>1, <2>2, <2>3, <2>4, <2>5, <2>6
<1>6. ASSUME NEW b \in live, NEW c \in DOMAIN node
      PROVE  b.ptr + b.size <= c + MaxPadding \/ c + NodeSize <= b.ptr
  <2>1. b.ptr \in Nat /\ b.size \in Nat /\ c \in Nat
    BY <1>1, BlockFacts, ListFacts
  <2>2. PICK a \in DOMAIN node :
           /\ a \in Nat /\ a + NodeSize <= b.ptr
           /\ b.ptr + b.size <= End(node, a) + MaxPadding
    BY <1>2
  <2>3. CASE a < c
    <3>1. End(node, a) \in Nat /\ End(node, a) <= c
      BY <1>3, <2>3
    <3> QED
      BY <3>1, <2>1, <2>2, <1>0
  <2>4. CASE c <= a
    BY <2>1, <2>2, <2>4, HeapAssumption
  <2> QED
    BY <2>1, <2>2, <2>3, <2>4
<1> QED
  BY <1>4, <1>5, <1>6 DEF BlocksDisjoint

(* The variables keep their types. *)
THEOREM TypeCorrect == Spec => []TypeOK
<1> QED
  BY Invariance, TypeFact, PTL

(* No sequence of calls breaks the links of the list or loses a byte of the  *)
(* heap.                                                                     *)
THEOREM ListCorrect == Spec => []ListWellFormed
<1>1. HeapInv => ListWellFormed
  BY DEF HeapInv, Heaped, List, ListWellFormed
<1> QED
  BY <1>1, Invariance, PTL

(* No two free chunks are ever side by side. *)
THEOREM CoalescedCorrect == Spec => []Coalesced
<1>1. HeapInv => Coalesced
  BY DEF HeapInv, Heaped, CoalescedBut, Coalesced
<1> QED
  BY <1>1, Invariance, PTL

(* No chunk leaks and none is handed out twice. *)
THEOREM NoLeakCorrect == Spec => []NoLeak
<1> QED
  BY Invariance, OwnershipFact, PTL

(* An aligned block overruns its chunk by less than its padding. *)
THEOREM OverrunCorrect == Spec => []OverrunBelowPadding
<1>1. HeapInv => OverrunBelowPadding
  BY DEF HeapInv, Heaped, Owned, From, CarvedFrom, Extent, OverrunBelowPadding
<1> QED
  BY <1>1, Invariance, PTL

(* Callers hold disjoint blocks, whatever alignments they ask for.           *)
THEOREM DisjointCorrect == Spec => []BlocksDisjoint
<1> QED
  BY Invariance, DisjointFact, PTL

-----------------------------------------------------------------------------
(* The refinement.  A block malloc returns was free before.                  *)
LEMMA MallocUnused ==
    ASSUME HeapInv, NEW a \in DOMAIN node, ~node[a].allocated,
           NEW s \in Requests, s < node[a].size, NEW pad \in 0 .. MaxPadding
    PROVE  /\ a + NodeSize + pad \in HeapStart .. (HeapEnd + MaxPadding)
           /\ Heap!Unused(a + NodeSize + pad, s)
<1>0. MaxPadding \in 0 .. 15 /\ pad \in Nat /\ pad <= MaxPadding
  BY DEF MaxPadding
<1>1. List(node) /\ Owned(node, live) /\ s \in Nat
  BY HeapAssumption DEF HeapInv, Heaped
<1>2. /\ a \in Nat /\ HeapStart <= a /\ node[a].size \in Nat
      /\ End(node, a) = a + NodeSize + node[a].size /\ End(node, a) <= HeapEnd
  BY <1>1, ListFacts DEF MemoryNode, End
<1>3. /\ a + NodeSize + pad \in HeapStart .. (HeapEnd + MaxPadding)
      /\ a + NodeSize + pad + s <= HeapEnd + MaxPadding
      /\ a + NodeSize + pad + s < End(node, a) + pad
  BY <1>0, <1>1, <1>2, HeapAssumption DEF HeapEnd
<1>4. ASSUME NEW b \in live
      PROVE  /\ a + NodeSize + pad # b.ptr
             /\ \/ a + NodeSize + pad + s <= b.ptr
                \/ b.ptr + b.size <= a + NodeSize + pad
  <2>1. b.ptr \in Nat /\ b.size \in Nat
    BY BlockFacts
  <2>2. PICK c \in DOMAIN node :
           /\ From(node, b, c) /\ Extent(node, b, c)
           /\ node[c].size \in Nat /\ c \in Nat
           /\ node[c].offset \in 0 .. 15 /\ node[c].offset <= MaxPadding
           /\ End(node, c) = c + NodeSize + node[c].size
    BY BlockFacts
  <2>3. c # a /\ b.ptr = c + NodeSize + node[c].offset
    BY <2>2 DEF From
  <2>4. b.ptr + b.size <= End(node, c) + MaxPadding
    BY <2>1, <2>2, <1>0, HeapAssumption DEF Extent
  <2>5. CASE c < a
    <3>1. End(node, c) <= a
      BY <2>5, <1>1, ListFacts
    <3> QED
      BY <3>1, <2>1, <2>2, <2>3, <2>4, <1>0, <1>1, <1>2, HeapAssumption
  <2>6. CASE a < c
    <3>1. End(node, a) <= c
      BY <2>6, <1>1, ListFacts
    <3> QED
      BY <3>1, <2>1, <2>2, <2>3, <1>0, <1>1, <1>2, <1>3, HeapAssumption
  <2> QED
    BY <2>2, <2>3, <2>5, <2>6, <1>2
<1> QED
  BY <1>0, <1>1, <1>2, <1>3, <1>4, HeapAssumption
  DEF Heap!Unused, Heap!Apart, Heap!HeapEnd, HeapEnd

(* malloc fails only when no run of free bytes could hold the request.       *)
LEMMA FailsHonestly ==
    ASSUME HeapInv, NEW s \in Requests,
           \A a \in DOMAIN node : ~Fits(a, s), NEW x \in HeapStart .. HeapEnd
    PROVE  ~Heap!FreeRun(x, s + NodeSize + 1)
<1>1. /\ List(node) /\ Covered(node) /\ Owned(node, live) /\ s \in Nat
      /\ CoalescedBut(node, {})
  BY HeapAssumption DEF HeapInv, Heaped
<1> SUFFICES ASSUME x + (s + NodeSize + 1) <= HeapEnd,
                    \A b \in live : \/ x + (s + NodeSize + 1)
                                           <= b.ptr - MaxPadding - NodeSize
                                    \/ b.ptr + b.size + NodeSize <= x
             PROVE  FALSE
  BY DEF Heap!FreeRun, Heap!Apart, Heap!HeapEnd, HeapEnd
<1>2. x \in Nat /\ HeapEnd \in Nat /\ x >= HeapStart /\ x <= HeapEnd - 1
      /\ HeapSize >= NodeSize
  BY <1>1, HeapAssumption DEF HeapEnd
<1>3. PICK a \in DOMAIN node : a <= x /\ x < End(node, a)
  BY <1>1, <1>2 DEF Covered
<1>4. /\ a \in Nat /\ node[a].size \in Nat
      /\ End(node, a) = a + NodeSize + node[a].size
  BY <1>1, ListFacts DEF MemoryNode, End
<1>5. ASSUME NEW c \in DOMAIN node, node[c].allocated
      PROVE  /\ c \in Nat /\ End(node, c) \in Nat
             /\ x + (s + NodeSize + 1) <= c \/ End(node, c) <= x
  <2>1. PICK b \in live : From(node, b, c)
    BY <1>1, <1>5 DEF Owned
  <2>2. /\ Extent(node, b, c) /\ node[c].offset \in 0 .. 15
        /\ node[c].offset <= MaxPadding /\ MaxPadding \in 0 .. 15
    BY <2>1 DEF Owned, Offsets, HeapInv, Heaped, MaxPadding
  <2>3. /\ c \in Nat /\ node[c].size \in Nat /\ b.ptr \in Nat /\ b.size \in Nat
        /\ End(node, c) = c + NodeSize + node[c].size
    BY <1>1, ListFacts, BlockFacts DEF MemoryNode, End
  <2>4. /\ b.ptr = c + NodeSize + node[c].offset
        /\ node[c].size <= b.size + node[c].offset + NodeSize
    BY <2>1, <2>2, <2>3, HeapAssumption DEF From, Extent
  <2>5. \/ x + (s + NodeSize + 1) <= b.ptr - MaxPadding - NodeSize
        \/ b.ptr + b.size + NodeSize <= x
    OBVIOUS
  <2> QED
    BY <2>2, <2>3, <2>4, <2>5, <1>1, <1>2, HeapAssumption
<1>6. ~node[a].allocated
  BY <1>1, <1>2, <1>3, <1>4, <1>5, HeapAssumption
<1>7. node[a].size <= s
  BY <1>1, <1>4, <1>6 DEF Fits
<1>8. x + (s + NodeSize + 1) > End(node, a)
  BY <1>1, <1>2, <1>3, <1>4, <1>7, HeapAssumption
<1>9. node[a].next # NULL
  <2> SUFFICES ASSUME node[a].next = NULL PROVE FALSE
    OBVIOUS
  <2>1. End(node, a) = HeapEnd
    BY <1>1, ListFacts
  <2> QED
    BY <2>1, <1>1, <1>2, <1>8, HeapAssumption
<1>10. PICK c \in DOMAIN node : c = End(node, a) /\ node[c].allocated
  BY <1>1, <1>6, <1>9, ListFacts DEF CoalescedBut
<1>11. c < End(node, c)
  BY <1>1, ListFacts
<1> QED
  BY <1>1, <1>2, <1>3, <1>5, <1>8, <1>10, <1>11, HeapAssumption

(* The list of chunks implements the heap callers rely on: for every size of *)
(* heap and of header, and every sequence of calls.                          *)
THEOREM Refinement == Spec => HeapRefined
<1>1. Init => Heap!Init
  BY DEF Init, Heap!Init, NULL, Heap!NULL
<1>2. HeapInv /\ [Next]_vars => [Heap!Next]_(Heap!vars)
  <2> SUFFICES ASSUME HeapInv, [Next]_vars PROVE [Heap!Next]_(Heap!vars)
    OBVIOUS
  <2>1. ASSUME NEW s \in Requests, NEW al \in Alignments, Malloc(s, al)
        PROVE  Heap!Malloc(s)
    <3>1. PICK a \in DOMAIN node :
             /\ FirstFit(a, s)
             /\ live' = live \cup {[ptr |-> AlignedAddr(a, al), size |-> s]}
             /\ last' = [call |-> "malloc", size |-> s, ptr |-> AlignedAddr(a, al)]
      BY <2>1 DEF Malloc
    <3>2. PICK pad : pad = Padding(a, al)
      OBVIOUS
    <3>3. /\ AlignedAddr(a, al) = a + NodeSize + pad
          /\ pad \in 0 .. MaxPadding
      <4>1. a \in Nat
        BY ListFacts DEF HeapInv, Heaped
      <4>2. /\ pad \in 0 .. 15 /\ AlignedAddr(a, al) = a + NodeSize + pad
            /\ (al = 1 => pad = 0)
        BY <3>2, <4>1, PaddingExact
      <4>3. Alignments \subseteq {1} => pad = 0
        BY <4>2
      <4> QED
        BY <4>2, <4>3 DEF MaxPadding
    <3>4. ~node[a].allocated /\ s < node[a].size
      BY <3>1 DEF FirstFit, Fits
    <3>5. /\ a + NodeSize + pad \in HeapStart .. (HeapEnd + MaxPadding)
          /\ Heap!Unused(a + NodeSize + pad, s)
      BY <3>3, <3>4, MallocUnused
    <3> QED
      BY <3>1, <3>3, <3>5 DEF Heap!Malloc, Heap!HeapEnd, HeapEnd
  <2>2. ASSUME NEW s \in Requests, MallocFails(s) PROVE Heap!MallocFails(s)
    <3>1. \A x \in HeapStart .. HeapEnd : ~Heap!FreeRun(x, s + NodeSize + 1)
      BY <2>2, FailsHonestly DEF MallocFails
    <3> QED
      BY <2>2, <3>1
      DEF MallocFails, Heap!MallocFails, Heap!HeapEnd, HeapEnd, NULL, Heap!NULL
  <2>3. ASSUME NEW b \in live, Free(b) PROVE Heap!Free(b)
    BY <2>3 DEF Free, Heap!Free
  <2>4. CASE UNCHANGED vars
    BY <2>4 DEF vars, Heap!vars
  <2> QED
    BY <2>1, <2>2, <2>3, <2>4 DEF Next, Heap!Next
<1> QED
  BY <1>1, <1>2, Invariance, PTL DEF Spec, HeapRefined, Heap!Spec
=============================================================================
