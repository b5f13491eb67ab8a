--------------------------- MODULE LinearAllocator ---------------------------
(***************************************************************************)
(* The kernel heap (src/memory_management.cpp, include/memory_management.h):*)
(* a doubly linked list of chunks, each a MemoryNode header followed by its *)
(* bytes, which tile the heap.  malloc takes the first chunk that fits and  *)
(* splits it; free merges the chunk with the free chunks beside it.         *)
(*                                                                         *)
(* A chunk is named by the address of its header.  The list keeps its       *)
(* chunks in address order (ListWellFormed), so the walk that finds "the    *)
(* first chunk that fits" finds the one at the least address.  Calls are    *)
(* atomic: only the boot context allocates, no interrupt handler and no     *)
(* task does.                                                               *)
(***************************************************************************)
EXTENDS Integers

CONSTANTS
    HeapStart,    \* kernel.cpp passes 10 MiB
    HeapSize,     \* bytes given to the constructor
    NodeSize,     \* sizeof(MemoryNode), 20 bytes on this 32-bit target
    Requests,     \* the sizes callers ask for
    Alignments    \* the alignments they ask for: 0, which malloc turns into
                  \* 1, and 16 for the rings of the network card

ASSUME HeapAssumption ==
    /\ HeapStart \in Nat \ {0} /\ HeapSize \in Nat
    /\ NodeSize \in Nat /\ NodeSize >= 16
    /\ Requests \subseteq Nat
    /\ Alignments \subseteq {1, 2, 4, 8, 16}

VARIABLES
    node,    \* the chunk headers in memory: header address -> MemoryNode
    live,    \* the blocks callers hold, [ptr, size]
    last     \* the last call and its result, [call, size, ptr]

vars == <<node, live, last>>

NULL == 0
HeapEnd == HeapStart + HeapSize

MemoryNode ==
    [next : Nat, prev : Nat, allocated : BOOLEAN, size : Nat, offset : 0 .. 255]

(* First byte after chunk a of the list nd. *)
End(nd, a) == a + NodeSize + nd[a].size

-----------------------------------------------------------------------------
(* The constructor: one free chunk, or none in a heap too small for one.    *)
(* It leaves offset unset; malloc sets it before free reads it.             *)
InitialNodes ==
    [a \in IF HeapSize < NodeSize THEN {} ELSE {HeapStart} |->
        [next |-> NULL, prev |-> NULL, allocated |-> FALSE,
         size |-> HeapSize - NodeSize, offset |-> 0]]

Init ==
    /\ node = InitialNodes
    /\ live = {}
    /\ last = [call |-> "none", size |-> 0, ptr |-> NULL]

-----------------------------------------------------------------------------
(* Mutants: the slips this test invites.                                    *)
FitsExactly(a, s) == ~node[a].allocated /\ s <= node[a].size
FitsHeaderToo(a, s) == ~node[a].allocated /\ s < node[a].size + NodeSize

Fits(a, s) == ~node[a].allocated /\ s < node[a].size

FirstFit(a, s) ==
    Fits(a, s) /\ \A c \in DOMAIN node : Fits(c, s) => a <= c

(* (x + (al - 1)) & ~(al - 1), for al a power of two. *)
RoundUp(x, al) == (x + al - 1) - ((x + al - 1) % al)

AlignedAddr(a, al) == RoundUp(a + NodeSize, al)

(* padding is a uint8_t. *)
Padding(a, al) == (AlignedAddr(a, al) - (a + NodeSize)) % 256

(* The tail of chunk a past its first n bytes becomes a free chunk at t. *)
Split(nd, a, n, t) ==
    [c \in DOMAIN nd \cup {t} |->
        IF c = t THEN [next |-> nd[a].next, prev |-> a, allocated |-> FALSE,
                       size |-> nd[a].size - n - NodeSize, offset |-> 0]
        ELSE IF c = a THEN [nd[a] EXCEPT !.size = n, !.next = t]
        ELSE IF c = nd[a].next THEN [nd[c] EXCEPT !.prev = t]
        ELSE nd[c]]

(* Mutant: no room for the new header. *)
CarveNoRoom(nd, a, s, al) ==
    IF nd[a].size >= s + Padding(a, al) + 1
    THEN Split(nd, a, s + Padding(a, al), AlignedAddr(a, al) + s)
    ELSE nd

Carve(nd, a, s, al) ==
    IF nd[a].size >= s + Padding(a, al) + NodeSize + 1
    THEN Split(nd, a, s + Padding(a, al), AlignedAddr(a, al) + s)
    ELSE nd

(* Mutant: the padding is not recorded. *)
ClaimNoOffset(nd, a, pad) == [nd EXCEPT ![a] = [@ EXCEPT !.allocated = TRUE]]

Claim(nd, a, pad) ==
    [nd EXCEPT ![a] = [@ EXCEPT !.allocated = TRUE, !.offset = pad]]

(* The fit test does not count the padding: see OverrunBelowPadding. *)
Malloc(s, al) ==
    \E a \in DOMAIN node :
        /\ FirstFit(a, s)
        /\ node' = Claim(Carve(node, a, s, al), a, Padding(a, al))
        /\ live' = live \cup {[ptr |-> AlignedAddr(a, al), size |-> s]}
        /\ last' = [call |-> "malloc", size |-> s, ptr |-> AlignedAddr(a, al)]

MallocFails(s) ==
    /\ \A a \in DOMAIN node : ~Fits(a, s)
    /\ last' = [call |-> "malloc", size |-> s, ptr |-> NULL]
    /\ UNCHANGED <<node, live>>

-----------------------------------------------------------------------------
(* Mutants: the chunk after c keeps its prev; the header of c is lost. *)
AbsorbKeepsPrev(nd, p, c) ==
    [x \in DOMAIN nd \ {c} |->
        IF x = p THEN [nd[p] EXCEPT !.size = @ + nd[c].size + NodeSize,
                                    !.next = nd[c].next]
        ELSE nd[x]]

AbsorbLosesHeader(nd, p, c) ==
    [x \in DOMAIN nd \ {c} |->
        IF x = p THEN [nd[p] EXCEPT !.size = @ + nd[c].size, !.next = nd[c].next]
        ELSE IF x = nd[c].next THEN [nd[x] EXCEPT !.prev = p]
        ELSE nd[x]]

(* Chunk c, which follows chunk p, becomes part of p. *)
Absorb(nd, p, c) ==
    [x \in DOMAIN nd \ {c} |->
        IF x = p THEN [nd[p] EXCEPT !.size = @ + nd[c].size + NodeSize,
                                    !.next = nd[c].next]
        ELSE IF x = nd[c].next THEN [nd[x] EXCEPT !.prev = p]
        ELSE nd[x]]

IsFree(nd, a) == a # NULL /\ ~nd[a].allocated

Release(nd, h) == [nd EXCEPT ![h] = [@ EXCEPT !.allocated = FALSE]]

(* Mutant: no merge. *)
NoMerge(nd, h) == nd

MergePrev(nd, h) ==
    IF IsFree(nd, nd[h].prev) THEN Absorb(nd, nd[h].prev, h) ELSE nd

MergeNext(nd, h) ==
    IF IsFree(nd, nd[h].next) THEN Absorb(nd, h, nd[h].next) ELSE nd

(* The chunk that holds the freed bytes after the merge with prev. *)
Survivor(nd, h) == IF IsFree(nd, nd[h].prev) THEN nd[h].prev ELSE h

(* free looks for the header NodeSize bytes below the pointer and reads     *)
(* `offset` there, which finds it only for a block without padding.  The    *)
(* only callers that ask for an alignment, the network card's rings, never  *)
(* free, so a padded block is never freed here.  free(0) does nothing.      *)
Header(b) == b.ptr - NodeSize - node[b.ptr - NodeSize].offset

Free(b) ==
    /\ b.ptr - NodeSize \in DOMAIN node
    /\ LET h == Header(b)
           released == Release(node, h)
       IN node' = MergeNext(MergePrev(released, h), Survivor(released, h))
    /\ live' = live \ {b}
    /\ last' = [call |-> "free", size |-> 0, ptr |-> b.ptr]

Next ==
    \/ \E s \in Requests, al \in Alignments : Malloc(s, al)
    \/ \E s \in Requests : MallocFails(s)
    \/ \E b \in live : Free(b)

Spec == Init /\ [][Next]_vars

-----------------------------------------------------------------------------
(* Every variable has its type. *)
TypeOK ==
    /\ node \in [DOMAIN node -> MemoryNode]
    /\ DOMAIN node \subseteq HeapStart .. (HeapEnd - NodeSize)
    /\ live \subseteq [ptr : HeapStart .. (HeapEnd + 255), size : Requests]
    /\ last \in [call : {"none", "malloc", "free"}, size : Requests \cup {0},
                 ptr : Nat]

(* The links of chunk a of nd agree with the chunks beside it: next is the  *)
(* chunk that starts where a ends, or 0 at the end of the heap, and the     *)
(* prev of that chunk is a again.                                           *)
LinksOK(nd, a) ==
    /\ IF nd[a].next = NULL
       THEN End(nd, a) = HeapEnd
       ELSE /\ nd[a].next \in DOMAIN nd
            /\ nd[a].next = End(nd, a)
            /\ nd[nd[a].next].prev = a
    /\ IF nd[a].prev = NULL
       THEN a = HeapStart
       ELSE /\ nd[a].prev \in DOMAIN nd
            /\ nd[a].prev < a
            /\ nd[nd[a].prev].next = a

(* No two chunks of nd share a byte. *)
Separate(nd) == \A a, c \in DOMAIN nd : a < c => End(nd, a) <= c

WellFormed(nd) == Separate(nd) /\ \A a \in DOMAIN nd : LinksOK(nd, a)

(* Through any sequence of splits and merges the list stays doubly linked   *)
(* and its chunks tile the heap, none lost and none overlapping: what       *)
(* malloc's walk and free's merges silently rely on.                        *)
ListWellFormed == WellFormed(node)

(* free's two merges leave no two free chunks side by side, however         *)
(* allocations and frees were ordered.                                      *)
Coalesced ==
    \A a \in DOMAIN node :
        ~node[a].allocated /\ node[a].next # NULL => node[node[a].next].allocated

(* What alignment may push a block up by. *)
MaxPadding == IF Alignments \subseteq {1} THEN 0 ELSE 15

(* The blocks callers hold never overlap.  Byte-aligned ones lie inside the *)
(* heap, clear of every header; an aligned one may run into the header that *)
(* follows or off the heap, by less than an alignment: malloc's fit test    *)
(* does not count the padding.                                              *)
BlocksDisjoint ==
    /\ \A b \in live : b.ptr + b.size <= HeapEnd + MaxPadding
    /\ \A b, d \in live :
          b # d => b.ptr # d.ptr /\ (b.ptr + b.size <= d.ptr \/ d.ptr + d.size <= b.ptr)
    /\ \A b \in live, a \in DOMAIN node :
          b.ptr + b.size <= a + MaxPadding \/ a + NodeSize <= b.ptr

(* The chunk that malloc carved block b from: padding bytes lie between.    *)
CarvedFrom(b, a) == b.ptr = a + NodeSize + node[a].offset

(* No chunk leaks and none is handed out twice: the allocated chunks and    *)
(* the blocks callers hold correspond one to one.                           *)
NoLeak ==
    /\ \A a \in DOMAIN node : node[a].allocated =>
          \E b \in live : {d \in live : CarvedFrom(d, a)} = {b}
    /\ \A b \in live : \E a \in DOMAIN node : node[a].allocated /\ CarvedFrom(b, a)

(* The fit test ignores the padding, so an aligned block may run past its   *)
(* chunk, into the header of the next one or off the heap: but always by    *)
(* fewer bytes than its padding, so an unpadded block stays inside.         *)
OverrunBelowPadding ==
    \A b \in live, a \in DOMAIN node : node[a].allocated /\ CarvedFrom(b, a) =>
        \/ b.ptr + b.size <= End(node, a)
        \/ b.ptr + b.size < End(node, a) + node[a].offset

Heap == INSTANCE HeapSpec WITH Overhead <- NodeSize, Slack <- MaxPadding

(* The list of chunks implements the heap callers rely on: malloc hands out *)
(* unused bytes, and returns 0 only when no run of free bytes could hold    *)
(* the request and its header, whatever alignments callers mix.           *)
HeapRefined == Heap!Spec
=============================================================================
