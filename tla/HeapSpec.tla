------------------------------ MODULE HeapSpec ------------------------------
(***************************************************************************)
(* What the kernel heap promises to `new` and `delete`, without its list    *)
(* of chunks: an allocation returns bytes nobody holds, and it fails only   *)
(* when no run of free bytes can hold the request and its bookkeeping.      *)
(***************************************************************************)
EXTENDS Integers

CONSTANTS
    HeapStart,   \* address of the first byte of the heap
    HeapSize,    \* number of bytes of the heap
    Overhead,    \* bytes of bookkeeping that may surround a block, each side
    Slack,       \* bytes that alignment may push a block up by
    Requests     \* the sizes that callers ask for

VARIABLES
    live,        \* the blocks callers hold, [ptr, size]
    last         \* the last call and its result, [call, size, ptr]

vars == <<live, last>>

NULL == 0
HeapEnd == HeapStart + HeapSize

(* Half-open intervals [lo, hi) that share no byte. *)
Apart(lo, hi, lo2, hi2) == hi <= lo2 \/ hi2 <= lo

(* The block <<p, s>> lies in the heap, but for what alignment pushes past  *)
(* its end, clear of every block callers hold.                              *)
Unused(p, s) ==
    /\ HeapStart <= p /\ p + s <= HeapEnd + Slack
    /\ \A b \in live : /\ p # b.ptr
                       /\ Apart(p, p + s, b.ptr, b.ptr + b.size)

(* The bytes [x, x + n) are free: none of them belongs to a held block nor  *)
(* to the bookkeeping around it.                                            *)
FreeRun(x, n) ==
    /\ HeapStart <= x /\ x + n <= HeapEnd
    /\ \A b \in live :
          Apart(x, x + n, b.ptr - Slack - Overhead, b.ptr + b.size + Overhead)

Init ==
    /\ live = {}
    /\ last = [call |-> "none", size |-> 0, ptr |-> NULL]

Malloc(s) ==
    \E p \in HeapStart .. (HeapEnd + Slack) :
        /\ Unused(p, s)
        /\ live' = live \cup {[ptr |-> p, size |-> s]}
        /\ last' = [call |-> "malloc", size |-> s, ptr |-> p]

MallocFails(s) ==
    /\ \A x \in HeapStart .. HeapEnd : ~FreeRun(x, s + Overhead + 1)
    /\ last' = [call |-> "malloc", size |-> s, ptr |-> NULL]
    /\ UNCHANGED live

Free(b) ==
    /\ live' = live \ {b}
    /\ last' = [call |-> "free", size |-> 0, ptr |-> b.ptr]

Next ==
    \/ \E s \in Requests : Malloc(s) \/ MallocFails(s)
    \/ \E b \in live : Free(b)

Spec == Init /\ [][Next]_vars
=============================================================================
