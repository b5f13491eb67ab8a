----------------------------- MODULE PacketQueue -----------------------------
(***************************************************************************)
(* What the transmit ring promises to send_packet: a queue of bounded       *)
(* length.  A packet that is accepted goes out at most once, after those    *)
(* accepted before it and unchanged.                                        *)
(***************************************************************************)
EXTENDS Integers, Sequences

CONSTANTS
    Packet,      \* the packets callers send
    None,        \* no packet
    Capacity     \* how many packets may wait

VARIABLES
    queue,    \* the packets accepted and not sent, oldest first
    wire      \* the packet the card is sending, if any

vars == <<queue, wire>>

Init == queue = <<>> /\ wire = None

Accept(p) ==
    /\ Len(queue) < Capacity
    /\ queue' = Append(queue, p)
    /\ UNCHANGED wire

Transmit ==
    /\ queue # <<>> /\ wire = None
    /\ wire' = Head(queue)
    /\ queue' = Tail(queue)

Sent == wire # None /\ wire' = None /\ UNCHANGED queue

Next == Transmit \/ Sent \/ \E p \in Packet : Accept(p)

Spec == Init /\ [][Next]_vars
=============================================================================
