----------------------------- MODULE TransmitRing -----------------------------
(***************************************************************************)
(* The transmit side of the network driver (src/drivers/intel_82540em.cpp): *)
(* send_packet fills the descriptor at the tail and moves the tail, the     *)
(* card sends from the head and sets DD in a descriptor it has sent.  The   *)
(* card, which is external, works between any two steps of send_packet.     *)
(*                                                                         *)
(* send_packet is called by one context at a time.  TDT is written by it    *)
(* alone.                                                                   *)
(***************************************************************************)
EXTENDS Integers, Sequences

CONSTANTS
    RingSize,    \* TX_RING_SIZE, 256
    Packet,      \* the packets callers send
    None         \* no packet

ASSUME RingAssumption ==
    RingSize \in Nat /\ RingSize >= 2 /\ None \notin Packet

VARIABLES
    tdh, tdt,    \* the registers TDH and TDT
    done,        \* the DD bit of each descriptor
    buffer,      \* the packet in the buffer of each descriptor
    pc, packet,  \* where send_packet is, and its argument
    wire         \* the card: the packet it is sending

vars == <<tdh, tdt, done, buffer, pc, packet, wire>>

Descriptor == 0 .. (RingSize - 1)
After(i) == (i + 1) % RingSize

(* tx_setup: every descriptor counts as sent. *)
Init ==
    /\ tdh = 0 /\ tdt = 0
    /\ done = [i \in Descriptor |-> TRUE]
    /\ buffer = [i \in Descriptor |-> None]
    /\ pc = "idle" /\ packet = None
    /\ wire = None

-----------------------------------------------------------------------------
(* Mutant: the DD bit is not looked at. *)
SendUnchecked(p) ==
    /\ pc = "idle"
    /\ pc' = "copy" /\ packet' = p
    /\ UNCHANGED <<tdh, tdt, done, buffer, wire>>

(* The test of DD; "TX ring full!" changes nothing. *)
Send(p) ==
    /\ pc = "idle" /\ done[tdt]
    /\ pc' = "copy" /\ packet' = p
    /\ UNCHANGED <<tdh, tdt, done, buffer, wire>>

Copy ==
    /\ pc = "copy"
    /\ buffer' = [buffer EXCEPT ![tdt] = packet]
    /\ pc' = "mark"
    /\ UNCHANGED <<tdh, tdt, done, packet, wire>>

(* desc->status = 0 *)
Mark ==
    /\ pc = "mark"
    /\ done' = [done EXCEPT ![tdt] = FALSE]
    /\ pc' = "tail"
    /\ UNCHANGED <<tdh, tdt, buffer, packet, wire>>

(* Mutant: the tail stays. *)
MoveTailNot ==
    /\ pc = "tail"
    /\ pc' = "idle" /\ packet' = None
    /\ UNCHANGED <<tdh, tdt, done, buffer, wire>>

(* From here on the card sees the packet. *)
MoveTail ==
    /\ pc = "tail"
    /\ tdt' = After(tdt)
    /\ pc' = "idle" /\ packet' = None
    /\ UNCHANGED <<tdh, done, buffer, wire>>

(* The card: fetch the packet at the head, then report it sent. *)
Fetch ==
    /\ wire = None /\ tdh # tdt
    /\ wire' = buffer[tdh]
    /\ UNCHANGED <<tdh, tdt, done, buffer, pc, packet>>

Report ==
    /\ wire # None
    /\ done' = [done EXCEPT ![tdh] = TRUE]
    /\ tdh' = After(tdh) /\ wire' = None
    /\ UNCHANGED <<tdt, buffer, pc, packet>>

Driver == Copy \/ Mark \/ MoveTail
Card == Fetch \/ Report
Next == Driver \/ Card \/ \E p \in Packet : Send(p)

Spec == Init /\ [][Next]_vars

-----------------------------------------------------------------------------
(* Every descriptor is filled and the tail has come round to the head: to   *)
(* the card the ring is empty.                                              *)
Jammed == tdh = tdt /\ \A i \in Descriptor : ~done[i]

(* How many descriptors wait for the card, from the head on. *)
Waiting == IF Jammed THEN RingSize ELSE (tdt - tdh) % RingSize

(* What waits for the card, without the packet it has fetched. *)
Queue ==
    LET fetched == IF wire = None THEN 0 ELSE 1
    IN  [k \in 1 .. (Waiting - fetched) |-> buffer[(tdh + fetched + k - 1) % RingSize]]

Fifo == INSTANCE PacketQueue WITH queue <- Queue, Capacity <- RingSize

(* Packets go out in the order they were accepted, unchanged, each once.    *)
FifoRefined == Fifo!Spec
=============================================================================
