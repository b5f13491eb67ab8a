----------------------------- MODULE ReceiveRing -----------------------------
(***************************************************************************)
(* The receive side of the network driver (src/drivers/intel_82540em.cpp):  *)
(* a ring of descriptors in memory that the card fills and the interrupt    *)
(* handler empties.  The card may use the descriptors from RDH up to, and   *)
(* not including, RDT; it sets DD in a descriptor it has filled.  The card  *)
(* is external: Receive is what the driver relies on.                       *)
(*                                                                         *)
(* handle_rx reads and writes memory that the card changes under it, so     *)
(* that each of its accesses is a step of its own.                          *)
(***************************************************************************)
EXTENDS Integers

CONSTANT RingSize     \* RX_RING_SIZE, 256

VARIABLES
    rdh, rdt,    \* the registers RDH and RDT
    done,        \* the DD bit of each descriptor
    cause,       \* RXT0 is set in ICR, which asserts the interrupt
    pc, next,    \* where the handler is, and its next_rdt
    unread       \* history: the descriptor holds a packet not printed yet

vars == <<rdh, rdt, done, cause, pc, next, unread>>

Descriptor == 0 .. (RingSize - 1)
After(i) == (i + 1) % RingSize

(* rx_setup *)
Init ==
    /\ rdh = 0 /\ rdt = RingSize - 1
    /\ done = [i \in Descriptor |-> FALSE]
    /\ cause = FALSE
    /\ pc = "idle" /\ next = 0
    /\ unread = [i \in Descriptor |-> FALSE]

-----------------------------------------------------------------------------
(* The card stores a packet. *)
Receive ==
    /\ rdh # rdt
    /\ done' = [done EXCEPT ![rdh] = TRUE]
    /\ unread' = [unread EXCEPT ![rdh] = TRUE]
    /\ rdh' = After(rdh)
    /\ cause' = TRUE
    /\ UNCHANGED <<rdt, pc, next>>

(* handle_interrupt: reading ICR clears it. *)
Interrupt ==
    /\ pc = "idle" /\ cause
    /\ cause' = FALSE /\ pc' = "tail"
    /\ UNCHANGED <<rdh, rdt, done, next, unread>>

ReadTail ==
    /\ pc = "tail"
    /\ next' = After(rdt) /\ pc' = "check"
    /\ UNCHANGED <<rdh, rdt, done, cause, unread>>

CheckDone ==
    /\ pc = "check"
    /\ pc' = IF done[next] THEN "print" ELSE "write"
    /\ UNCHANGED <<rdh, rdt, done, cause, next, unread>>

PrintPacket ==
    /\ pc = "print"
    /\ unread' = [unread EXCEPT ![next] = FALSE]
    /\ pc' = "clear"
    /\ UNCHANGED <<rdh, rdt, done, cause, next>>

(* Mutant: rx_desc->status = 0 is missing. *)
ClearDoneKeeps ==
    /\ pc = "clear"
    /\ next' = After(next) /\ pc' = "check"
    /\ UNCHANGED <<rdh, rdt, done, cause, unread>>

ClearDone ==
    /\ pc = "clear"
    /\ done' = [done EXCEPT ![next] = FALSE]
    /\ next' = After(next) /\ pc' = "check"
    /\ UNCHANGED <<rdh, rdt, cause, unread>>

WriteTail ==
    /\ pc = "write"
    /\ rdt' = next /\ pc' = "idle"
    /\ UNCHANGED <<rdh, done, cause, next, unread>>

Handler ==
    Interrupt \/ ReadTail \/ CheckDone \/ PrintPacket \/ ClearDone \/ WriteTail

Next == Receive \/ Handler

Spec == Init /\ [][Next]_vars

-----------------------------------------------------------------------------
(* The handler prints a packet at most once, though the ring wraps and the  *)
(* card stores packets between any two of its steps.                        *)
PrintedOnce == pc = "print" => unread[next]

-----------------------------------------------------------------------------
(* What a comment of the driver says of the ring and its code does not keep.*)

(* intel_82540em.cpp:94-96, "while each descriptor's DD bit is set, read    *)
(* the descriptors buf addr, and save it": once the handler has returned    *)
(* and no interrupt is pending, no packet lies in the ring unread.          *)
PacketsAreRead ==
    pc = "idle" /\ ~cause => \A i \in Descriptor : ~unread[i]
=============================================================================
