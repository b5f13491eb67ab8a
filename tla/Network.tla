------------------------------- MODULE Network -------------------------------
(***************************************************************************)
(* The network driver (src/drivers/intel_82540em.cpp): its set-up, its      *)
(* interrupt handler and send_packet, at work on both rings.  One processor *)
(* runs the driver: while the handler runs, send_packet, in the context it  *)
(* interrupted, stands still.  The card stops for neither, from the moment  *)
(* its receiver or its transmitter is enabled.                              *)
(***************************************************************************)
EXTENDS TransmitRing

CONSTANTS
    RxRingSize,    \* RX_RING_SIZE; RingSize is TX_RING_SIZE
    Outcomes       \* of malloc

ASSUME NetworkAssumption ==
    /\ RxRingSize \in Nat /\ RxRingSize >= 2
    /\ Outcomes \subseteq BOOLEAN /\ Outcomes # {}

VARIABLES
    rdh, rdt, rxDone, cause, handlerPc, next, unread,    \* as in ReceiveRing
    stage,                   \* what is set up next: "rx", "tx", "activate"; then "on"
    rxBuffers, txBuffers,    \* how many descriptors have their buffer
    rxOn, txOn               \* RCTL.EN and TCTL.EN

rxVars == <<rdh, rdt, rxDone, cause, handlerPc, next, unread>>
setupVars == <<stage, rxBuffers, txBuffers, rxOn, txOn>>
netVars == <<tdh, tdt, done, buffer, pc, packet, wire,
             rdh, rdt, rxDone, cause, handlerPc, next, unread,
             stage, rxBuffers, txBuffers, rxOn, txOn>>

Rx == INSTANCE ReceiveRing WITH RingSize <- RxRingSize, done <- rxDone, pc <- handlerPc

(* After reset.  The rings hold from the start what the set-up writes: as   *)
(* long as it has not come to a descriptor, nothing looks at that one.      *)
NetInit ==
    /\ Init /\ Rx!Init
    /\ stage = "rx" /\ rxBuffers = 0 /\ txBuffers = 0
    /\ rxOn = FALSE /\ txOn = FALSE

-----------------------------------------------------------------------------
(* The constructor, then activate. *)

(* Mutant: the card is enabled although a buffer is missing. *)
EnabledAnyhow(buffers, size) == TRUE

(* The registers are written, and the card enabled, after the last buffer. *)
Enabled(buffers, size) == buffers = size

(* rx_setup and tx_setup: one descriptor, or no memory for its buffer; for  *)
(* the first of them, or for the ring.  The constructor goes on then.       *)
RxSetup ==
    /\ stage = "rx"
    /\ \/ TRUE \in Outcomes /\ rxBuffers' = rxBuffers + 1
       \/ FALSE \in Outcomes /\ UNCHANGED rxBuffers
    /\ stage' = IF rxBuffers' \in {rxBuffers, RxRingSize} THEN "tx" ELSE "rx"
    /\ rxOn' = (stage' = "tx" /\ Enabled(rxBuffers', RxRingSize))
    /\ UNCHANGED <<vars, rxVars, txBuffers, txOn>>

TxSetup ==
    /\ stage = "tx"
    /\ \/ TRUE \in Outcomes /\ txBuffers' = txBuffers + 1
       \/ FALSE \in Outcomes /\ UNCHANGED txBuffers
    /\ stage' = IF txBuffers' \in {txBuffers, RingSize} THEN "activate" ELSE "tx"
    /\ txOn' = (stage' = "activate" /\ Enabled(txBuffers', RingSize))
    /\ UNCHANGED <<vars, rxVars, rxBuffers, rxOn>>

(* enable_interrupts clears ICR: what arrived until now raises none. *)
Activate ==
    /\ stage = "activate" /\ stage' = "on"
    /\ cause' = FALSE
    /\ UNCHANGED <<vars, rdh, rdt, rxDone, handlerPc, next, unread,
                   rxBuffers, txBuffers, rxOn, txOn>>

SetUp == RxSetup \/ TxSetup \/ Activate

-----------------------------------------------------------------------------
CardReceives == rxOn /\ Rx!Receive /\ UNCHANGED <<vars, setupVars>>
CardSends == txOn /\ Card /\ UNCHANGED <<rxVars, setupVars>>

(* Interrupts are disabled in a handler, so that it is not interrupted. *)
HandlerRuns == stage = "on" /\ Rx!Handler /\ UNCHANGED <<vars, setupVars>>

(* A caller is not told whether the set-up failed.  On a descriptor that it *)
(* did not come to, which holds no status yet, send_packet is left out.     *)
SendPacket ==
    /\ stage = "on" /\ handlerPc = "idle" /\ tdt < txBuffers
    /\ \E p \in Packet : Send(p)
    /\ UNCHANGED <<rxVars, setupVars>>

SendRuns == handlerPc = "idle" /\ Driver /\ UNCHANGED <<rxVars, setupVars>>

NetNext ==
    SetUp \/ CardReceives \/ CardSends \/ HandlerRuns \/ SendPacket \/ SendRuns

NetSpec == NetInit /\ [][NetNext]_netVars

(* The processor takes the interrupt and goes on with the handler; the      *)
(* context it interrupted takes a step now and then between two interrupts, *)
(* as the processor runs an instruction after each iret; the card keeps     *)
(* sending what it has.                                                    *)
FairNetSpec ==
    /\ NetSpec
    /\ WF_netVars(HandlerRuns) /\ SF_netVars(SendRuns) /\ WF_netVars(CardSends)

-----------------------------------------------------------------------------
(* The handler prints a packet at most once, though the ring wraps and the  *)
(* card stores packets between any two of its steps.                        *)
PrintedOnce == Rx!PrintedOnce

(* The loop of handle_rx ends, though packets arrive while it runs: the     *)
(* card cannot pass the tail, which stays where it is until the loop ends.  *)
HandlerReturns == handlerPc # "idle" ~> handlerPc = "idle"

(* A packet that was accepted is sent, unless tx_setup failed, of which     *)
(* send_packet knows nothing, or the ring jams: the driver lets the last    *)
(* descriptor be filled too, then tail and head agree, and a card with      *)
(* nothing in hand finds nothing to send.                                   *)
SentOrJammed ==
    \A i \in Descriptor : ~done[i] ~> done[i] \/ ~txOn \/ (Jammed /\ wire = None)

(* The card stores packets in, and sends them from, buffers only that were  *)
(* allocated, though rx_setup and tx_setup may run out of memory and the    *)
(* driver is activated all the same.                                        *)
BuffersBehindPackets ==
    /\ \A i \in Rx!Descriptor : unread[i] => i < rxBuffers
    /\ wire # None => tdh < txBuffers
=============================================================================
