----------------------------- MODULE MouseDriver -----------------------------
(***************************************************************************)
(* The mouse driver (src/drivers/mouse.cpp, class MouseDriver): each byte of *)
(* the mouse comes with an interrupt of its own, three bytes make a packet,  *)
(* and a whole packet becomes calls of the MouseHandler: on_move, then for   *)
(* each button that changed on_up or on_down.                               *)
(*                                                                         *)
(* The mouse is external.  A byte may be lost: the keyboard driver reads    *)
(* the data port, which both devices share, without asking whose byte is in *)
(* it, and the driver does not look for the start of a packet.               *)
(***************************************************************************)
EXTENDS Integers, Sequences

CONSTANTS
    Buttons,    \* the button bytes that the mouse sends
    Motions,    \* the motion bytes that the mouse sends
    MaxLost     \* how many bytes are lost, as a bound

ASSUME MouseAssumption ==
    Buttons \subseteq 0 .. 255 /\ Motions \subseteq 0 .. 255 /\ MaxLost \in Nat

VARIABLES
    rest,       \* the mouse: the bytes of its packet not sent yet
    lost,       \* the mouse: how many bytes were lost
    buf,        \* m_buf, up to m_offset
    held,       \* m_buttons, as the set of the buttons that are down
    calls       \* the calls that the last step made, in order

driverVars == <<rest, lost, buf, held, calls>>

Packet == {<<f, dx, dy>> : f \in Buttons, dx \in Motions, dy \in Motions}
Byte == Buttons \cup Motions
Button == 1 .. 3

(* activate *)
DriverInit == rest = <<>> /\ lost = 0 /\ buf = <<>> /\ held = {} /\ calls = <<>>

(* Buttons 1, 2, 3 are the bits 0, 1, 2 of the first byte. *)
HeldIn(f) == {b \in Button : (f \div 2 ^ (b - 1)) % 2 = 1}

(* A byte as an int8_t, and its negation: -128 is its own. *)
Signed(v) == IF v < 128 THEN v ELSE v - 256
Negated(v) == IF v = 128 THEN -128 ELSE -Signed(v)

Move(dx, dy) == [call |-> "on_move", dx |-> dx, dy |-> dy]
Up(b) == [call |-> "on_up", button |-> b]
Down(b) == [call |-> "on_down", button |-> b]

Change(b, f) ==
    IF b \in HeldIn(f) <=> b \in held THEN <<>>
    ELSE IF b \in held THEN <<Up(b)>> ELSE <<Down(b)>>

CallsOf(p) ==
    (IF p[2] # 0 \/ p[3] # 0 THEN <<Move(Signed(p[2]), Negated(p[3]))>> ELSE <<>>)
        \o Change(1, p[1]) \o Change(2, p[1]) \o Change(3, p[1])

(* handle_interrupt, with one more byte in the data port. *)
Receive(byte) ==
    LET frame == Append(buf, byte)
    IN  IF Len(frame) < 3
        THEN buf' = frame /\ calls' = <<>> /\ UNCHANGED held
        ELSE buf' = <<>> /\ calls' = CallsOf(frame) /\ held' = HeldIn(frame[1])

(* The mouse sends the next byte of its packet, or starts a new one. *)
Sends(byte) ==
    \/ /\ rest # <<>> /\ byte = Head(rest) /\ rest' = Tail(rest)
    \/ /\ rest = <<>>
       /\ \E p \in Packet : byte = p[1] /\ rest' = Tail(p)

Interrupt == \E byte \in Byte : Sends(byte) /\ Receive(byte) /\ UNCHANGED lost

Lose ==
    /\ lost < MaxLost /\ lost' = lost + 1
    /\ \E byte \in Byte : Sends(byte)
    /\ calls' = <<>>
    /\ UNCHANGED <<buf, held>>
=============================================================================
