------------------------------- MODULE Keyboard -------------------------------
(***************************************************************************)
(* The keyboard driver (src/drivers/keyboard.cpp): each byte of the         *)
(* keyboard comes with an interrupt of its own and becomes one call of      *)
(* emit_event, which keeps one flag for the shift keys.  The driver does    *)
(* not put the bytes of a key together again.                               *)
(*                                                                         *)
(* The keyboard is external: the bytes of keys are those of keyboard.h, and *)
(* the bytes of one key are sent before those of the next.  Pause is left   *)
(* out: all its bytes are silent.  The handler reads the data port without  *)
(* asking whose byte is in it: it may be one of the mouse's, which is taken *)
(* for a scan code, and the keyboard's own byte comes later.                *)
(***************************************************************************)
EXTENDS Integers, Sequences

CONSTANTS
    Plain,       \* the scan codes of the keys that send one byte
    Extended,    \* those of the keys that send it after 0xE0
    MouseBytes   \* the bytes of the mouse that the handler may read

VARIABLES
    down,       \* the keyboard: the keys that are down
    bytes,      \* the keyboard: what it sends of the key that moved last
    m_shift,    \* the handler's
    stray       \* history: a byte of the mouse set m_shift, no key has since

LSHIFT == 42
RSHIFT == 54

(* A key, by the bytes it sends when pressed and when released. *)
PlainKey(c) == [make |-> <<c>>, break |-> <<c + 128>>]
ExtendedKey(c) == [make |-> <<224, c>>, break |-> <<224, c + 128>>]
PrintScreen == [make |-> <<224, 42, 224, 55>>, break |-> <<224, 183, 224, 170>>]

Key == {PlainKey(c) : c \in Plain} \cup {ExtendedKey(c) : c \in Extended}
           \cup {PrintScreen}
ShiftKey == {PlainKey(LSHIFT), PlainKey(RSHIFT), PrintScreen}

Init == down = {} /\ bytes = <<>> /\ m_shift = FALSE /\ stray = FALSE

-----------------------------------------------------------------------------
(* emit_event.  The cases of two bytes (0xE01C and up) match no byte; a     *)
(* code below 0x80 that no case names is printed as a number.               *)
ENTER == 28
Silent == {1, 29, LSHIFT, RSHIFT, 56, 58} \cup (59 .. 70) \cup {87, 88}
Named == ((1 .. 83) \ {41}) \cup {87, 88}

Prints(code) ==
    CASE code >= 128 \/ code \in Silent -> "nothing"
      [] code = ENTER -> "newline"
      [] code \in Named \ (Silent \cup {ENTER}) -> "character"
      [] OTHER -> "number"

(* Mutant: the right shift is missed when it goes up. *)
ShiftAfterLeft(code) ==
    IF code \in {LSHIFT, RSHIFT} THEN TRUE
    ELSE IF code = LSHIFT + 128 THEN FALSE ELSE m_shift

ShiftAfter(code) ==
    IF code \in {LSHIFT, RSHIFT} THEN TRUE
    ELSE IF code \in {LSHIFT + 128, RSHIFT + 128} THEN FALSE ELSE m_shift

(* handle_interrupt, with a byte of the keyboard's in the port ... *)
Interrupt ==
    /\ bytes # <<>>
    /\ m_shift' = ShiftAfter(Head(bytes))
    /\ stray' = (stray /\ m_shift' /\ Head(bytes) \notin {LSHIFT, RSHIFT})
    /\ bytes' = Tail(bytes)
    /\ UNCHANGED down

(* ... or with one of the mouse's. *)
MouseByte(code) ==
    /\ m_shift' = ShiftAfter(code)
    /\ stray' = (m_shift' /\ (stray \/ code \in {LSHIFT, RSHIFT}))
    /\ UNCHANGED <<down, bytes>>

-----------------------------------------------------------------------------
Press(k) ==
    /\ bytes = <<>> /\ k \notin down
    /\ down' = down \cup {k} /\ bytes' = k.make
    /\ UNCHANGED <<m_shift, stray>>

Release(k) ==
    /\ bytes = <<>> /\ k \in down
    /\ down' = down \ {k} /\ bytes' = k.break
    /\ UNCHANGED <<m_shift, stray>>

-----------------------------------------------------------------------------
(* Shift does not get stuck: with all bytes handled, in whatever order keys *)
(* went down and up, the flag is set only while a key is down that sends a  *)
(* shift code; but if a byte of the mouse has set it, it stays set until a  *)
(* byte comes that clears it.  With two such keys down it may be clear.     *)
ShiftLetsGo == bytes = <<>> /\ m_shift => down \cap ShiftKey # {} \/ stray
=============================================================================
