------------------------------- MODULE Terminal -------------------------------
(***************************************************************************)
(* The keyboard and the screen: the kernel's own context prints while the   *)
(* keyboard's interrupt handler, and those of other drivers, print through  *)
(* the same printf and the same cursor.                                     *)
(***************************************************************************)
EXTENDS Console, Sequences

CONSTANTS Plain, Extended, MouseBytes    \* as in Keyboard

(* No key but print screen sends the codes of the shift keys after 0xE0:    *)
(* see keyboard.h.                                                         *)
ASSUME KeyboardAssumption ==
    /\ Plain \subseteq 0 .. 127 /\ Extended \subseteq 0 .. 127
    /\ Extended \cap {42, 54} = {} /\ MouseBytes \subseteq 0 .. 255

VARIABLES down, bytes, m_shift, stray    \* as in Keyboard

K == INSTANCE Keyboard

keyVars == <<down, bytes, m_shift, stray>>
termVars == <<x, y, pc, reg, cell, down, bytes, m_shift, stray>>

TermInit == Init /\ K!Init

-----------------------------------------------------------------------------
(* The cursor after n characters in a row. *)
NumberLength == 14    \* of " KEYBOARD 0x00"
After == LET f[n \in 0 .. NumberLength] ==
                 IF n = 0 THEN Cursor ELSE Character(f[n - 1])
         IN  f

(* printf(...), n characters of it, in a handler. *)
PutCharacters(n) ==
    /\ MoveTo(After[n])
    /\ cell' = Width * After[n - 1].y + After[n - 1].x

(* All that the keyboard's handler prints for a byte. *)
Echo(code) ==
    LET what == K!Prints(code)
    IN  \/ what = "nothing" /\ UNCHANGED <<x, y, cell>>
        \/ what = "newline" /\ MoveTo(Newline(Cursor)) /\ UNCHANGED cell
        \/ what = "character" /\ PutCharacters(1)
        \/ what = "number" /\ PutCharacters(NumberLength)

(* handle_interrupt of the keyboard's driver. *)
KeyInterrupt ==
    /\ \/ K!Interrupt /\ Echo(Head(bytes))
       \/ \E code \in MouseBytes : K!MouseByte(code) /\ Echo(code)
    /\ UNCHANGED <<pc, reg>>

KeyMoves ==
    /\ \E k \in K!Key : K!Press(k) \/ K!Release(k)
    /\ UNCHANGED vars

TermNext ==
    \/ KeyInterrupt \/ KeyMoves
    \/ (Begin \/ Kernel \/ HandlerPrints) /\ UNCHANGED keyVars

TermSpec == TermInit /\ [][TermNext]_termVars

-----------------------------------------------------------------------------
(* The driver's flag for shift does not get stuck. *)
ShiftLetsGo == K!ShiftLetsGo
=============================================================================
