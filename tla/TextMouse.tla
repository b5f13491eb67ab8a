------------------------------ MODULE TextMouse ------------------------------
(***************************************************************************)
(* The mouse of the text screen (src/drivers/mouse.cpp): MouseDriver with   *)
(* the class TextualMouseHandler as its handler.  The handler shows the     *)
(* cursor by swapping foreground and background of its cell; swapping twice *)
(* gives the old colours back.                                              *)
(*                                                                         *)
(* The kernel's printf (src/kernel.cpp) shares the cells.  It reads a cell,  *)
(* ors the character in and writes the cell back, and an interrupt may come  *)
(* in between.  Its character is a signed byte: one of 0x80 or above sets    *)
(* every bit of the colours, white on white, which swapping leaves as it is.*)
(* Only the kernel's loop is interrupted: a handler prints, and swaps, in    *)
(* one step.  Cells below the screen, where printf may stray, are left out. *)
(***************************************************************************)
EXTENDS MouseDriver, FiniteSetsExt

CONSTANTS
    Width, Height,    \* of the screen, 80 and 25
    Sens,             \* m_sens, 9 in the kernel
    MaxPrints         \* how many characters are printed, as a bound

(* Assumed where the constants are given values, in Mouse. *)
TextAssumption ==
    Width \in Nat \ {0} /\ Height \in Nat \ {0} /\ Sens \in Nat \ {0}
    /\ MaxPrints \in Nat

VARIABLES
    mouse,      \* TextualMouseHandler: [x, y, accumX, accumY]
    colour,     \* of each cell: "plain", "inverse" (swapped) or "white" (on white)
    printing,   \* the kernel's printf within a character: [active, cell, colour, hit]
    clicked,    \* history: the cells where a button changed an odd number of times
    overwritten,    \* history: the cells whose colours a print may have changed
    prints      \* how many were, but for those of handlers that keep the colours

printVars == <<printing, overwritten, prints>>
vars == <<rest, lost, buf, held, calls, mouse, colour, clicked, printVars>>

Cell == (0 .. (Width - 1)) \X (0 .. (Height - 1))
NotPrinting == [active |-> FALSE, cell |-> <<0, 0>>, colour |-> "plain", hit |-> FALSE]
At(m) == <<m.x, m.y>>

(* The constructor, at (40, 12) of 80 by 25. *)
Init ==
    /\ DriverInit
    /\ mouse = [x |-> Width \div 2, y |-> Height \div 2, accumX |-> 0, accumY |-> 0]
    /\ colour = [c \in Cell |-> IF c = At(mouse) THEN "inverse" ELSE "plain"]
    /\ printing = NotPrinting
    /\ clicked = {} /\ overwritten = {} /\ prints = 0

-----------------------------------------------------------------------------
Toggled(S, c) == SymDiff(S, {c})

(* What swapping foreground and background makes of a cell. *)
SwapOf == [plain |-> "inverse", inverse |-> "plain", white |-> "white"]
Swapped(colours, c) == [colours EXCEPT ![c] = SwapOf[@]]

(* How often a loop takes `scalar` from the accumulated motion a. *)
Turns(a, scalar) == IF a >= 0 THEN a \div scalar ELSE -((-a) \div scalar)

Clamped(v, n) == IF v < 0 THEN 0 ELSE IF v >= n THEN n - 1 ELSE v

(* Mutant: the motion that is left over is dropped. *)
MovedForgets(m, dx, dy) ==
    [x |-> Clamped(m.x + Turns(m.accumX + dx, Sens), Width),
     y |-> Clamped(m.y + Turns(m.accumY + dy, 2 * Sens), Height),
     accumX |-> 0, accumY |-> 0]

Moved(m, dx, dy) ==
    LET ax == m.accumX + dx
        ay == m.accumY + dy
    IN  [x |-> Clamped(m.x + Turns(ax, Sens), Width),
         y |-> Clamped(m.y + Turns(ay, 2 * Sens), Height),
         accumX |-> ax - Sens * Turns(ax, Sens),
         accumY |-> ay - 2 * Sens * Turns(ay, 2 * Sens)]

(* Mutant: the cell the cursor leaves keeps its colours swapped. *)
OnMoveLeaves(s, dx, dy) ==
    LET m == Moved(s.mouse, dx, dy)
    IN  [s EXCEPT !.mouse = m, !.colour = Swapped(@, At(m))]

(* on_move: the old cell first, then the new one. *)
OnMove(s, dx, dy) ==
    LET m == Moved(s.mouse, dx, dy)
    IN  [s EXCEPT !.mouse = m,
                  !.colour = Swapped(Swapped(@, At(s.mouse)), At(m))]

(* on_up, on_down *)
OnButton(s) ==
    [s EXCEPT !.colour = Swapped(@, At(s.mouse)), !.clicked = Toggled(@, At(s.mouse))]

Call(s, c) == IF c.call = "on_move" THEN OnMove(s, c.dx, c.dy) ELSE OnButton(s)

(* What the calls cs make of the handler, one after the other. *)
Called(s, cs) ==
    LET after[n \in 0 .. Len(cs)] ==
            IF n = 0 THEN s ELSE Call(after[n - 1], cs[n])
    IN  after[Len(cs)]

Handle ==
    LET after == Called([mouse |-> mouse, colour |-> colour, clicked |-> clicked], calls')
    IN  mouse' = after.mouse /\ colour' = after.colour /\ clicked' = after.clicked

(* An interrupt of the mouse; calls of the handler hit a print within which *)
(* they come.                                                               *)
MouseStep ==
    /\ Interrupt \/ Lose
    /\ Handle
    /\ printing' = [printing EXCEPT !.hit = printing.active /\ (@ \/ calls' # <<>>)]
    /\ UNCHANGED <<overwritten, prints>>

-----------------------------------------------------------------------------
(* The mouse rests in a step of printf. *)
NoCalls == calls' = <<>> /\ UNCHANGED <<rest, lost, buf, held, mouse, clicked>>

(* The kernel's printf loads the cell of a character, or one that it clears. *)
PrintReads(c) ==
    /\ ~printing.active /\ prints < MaxPrints
    /\ printing' = [active |-> TRUE, cell |-> c, colour |-> colour[c], hit |-> FALSE]
    /\ prints' = prints + 1
    /\ NoCalls /\ UNCHANGED <<colour, overwritten>>

(* It stores what it loaded, in another cell if a handler has moved x and y *)
(* on in between; high: with a character of 0x80 or above.                  *)
PrintWrites(c, high) ==
    /\ printing.active /\ (c = printing.cell \/ printing.hit)
    /\ colour' = [colour EXCEPT ![c] = IF high THEN "white" ELSE printing.colour]
    /\ overwritten' = IF high \/ printing.hit THEN overwritten \cup {c} ELSE overwritten
    /\ printing' = NotPrinting
    /\ NoCalls /\ UNCHANGED prints

(* A handler prints: a key, the bytes of a packet. *)
HandlerPrints ==
    /\ printing' = [printing EXCEPT !.hit = printing.active]
    /\ \/ UNCHANGED <<colour, overwritten, prints>>
       \/ /\ prints < MaxPrints /\ prints' = prints + 1
          /\ \E c \in Cell :
                /\ colour' = [colour EXCEPT ![c] = "white"]
                /\ overwritten' = overwritten \cup {c}
    /\ NoCalls

Next ==
    \/ MouseStep
    \/ \E c \in Cell : PrintReads(c)
    \/ \E c \in Cell, high \in BOOLEAN : PrintWrites(c, high)
    \/ HandlerPrints

-----------------------------------------------------------------------------
(* A cell is left with its colours swapped only where a button changed:     *)
(* moving the mouse leaves no trail, though a press or a release toggles    *)
(* the cell under the cursor for good.  Printing changes no colours either, *)
(* except those of a cell that printf writes back after a handler has come   *)
(* in between, and of one with a character of 0x80 or above.                 *)
TrailsOnlyAtClicks ==
    \A c \in Cell \ overwritten :
        colour[c] = IF c \in Toggled(clicked, At(mouse)) THEN "inverse" ELSE "plain"

(* What a step makes of a motion d: it goes into cells and into what is      *)
(* accumulated, and only an edge, where the cursor is then, cuts it short.  *)
Spent(moved, d, at, last) ==
    moved = d \/ (at = 0 /\ moved > d) \/ (at = last /\ moved < d)

(* No motion is lost to rounding, however small it is. *)
KeepsMotion ==
    \A c \in {calls'[i] : i \in DOMAIN calls'} : c.call = "on_move" =>
        /\ Spent(Sens * (mouse'.x - mouse.x) + mouse'.accumX - mouse.accumX,
                 c.dx, mouse'.x, Width - 1)
        /\ Spent(2 * Sens * (mouse'.y - mouse.y) + mouse'.accumY - mouse.accumY,
                 c.dy, mouse'.y, Height - 1)
=============================================================================
