------------------------------- MODULE Desktop -------------------------------
(***************************************************************************)
(* The graphics mode's desktop (src/gui: classes Desktop, Window and the     *)
(* parts of CompositeWidget they use) with the mouse driver that calls it.  *)
(* As in the kernel, the desktop's children are windows without children.   *)
(* windows[1] is the first child: the one drawn last, and asked first.       *)
(***************************************************************************)
EXTENDS MouseDriver, SequencesExt

CONSTANTS
    ScreenW, ScreenH,    \* the desktop, 320 by 200
    WindowW, WindowH,    \* of every window
    CursorArm,           \* pixels of the cursor to each side, and 1: 4
    Corners              \* where the windows are at first, <<x, y>>

(* Assumed where the constants are given values, in Mouse. *)
DesktopAssumption ==
    /\ ScreenW \in Nat \ {0} /\ ScreenH \in Nat \ {0}
    /\ WindowW \in Nat \ {0} /\ WindowH \in Nat \ {0} /\ CursorArm \in Nat
    /\ Corners \in Seq(Nat \X Nat) /\ Corners # <<>>

VARIABLES
    pointer,    \* m_x, m_y of the Desktop
    windows     \* its children: [x, y, dragged]

vars == <<rest, lost, buf, held, calls, pointer, windows>>

(* The kernel adds its windows before interrupts are enabled. *)
Init ==
    /\ DriverInit
    /\ pointer = [x |-> ScreenW \div 2, y |-> ScreenH \div 2]
    /\ windows = [i \in DOMAIN Corners |->
                    [x |-> Corners[i][1], y |-> Corners[i][2], dragged |-> FALSE]]

-----------------------------------------------------------------------------
(* contains_coordinate *)
ContainsCoordinate(w, p) ==
    w.x <= p.x /\ p.x < w.x + WindowW /\ w.y <= p.y /\ p.y < w.y + WindowH

(* The first child at p, 0 if there is none. *)
ChildAt(ws, p) == SelectInSeq(ws, LAMBDA w : ContainsCoordinate(w, p))

(* The clamp as written: v = n passes. *)
Clamped(v, n) == IF v < 0 THEN 0 ELSE IF v > n THEN n - 1 ELSE v

(* Window::on_mouse_move of child i, if there is such a child. *)
Dragged(ws, i, dx, dy) ==
    IF i # 0 /\ ws[i].dragged
    THEN [ws EXCEPT ![i] = [x |-> @.x + dx, y |-> @.y + dy, dragged |-> TRUE]]
    ELSE ws

(* Mutant: the test of first_child is missing. *)
MovedTwice(ws, old, new) ==
    LET dx == new.x - old.x
        dy == new.y - old.y
        left == Dragged(ws, ChildAt(ws, old), dx, dy)
    IN  Dragged(left, ChildAt(left, new), dx, dy)

(* CompositeWidget::on_mouse_move: the child at the old position is told,   *)
(* then, where things are by now, the one at the new.                       *)
Moved(ws, old, new) ==
    LET dx == new.x - old.x
        dy == new.y - old.y
        first == ChildAt(ws, old)
        left == Dragged(ws, first, dx, dy)
        second == ChildAt(left, new)
    IN  IF second = first THEN left ELSE Dragged(left, second, dx, dy)

OnMove(s, dx, dy) ==
    LET new == [x |-> Clamped(s.pointer.x + dx, ScreenW),
                y |-> Clamped(s.pointer.y + dy, ScreenH)]
    IN  [pointer |-> new, windows |-> Moved(s.windows, s.pointer, new)]

OnDown(s, button) ==
    LET i == ChildAt(s.windows, s.pointer)
    IN  IF i # 0 /\ button = 1 THEN [s EXCEPT !.windows[i].dragged = TRUE] ELSE s

(* Mutant: only button 3 lets go. *)
OnUpThird(s, button) ==
    LET i == ChildAt(s.windows, s.pointer)
    IN  IF i # 0 /\ button = 3 THEN [s EXCEPT !.windows[i].dragged = FALSE] ELSE s

(* Any button lets go. *)
OnUp(s, button) ==
    LET i == ChildAt(s.windows, s.pointer)
    IN  IF i # 0 THEN [s EXCEPT !.windows[i].dragged = FALSE] ELSE s

Call(s, c) ==
    IF c.call = "on_move" THEN OnMove(s, c.dx, c.dy)
    ELSE IF c.call = "on_down" THEN OnDown(s, c.button) ELSE OnUp(s, c.button)

(* What the calls cs make of the desktop, one after the other. *)
Called(s, cs) ==
    LET after[n \in 0 .. Len(cs)] ==
            IF n = 0 THEN s ELSE Call(after[n - 1], cs[n])
    IN  after[Len(cs)]

Handle ==
    LET after == Called([pointer |-> pointer, windows |-> windows], calls')
    IN  pointer' = after.pointer /\ windows' = after.windows

Next == (Interrupt \/ Lose) /\ Handle

-----------------------------------------------------------------------------
(* What a frame shows.  A screen says for each pixel what was drawn there   *)
(* last: 0 the background, i the child i, -1 the cursor.                    *)

Pixel == [x : 0 .. (ScreenW - 1), y : 0 .. (ScreenH - 1)]

(* fill_rectangle: its loops compare an int with an unsigned end, so that a *)
(* rectangle that starts beyond the top or the left edge is not drawn.      *)
Filled(screen, w, i) ==
    IF w.x < 0 \/ w.y < 0 THEN screen
    ELSE [p \in Pixel |-> IF ContainsCoordinate(w, p) THEN i ELSE screen[p]]

(* The cursor: the pixels within CursorArm - 1 of m_x, m_y along an axis.   *)
Near(a, b) == a - b \in (1 - CursorArm) .. (CursorArm - 1)
Cursor == {p \in Pixel : \/ p.y = pointer.y /\ Near(p.x, pointer.x)
                         \/ p.x = pointer.x /\ Near(p.y, pointer.y)}

(* Mutant: from the first child to the last. *)
DrawnFirstUp(k) == k

(* The child that is drawn as number k: the first one is drawn last. *)
Drawn(k) == Len(windows) + 1 - k

(* draw: the background, the children, and the cursor, of a frame during    *)
(* which nothing moves.                                                     *)
Frame ==
    LET children[k \in 0 .. Len(windows)] ==
            IF k = 0 THEN [p \in Pixel |-> 0]
            ELSE Filled(children[k - 1], windows[Drawn(k)], Drawn(k))
    IN  [p \in Pixel |-> IF p \in Cursor THEN -1 ELSE children[Len(windows)][p]]

-----------------------------------------------------------------------------
(* The first window is never left dragged: its drag lasts no longer than    *)
(* button 1 is down, and the pointer is on it all the while, so that the    *)
(* release reaches it.  Even where a lost byte makes the driver take motion *)
(* for buttons.                                                            *)
FirstWindowLetsGo ==
    windows[1].dragged => 1 \in held /\ ContainsCoordinate(windows[1], pointer)

(* A step: the dragged window that the pointer is on, with none above it   *)
(* there, moves exactly as the pointer does, and any other does so or stays.*)
MovesAsPointer ==
    \A i \in DOMAIN windows :
        LET stays == windows'[i].x = windows[i].x /\ windows'[i].y = windows[i].y
            follows ==
                /\ windows'[i].x - windows[i].x = pointer'.x - pointer.x
                /\ windows'[i].y - windows[i].y = pointer'.y - pointer.y
        IN  follows \/ (stays /\ ~(windows[i].dragged /\ ChildAt(windows, pointer) = i))

(* What is seen at a pixel is what a click there reaches, except that a     *)
(* window whose corner is beyond the top or the left edge is not seen,      *)
(* though clicks reach it.                                                  *)
SeenIsReached ==
    \A p \in Pixel \ Cursor :
        LET i == ChildAt(windows, p)
        IN  IF i = 0 THEN Frame[p] = 0
            ELSE Frame[p] = i <=> windows[i].x >= 0 /\ windows[i].y >= 0
=============================================================================
