-------------------------------- MODULE Mouse --------------------------------
(***************************************************************************)
(* The mouse driver with its handler: that of the text screen, or the       *)
(* desktop if the kernel is built with GRAPHICS_MODE.                       *)
(***************************************************************************)
EXTENDS MouseDriver

CONSTANTS
    Width, Height, Sens, MaxPrints,         \* of TextMouse
    ScreenW, ScreenH, WindowW, WindowH,     \* of Desktop
    Corners, CursorArm

VARIABLES
    graphics,                   \* was the kernel built with GRAPHICS_MODE?
    mouse, colour, printing, clicked, overwritten, prints,      \* of TextMouse
    pointer, windows            \* of Desktop

T == INSTANCE TextMouse
D == INSTANCE Desktop

ASSUME HandlersAssumption == T!TextAssumption /\ D!DesktopAssumption

textVars == <<mouse, colour, printing, clicked, overwritten, prints>>
desktopVars == <<pointer, windows>>
vars == <<driverVars, graphics, textVars, desktopVars>>

Init == T!Init /\ D!Init /\ graphics \in BOOLEAN

Next ==
    /\ \/ ~graphics /\ T!Next /\ UNCHANGED desktopVars
       \/ graphics /\ D!Next /\ UNCHANGED textVars
    /\ UNCHANGED graphics

Spec == Init /\ [][Next]_vars

-----------------------------------------------------------------------------
(* On the text screen a cell is left with its colours swapped only where a  *)
(* button changed: moving leaves no trail, though a press or a release      *)
(* toggles the cell under the cursor for good (on_move, on_down, on_up).    *)
(* Excepted are the cells that printf writes back after a handler has come   *)
(* in between, and those where it prints a character of 0x80 or above.       *)
TrailsOnlyAtClicks == ~graphics => T!TrailsOnlyAtClicks

(* On the text screen no motion is lost to rounding, however small it is:   *)
(* what on_move does not turn into cells it keeps for the next call.  Only  *)
(* an edge that the cursor comes to cuts a motion short.                    *)
MotionKept == [][~graphics => T!KeepsMotion]_vars

(* The topmost window is never left dragged: its drag lasts no longer than  *)
(* button 1 is down, and the pointer is on it all the while, so that the    *)
(* release reaches it, even where a lost byte makes the driver take motion  *)
(* for buttons.                                                            *)
FirstWindowLetsGo == graphics => D!FirstWindowLetsGo

(* A dragged window follows the pointer exactly, though one call may tell   *)
(* it of a move at its old position, at its new one, or at both.            *)
MovesWithPointer == [][graphics => D!MovesAsPointer]_vars

(* A frame during which nothing moves shows at each pixel what a click there*)
(* would reach, except for the windows partly beyond the top or left edge,  *)
(* which fill_rectangle does not draw.                                      *)
ScreenTrue == graphics => D!SeenIsReached
=============================================================================
