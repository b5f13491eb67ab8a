SPECIFICATION Spec
CONSTANTS
    Buttons = {8, 9}
    Motions = {0, 1, 254}
    MaxLost = 1
    Width = 2
    Height = 2
    Sens = 1
    MaxPrints = 1
    ScreenW = 3
    ScreenH = 1
    WindowW = 2
    WindowH = 1
    CursorArm = 1
    Corners <- SideBySide
INVARIANTS TrailsOnlyAtClicks FirstWindowLetsGo ScreenTrue
PROPERTIES MotionKept MovesWithPointer
CHECK_DEADLOCK FALSE
