SPECIFICATION TermSpec
CONSTANTS
    Width = 3
    Height = 2
    Plain = {28, 42, 54, 41}
    Extended = {71}
    MouseBytes = {8, 42, 182}
INVARIANTS ShiftLetsGo CursorRecovers StraysOneRow
CHECK_DEADLOCK FALSE
