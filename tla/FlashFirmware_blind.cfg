\* One run, and a half left in its bootloader.
SPECIFICATION Spec
CONSTANTS
    left = left
    right = right
    bl = bl
    br = br
    Proc = {p1}
    Board = {bl, br}
    Half = {left, right}
    Side <- TwoHalves
    Path = {m1, m2}
    None = None
    MaxMoves = 0
    MaxStarts = 1
CHECK_DEADLOCK FALSE
INVARIANT ConnectedIsFlashed
