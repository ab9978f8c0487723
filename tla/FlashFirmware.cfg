\* The two halves of one keyboard and one user, who flashes twice.
SPECIFICATION FairSpec
CONSTANTS
    left = left
    right = right
    bl = bl
    br = br
    Proc = {p1}
    Board = {bl, br}
    Half = {left, right}
    Side <- TwoHalves
    Path = {m1, m2}
    None = None
    MaxMoves = 2
    MaxStarts = 2
CHECK_DEADLOCK FALSE
INVARIANT TypeOK
INVARIANT OwnHalf
INVARIANT VerifiedIsFlashed
INVARIANT FlashInv
PROPERTY FlashSucceeds
