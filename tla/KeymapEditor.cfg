\* Every label and kind of keycode, one thing typed or edited and one snapshot.
SPECIFICATION Spec
CONSTANTS
    Word <- TheWord
    Code <- TheCode
    Rank <- TheRank
    Number <- TheNumber
    LayerId <- TheLayerId
    Alnum <- TheAlnum
    Prefixed <- ThePrefixed
    Identifier <- TheIdentifier
    Starts <- TheStarts
    Typed <- TheTyped
    Capacity = 2
    BufferSize = 3
    Key = {k1}
    LayerCount = 2
    Terms = {1, 3}
    Bad = Bad
    None = None
    Torn = Torn
    MaxInputs = 1
CHECK_DEADLOCK FALSE
INVARIANT TypeOK
INVARIANT TapHoldUntouched
PROPERTY EditsSurvive
PROPERTY AppliedIsShown
PROPERTY SnapshotIsFaithful
