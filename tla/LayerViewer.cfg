\* One device node that two keyboards may use one after the other.
SPECIFICATION FairSpec
CONSTANTS
    silakka = silakka
    other = other
    Profile = {silakka, other}
    Path = {event1}
    Code = {key}
    Layer = {0, 1}
    Layers <- TwoAndOne
    Visible <- NotForOther
    First = silakka
    NoAnswer = NoAnswer
    None = None
    LayerHid = {silakka}
    Depth = 1
    Channel = 1
INVARIANT TypeOK
INVARIANT OverlayHidesWhenUnused
INVARIANT OverlayShownOnPurpose
INVARIANT HeldIsDown
INVARIANT SubmapAgrees
PROPERTY GoesAway
PROPERTY StaysAway
PROPERTY LayerIsShown
