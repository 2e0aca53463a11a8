\* Texts marked, edited twice, and marked again.
CONSTANTS
    ByteBits = 2
    Split = 1
    Low = 10
    High = 20
    Magic <- MCMagic
    Version = 1
    Poly = 140
    Bom <- MCBom
    NoMessage = NoMessage
    Carriers <- MCCarriers
    Messages <- MCMessages
    Scraps <- MCScraps
    Letters = {1}
    MaxEdits = 2
SPECIFICATION Spec
INVARIANTS
    FindsTheFirst
    MarkIsFound
    DamageIsSeen
    NothingLeftBehind
PROPERTY
    VisibleStays
