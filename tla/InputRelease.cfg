SPECIFICATION Spec
CONSTANTS
    Key <- MCKey
    Window <- MCWindow
    Focus = "w1"
    Handlers <- MCScreenshot
    Masks <- MCMasks
    Typed <- MCTyped
    Dga = FALSE
    MaxMoves = 4
    MaxQueue = 2
INVARIANTS
    NoOrphanRelease
CHECK_DEADLOCK FALSE
