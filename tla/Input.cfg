SPECIFICATION FairSpec
CONSTANTS
    Key <- MCKey
    Window <- MCWindow
    Focus = "w1"
    Handlers <- MCHandlers
    Masks <- MCMasks
    Typed <- MCTyped
    Dga = FALSE
    MaxMoves = 3
    MaxQueue = 3
INVARIANTS
    PressesPaired
    PendingHonest
PROPERTIES
    HotkeysServed
    CallsReturn
CHECK_DEADLOCK FALSE
