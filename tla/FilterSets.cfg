SPECIFICATION LibrarySpec
CONSTANTS
    FilterSet <- MCFilterSet
    Wants <- MCWants
    Follows <- MCFollows
    KnownChoices <- MCKnown
    MaxOrders = 3
    MaxChain = 1
    Caller = {"t1", "t2"}
    DrawCalls <- MCCalls
    Readable = {8, 9, 10, 11, 12, 13, 14, 15}
    BufferSize = 8
    Content <- MCContent
    Width = 64
    Sharer = {"c1", "c2"}
    List = {1}
    Shape <- MCShape
    MaxBatches = 2
    MaxFrames = 2
    Mode <- MCMode
    Size = {1, 2}
    Step = 2
    MaxPause = 3
    MaxTime = 6
    MaxSwaps = 4
    Context = {"c1"}
    NoContext = NoContext
    MaxMoves = 2
    MaxView = 2
INVARIANTS
    ListClosed
    RequiredIsLoaded
    SortsOrFails
    IllegalIsIgnored
    VideoFollowsTime
    OverrideIsUndone
PROPERTIES
    FramesReported
CHECK_DEADLOCK FALSE
