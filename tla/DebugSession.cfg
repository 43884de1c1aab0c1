SPECIFICATION Spec
CONSTANTS
    Calls <- SessionCalls
    BreakName <- Breakpoints
    Known <- Breakpoints
    ToggledEvent <- OneEvent
    SigpipeKills = FALSE
    MaxSeq = 3
    MaxPipe = 2
INVARIANTS
    StoppedTogether
    NoStandoff
    BreakNamesStart
    AnsweredFromItsStop
    HandlersAnswered
    BreakpointsConverge
PROPERTIES
    FollowsProtocol
CHECK_DEADLOCK FALSE
