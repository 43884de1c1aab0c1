SPECIFICATION FairSpec
CONSTANTS
    Calls <- StepCalls
    BreakName <- NoName
    Known <- NoName
    ToggledEvent <- NoName
    SigpipeKills = TRUE
    MaxSeq = 4
    MaxPipe = 3
PROPERTIES
    StopHonoured
    QuitHonoured
    NeverAbandoned
CHECK_DEADLOCK FALSE
