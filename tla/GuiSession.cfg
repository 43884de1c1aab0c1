SPECIFICATION FairSpec
CONSTANTS
    MaxRuns = 2
    MaxClicks = 2
    MaxBreaks = 1
INVARIANTS
    SessionIntact
    ImageWhole
PROPERTIES
    EndIsShown
CHECK_DEADLOCK FALSE
