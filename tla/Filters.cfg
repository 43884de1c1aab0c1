SPECIFICATION FairSpec
CONSTANTS
    t1 = t1
    t2 = t2
    Thread <- MCThread
    FilterSet <- MCFilterSet
    Function <- MCFunction
    Loaded <- MCLoaded
    InvokeFilter = "invoke"
    Keyed <- MCKeyed
    MaxDeferred = 2
    StartupDefers = TRUE
    CallbackDefers = TRUE
    ExitBusy = FALSE
CHECK_DEADLOCK FALSE
INVARIANTS
    StableWalk
    BypassSafe
PROPERTIES
    CallsEnd
