SPECIFICATION Spec
CONSTANTS
    t1 = t1
    t2 = t2
    Thread <- MCThread
    FilterSet <- MCFilterSet
    Function <- MCFunction
    Loaded <- MCLoaded
    InvokeFilter = "invoke"
    Keyed <- MCKeyed
    MaxDeferred = 2
    StartupDefers = TRUE
    CallbackDefers = FALSE
    ExitBusy = FALSE
CHECK_DEADLOCK FALSE
PROPERTIES
    DeferredHappens
