SPECIFICATION CallsFairSpec
CONSTANTS
    t1 = t1
    t2 = t2
    t3 = t3
    Thread <- MCThread
    WriterBit = 64
    Modulus = 16
    MaxCalls = 4
INVARIANTS
    RunsOnce
    CreatedBeforeUse
PROPERTIES
    ImplementsRWLock
    LockServed
    CallersReturn
CHECK_DEADLOCK FALSE
