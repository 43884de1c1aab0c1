SPECIFICATION FairSpec
CONSTANTS
    a = a
    b = b
    junk = junk
    BUGLE_WORKQUEUE_SIZE = 4
    Item <- MCItem
    Junk <- junk
INVARIANTS
    PollHolds
PROPERTIES
    ImplementsFifo
    SleeperIsWoken
CHECK_DEADLOCK FALSE
