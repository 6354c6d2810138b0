SPECIFICATION FairSpec
CONSTANTS
    QUEUE_SIZE = 3
    Screens = {s0, s1}
    Screen0 = s0
    NoScreen = none
    Times = {1}
    InitTime = 1
    MaxEvents = 4
INVARIANTS
    QueueInv
PROPERTIES
    DispatchInOrder
    ImplementsFIFO
    KeepsTaking
CHECK_DEADLOCK FALSE
