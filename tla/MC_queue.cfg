CONSTANTS
    p1 = p1
    p2 = p2
    Producers = {p1, p2}
    Fsm = fsm
    kMaxQueueSize = 2
    MaxEvents = 4
SPECIFICATION FairSpec
INVARIANTS
    OneOwner
    NoLostWakeUp
PROPERTIES
    PushReturns
    ImplementsFifo
CHECK_DEADLOCK FALSE
