SPECIFICATION FairSpec
CONSTANTS
    t1 = t1
    t2 = t2
    None = None
    Timers <- TwoTimers
    W = 10
    Period = 2
    Horizon = 2
    MaxLate = 1
    MinTry = 1
    Defer = 1
    Repeat = 1
    IdleRepeat = 2
    TooLate = 0
INVARIANTS
    ListOK
PROPERTIES
    QueueRefined
    TasksRun
