SPECIFICATION FairSpec
CONSTANTS
    Action <- TwoAction
    Queue <- MCQueue
    QueueOf <- TwoQueueOf
    BWake = {}
    Thres = 1
    Loops = 1
    Stopping = TRUE
PROPERTY
    StopStops
CHECK_DEADLOCK FALSE
