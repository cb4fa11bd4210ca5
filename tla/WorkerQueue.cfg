SPECIFICATION FairSpec
CONSTANTS
    Action <- MCAction
    Queue <- MCQueue
    QueueOf <- MCQueueOf
    BWake = {}
    Thres = 1
    Loops = 1
    Stopping = TRUE
INVARIANTS
    TypeOK
    OneQueue
    NoLostWakeup
    
PROPERTY
    EveryActionTaken
CHECK_DEADLOCK FALSE
