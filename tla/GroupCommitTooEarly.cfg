SPECIFICATION Spec
CONSTANTS
    x1 = x1
    x2 = x2
    Xct <- MCXct
    Dora = TRUE
    MaxGroup = 2
    MaxLog = 2
    Stopping = TRUE
INVARIANTS
    DurableWhenTold
CHECK_DEADLOCK FALSE
