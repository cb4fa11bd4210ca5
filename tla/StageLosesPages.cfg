SPECIFICATION Spec
CONSTANTS
    Client <- TheQueries
    Need <- TheNeed
    PacketsOf <- ThePackets
    Shared = {"a", "b", "c"}
    Quits = {}
    Fails = {}
    Pages = 3
    MaxThreads = 2
INVARIANT
    WholeStream
CHECK_DEADLOCK FALSE
