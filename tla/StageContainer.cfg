SPECIFICATION FairSpec
CONSTANTS
    Client <- TheQueries
    Need <- TheNeed
    PacketsOf <- ThePackets
    Shared = {"a", "b", "c"}
    Quits = {"b"}
    Fails = {"d"}
    Pages = 3
    MaxThreads = 2
INVARIANTS
    TypeOK
    WorkersReserved
    OnlyTheHurtLeak
    NobodyWaitsBelowLimit
    WholeUnlessCut

PROPERTIES
    EveryPacketAnswered
    EveryQueryAdmitted
CHECK_DEADLOCK FALSE
