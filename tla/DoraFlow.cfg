SPECIFICATION FairSpec
CONSTANTS
    datum = datum
    Xct <- WorkloadXct
    Partition <- WorkloadTables
    Key = {datum}
    Flow <- WorkloadFlow
    Mix <- Workloads
    Waited <- WorkloadXct
    MayFail = {"ins_call_fwd", "payment1"}
    Flusher = TRUE
INVARIANTS
    TypeOK
    OneOrder
    CountdownExact
    ComesBackOnce
    NewRunIsClean
PROPERTIES
    KeepsPromise
    UsesLockManager
    EveryFlowEnds
