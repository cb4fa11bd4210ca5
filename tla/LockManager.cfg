SPECIFICATION FairSpec
CONSTANTS
    k1 = k1
    k2 = k2
    Key = {k1, k2}
    Action <- MCAction
    Tid <- MCTid
    TidOf <- MCTidOf
    KeysOf <- MCKeysOf
    ReadOnly <- MCReadOnly
INVARIANTS
    TypeOK
    HeadIsBlocked
    OwnersSound
    NeededIsQueued
PROPERTIES
    NoOvertaking
    EveryWaiterRuns
