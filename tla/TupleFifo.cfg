SPECIFICATION FairSpec
CONSTANTS
    Capacity = 10
    Threshold = 6
    MaxPages = 14
INVARIANTS
    TypeOK
    InOrder
    OneDeletes
    SomeoneGoesOn
PROPERTY
    BufferGoes
CHECK_DEADLOCK FALSE
