SPECIFICATION TpccSpec
CONSTANTS
    Input <- MCInput
    Mix <- MCMix
    Loaded <- MCLoaded
    BadCredit <- MCBadCredit
    Item = {1, 2}
    NoRow = NoRow
    Xct <- TpccXct
    Step <- TpccStep
    XctOf <- TpccXctOf
    Clash <- TpccClash
    Before <- TpccBefore
INVARIANTS
    EndOrderSerializes
    AsIfSerial
    Consistent
PROPERTIES
    OnlyCommitsShow
CHECK_DEADLOCK FALSE
