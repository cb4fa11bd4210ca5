SPECIFICATION Spec
CONSTANTS
    datum = datum
    Xct = {"au1", "au2"}
    Partition <- TPCBTables
    Key = {datum}
    Flow <- TPCBFlow
    Mix = {{"au1", "au2"}}
    Waited = {"au1", "au2"}
    MayFail = {}
    Flusher = FALSE
INVARIANT
    OneOrder
