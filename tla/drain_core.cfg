CONSTANTS
    Batch = {b1, b2}
    NoBatch = NoBatch
    OrdId = {o1, o2}
    NoOrder = NoOrder
    Events = 1
    MaxEpoch = 1
    Faults = {"ack", "disk", "crash", "stop"}
SPECIFICATION Spec
SYMMETRY Symmetric
INVARIANTS
    DrainTypeOK
    OneRecordPerBatch
    LinesAreAtHome
PROPERTIES
    GroupsStandAlone
    RecordsOnlyGrow
CHECK_DEADLOCK FALSE
