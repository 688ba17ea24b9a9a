CONSTANTS
    Batch = {b1, b2}
    NoBatch = NoBatch
    OrdId = {o1}
    NoOrder = NoOrder
    Events = 2
    MaxEpoch = 1
    Faults = {"ack", "crash", "stop"}
SPECIFICATION FairSpec
INVARIANTS
    RecordIsFaithful
    NothingIsMissing
    RetoldOnlyByReplay
    LastPassIsWritten
PROPERTIES
    DroppedIsUnrecorded
    RecordCatchesUp
    StopEndsDrain
CHECK_DEADLOCK FALSE
