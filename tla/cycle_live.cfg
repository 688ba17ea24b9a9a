CONSTANTS
    Batch = {1, 2}
    NoBatch = NoBatch
    s1 = s1
    s2 = s2
    Symbol = {s1}
    OrdId = {o1}
    Opening <- Flat
    Docs <- ClashDocs
    MaxTime = 4
    Grace = 1
    Settle = 1
    Faults = {"drop", "late", "ack", "cancel", "crash"}
SPECIFICATION FairSpec
INVARIANT RecordedIsIndexed
PROPERTY PendingEventuallyCloses
