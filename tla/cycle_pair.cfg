CONSTANTS
    Batch = {1, 2}
    NoBatch = NoBatch
    s1 = s1
    s2 = s2
    Symbol = {s1, s2}
    OrdId = {o1, o2, o3}
    Opening <- Flat
    Docs <- PairDocs
    MaxTime = 4
    Grace = 1
    Settle = 1
    Faults = {"ack", "disk"}
SPECIFICATION Spec
SYMMETRY Symmetric
PROPERTIES
    FinishMeansHeld
    ImplementsLifecycle
